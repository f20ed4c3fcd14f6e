------------------------- MODULE LocalVerification -------------------------
(***************************************************************************)
(* What the store of the command line keeps of a run whose execution is    *)
(* over, and the commands that have it judged: `verify-response`           *)
(* (verification-v2.ts), which reads the run in several transactions and   *)
(* writes in another, `attest` (verification.ts), and `delete`.  A worker  *)
(* that is late may come to the end of the same run after it was sealed,   *)
(* and judged.  LocalPublication adds the commands that produce the work.  *)
(***************************************************************************)
EXTENDS Naturals

CONSTANTS
  Runs,
  Judged,     \* bound of the model: the runs that somebody verifies, or resumes late
  Processes,  \* bound of the model: of verify-response at once
  MaxEvents,  \* bound of the model: events of a run since its execution, the last of
              \* them for a verdict
  None

ASSUME BoundsAssumption == MaxEvents \in Nat \ {0} /\ Judged \subseteq Runs

VARIABLES
  run,     \* the rows of a run
  call     \* per process: what it has read

verificationVars == <<run, call>>

\* A commit, by the runs whose edits it holds.
Commits == SUBSET Runs
Decisions == {"verified", "failed", "uncertain"}

\* A handoff document, by what can differ between two of one run: updated_at,
\* the head of the event chain (which is the nonce too), and the subject.
Documents == [updated : 0 .. MaxEvents, head : 0 .. MaxEvents, subject : Commits]
\* A version 1 attestation, which names no handoff.
Attestation == [contract |-> "v1"]

Missing ==
  [state |-> "MISSING", head |-> 0, updated |-> 0, subject |-> None, replays |-> {},
   by |-> None]
Deleted == [Missing EXCEPT !.state = "DELETED"]

Awaits(r) == run[r].state = "AWAITING_VERIFICATION"
HasRoom(r, decision) ==
  run[r].head < IF decision = "uncertain" THEN MaxEvents - 1 ELSE MaxEvents

Idle == [step |-> "idle"]

ASSUME NoneAssumption ==
  /\ None \notin Runs \cup Documents \cup {Attestation}
  /\ \A commit \in Commits : commit # None

-----------------------------------------------------------------------------
(* setPublicationSubject(). *)

\* The row of the run stays; its chain grows.
SetSubject(r, commit) ==
  /\ Awaits(r) /\ HasRoom(r, "uncertain")
  /\ run' = [run EXCEPT ![r].subject = commit, ![r].head = @ + 1]

-----------------------------------------------------------------------------
(* recordVerificationResponseV2().  The document that the response answers was *)
(* given out by `handoff`, which only reads; here a verifier has answered      *)
(* whichever document the response is compared with.                          *)

\* createVerificationHandoffV2(): getRun() and getPublicationSubject().
BeginHandoff(p, r) ==
  /\ call[p] = Idle
  /\ Awaits(r) /\ run[r].subject # None
  /\ call' = [call EXCEPT ![p] =
       [step |-> "reading", run |-> r, updated |-> run[r].updated, subject |-> run[r].subject]]
  /\ UNCHANGED run

\* verifyEventChain(), in a transaction of its own; a deleted run has no chain.
\* validateVerificationResponseV2(): the response is about that.
Validate(p) ==
  LET r == call[p].run
  IN /\ call[p].step = "reading" /\ run[r].state # "DELETED"
     /\ call' = [call EXCEPT ![p] =
          [step |-> "validated", run |-> r,
           document |-> [updated |-> call[p].updated, head |-> run[r].head,
                         subject |-> call[p].subject]]]
     /\ UNCHANGED run

-----------------------------------------------------------------------------
(* saveVerificationResponse(). *)

\* Mutant: the replay table is not asked.
MutantReplayed(r, document) == FALSE

\* By nonce or by digest.
Replayed(r, document) == \E d \in run[r].replays : d.head = document.head \/ d = document

StateAfter(decision) ==
  CASE decision = "verified" -> "VERIFIED"
    [] decision = "failed" -> "FAILED_SAFE"
    [] OTHER -> "AWAITING_VERIFICATION"

\* Whether the response is about the present chain is not asked again.
Save(p, decision) ==
  LET r == call[p].run
      document == call[p].document
      next == StateAfter(decision)
  IN /\ call[p].step = "validated"
     /\ Awaits(r) /\ ~Replayed(r, document) /\ HasRoom(r, decision)
     /\ run' = [run EXCEPT ![r].state = next, ![r].head = @ + 1, ![r].updated = run[r].head + 1,
                           ![r].replays = @ \cup {document},
                           ![r].by = IF next = "AWAITING_VERIFICATION" THEN None
                                     ELSE document]
     /\ call' = [call EXCEPT ![p] = Idle]

\* A check fails, or the process dies.
GiveUp(p) ==
  /\ call[p] # Idle /\ call' = [call EXCEPT ![p] = Idle]
  /\ UNCHANGED run

-----------------------------------------------------------------------------
(* recordIndependentAttestation(): the version 1 path asks for the sealed     *)
(* snapshot only, whether there is a subject or not, and has no replay table. *)

Attest(r, decision) ==
  LET next == StateAfter(decision)
  IN /\ Awaits(r) /\ HasRoom(r, decision)
     /\ run' = [run EXCEPT ![r].state = next, ![r].head = @ + 1, ![r].updated = run[r].head + 1,
                           ![r].by = IF next = "AWAITING_VERIFICATION" THEN None
                                     ELSE Attestation]
     /\ UNCHANGED call

-----------------------------------------------------------------------------
(* A late worker, in resume(): its actions have succeeded and others have     *)
(* gone on with the run.  No step here asks for a lease or what was judged.   *)

\* The run is over, and its actions had succeeded when a worker looked; BLOCKED is
\* every other state of such a run: BLOCKED_SAFETY, AMBIGUOUS_EFFECT, CANCELLED.
Reopenable == {"AWAITING_VERIFICATION", "VERIFIED", "FAILED_SAFE", "BLOCKED"}

\* An event that changes the row of the run; the snapshot is of the same actions.
Changes(r, state) ==
  /\ HasRoom(r, "uncertain")
  /\ run' = [run EXCEPT ![r].state = state, ![r].head = @ + 1, ![r].updated = run[r].head + 1,
                        ![r].by = IF state = run[r].state THEN @ ELSE None]
  /\ UNCHANGED call

\* From whatever state it reads: RECONCILING, or a phase before it.
Reopen(r) == run[r].state \in Reopenable /\ Changes(r, "RECONCILING")

\* A snapshot is written in any state.
SnapshotAgain(r) ==
  run[r].state \in Reopenable \cup {"RECONCILING"} /\ Changes(r, run[r].state)

Reseal(r) == run[r].state = "RECONCILING" /\ Changes(r, "AWAITING_VERIFICATION")

\* An action that a worker read as RUNNING is marked ambiguous; or, while the run
\* is reopened, a gate refuses it or the operator cancels it.
Block(r) == run[r].state \in Reopenable \cup {"RECONCILING"} /\ Changes(r, "BLOCKED")

LateWorker(r) == Reopen(r) \/ SnapshotAgain(r) \/ Reseal(r) \/ Block(r)

-----------------------------------------------------------------------------
(* deleteRun(): with every row of the run. *)

Deletable == {"AWAITING_VERIFICATION", "VERIFIED", "FAILED_SAFE", "STOPPED", "BLOCKED"}

\* Mutant: only the row of the run is marked, and what refers to it stays.
MutantDeleteRun(r) ==
  /\ run[r].state \in Deletable
  /\ run' = [run EXCEPT ![r].state = "DELETED"]
  /\ UNCHANGED call

DeleteRun(r) ==
  /\ run[r].state \in Deletable
  /\ run' = [run EXCEPT ![r] = Deleted]
  /\ UNCHANGED call

-----------------------------------------------------------------------------

VerificationInit ==
  /\ run = [r \in Runs |-> Missing]
  /\ call = [p \in Processes |-> Idle]

VerificationNext ==
  \/ \E p \in Processes :
       \/ \E r \in Judged : BeginHandoff(p, r)
       \/ Validate(p) \/ GiveUp(p)
       \/ \E decision \in Decisions : Save(p, decision)
  \/ \E r \in Judged : LateWorker(r) \/ \E decision \in Decisions : Attest(r, decision)
  \/ \E r \in Runs : DeleteRun(r)

States == {"MISSING", "EXECUTING", "STOPPED", "RECONCILING", "DELETED"} \cup Reopenable

\* The rows have their types, and the mutually exclusive ways in which a
\* verdict comes about leave the fields that say so.
VerificationTypeOK ==
  /\ run \in [Runs -> [state : States, head : 0 .. MaxEvents, updated : 0 .. MaxEvents,
                       subject : Commits \cup {None}, replays : SUBSET Documents,
                       by : Documents \cup {None, Attestation}]]
  /\ call \in [Processes ->
       {Idle}
       \cup [step : {"reading"}, run : Runs, updated : 0 .. MaxEvents, subject : Commits]
       \cup [step : {"validated"}, run : Runs, document : Documents]]
  /\ \A r \in Runs :
       /\ run[r].updated <= run[r].head
       /\ (run[r].state \in {"VERIFIED", "FAILED_SAFE"}) = (run[r].by # None)

=============================================================================
