------------------------------ MODULE HostedRun ------------------------------
(***************************************************************************)
(* One hosted run: the Durable Object of coordinator.ts, the executor that *)
(* its alarm drives (executor.ts, implementation-receipt.ts,               *)
(* repository-publication.ts), and what they act on: the sandbox, the      *)
(* detached implementation, the credential lease, the branch and the pull  *)
(* request.                                                                *)
(*                                                                         *)
(* The platform runs one alarm handler at a time and delivers an alarm     *)
(* again when its handler threw or the object restarted.  Every other      *)
(* request interleaves with the handler wherever it waits for something    *)
(* outside the object, and such a wait is what each value of pc names: an  *)
(* action consumes the reply and goes on to the next wait.  transition()   *)
(* compares state and head again after hashing its event, so it is one     *)
(* step.                                                                   *)
(***************************************************************************)
EXTENDS Naturals, Sequences, FiniteSets, Functions

CONSTANTS
  Objectives,   \* objectives: what selectedValidation chooses, in order, and
                \* whether it has to guess the ecosystem ("auto"), what runs
                \* after the commit (governance-impact or nothing), publication
  Requests,     \* slots for submit_verification_response requests
  MaxFaults,    \* bound of the model: restarts and failed control calls
  MaxAnswers    \* bound of the model: responses the verifier signs

Commands ==
  {"diff-check", "create-commit"} \cup
    UNION {Range(o.validation) \cup Range(o.closing) : o \in Objectives}
\* What is not a command in the sandbox has an id that no command has.
Operations ==
  {"clone", "implement", "prepare-publication-credentials", "push-branch",
   "open-pull-request"}
ActionIds == Operations \cup Commands

ASSUME ObjectivesAssumption ==
  \A o \in Objectives :
    /\ o.validation \in Seq(STRING) /\ o.closing \in Seq(STRING)
    /\ Operations \cap (Range(o.validation) \cup Range(o.closing)) = {}
    /\ o.automatic \in BOOLEAN
    /\ o.publication \in {"branch", "pull_request"}
ASSUME BoundsAssumption == MaxFaults \in Nat /\ MaxAnswers \in Nat

VARIABLES
  objective,   \* objective_json, which nothing changes
  runState,    \* run.state, "DELETED" once the rows are gone
  head,        \* the last event of the chain, by its sequence number
  rows,        \* actions: id -> state, "ABSENT" before the intent
  checkpoint,  \* execution_checkpoint_json: its implementationPhase
  recorded,    \* branch_name and pull_request_number of the run row
  sealed,      \* verification_snapshot_digest: the rows it digests
  replays,     \* verification_replays: the nonces consumed
  alarm,       \* an alarm is due
  pc,          \* what the alarm handler waits for
  held,        \* the checkpoint it read when it began
  fate,        \* how executeObjective ended, or where the handler goes next
  cancelPc,    \* what cancel() waits for
  submit,      \* the submissions between their checks and their write
  answers,     \* the responses the verifier has signed
  sandbox,     \* the per-run container
  child,       \* the detached implementation and its receipt
  due,         \* checkpoint.deadlineMs has passed
  leased,      \* the vault holds the credential for this run
  inflight,    \* requests sent whose effect has not happened yet
  branch,      \* the run's branch at GitHub
  pull,        \* the run's pull request at GitHub
  launched,    \* observation: how often each effect was requested
  verdicts,    \* observation: the responses accepted, in order
  faults       \* restarts and failed control calls so far

run == <<runState, head, rows, checkpoint, recorded, sealed, replays>>
handler == <<pc, held, fate>>
world == <<sandbox, child, due, leased, inflight, branch, pull>>
observed == <<launched, verdicts, faults>>
verifier == <<objective, submit, answers>>
vars == <<run, alarm, handler, cancelPc, verifier, world, observed>>

-----------------------------------------------------------------------------
(* States. *)

TerminalStates ==
  {"VERIFIED", "BLOCKED_AUTHORITY", "BLOCKED_CAPABILITY", "BLOCKED_SAFETY",
   "AMBIGUOUS_EFFECT", "FAILED_SAFE", "CANCELLED"}
PhaseStates == {"EXECUTING", "VALIDATING", "PUBLISHING"}
RunStates ==
  TerminalStates \cup PhaseStates \cup
    {"RECEIVED", "QUEUED", "RECONCILING", "AWAITING_VERIFICATION", "DELETED"}
RestingStates == TerminalStates \cup {"AWAITING_VERIFICATION"}
RowStates == {"ABSENT", "RUNNING", "SUCCEEDED", "FAILED", "AMBIGUOUS"}

Deleted == runState = "DELETED"
Cancelled == runState = "CANCELLED"
NoRows == [a \in ActionIds |-> "ABSENT"]
NotSealed == [a \in {} |-> "ABSENT"]

\* The started actions, which are the rows of the table.
Started(t) == {a \in DOMAIN t : t[a] # "ABSENT"}

\* transition(): nothing to do when the state is reached already.
TransitionTo(s) ==
  /\ runState' = s
  /\ head' = IF runState = s THEN head ELSE head + 1

-----------------------------------------------------------------------------
(* How a step of the handler ends. *)

At(label) == pc = label

Await(label) == pc' = label /\ UNCHANGED <<held, fate, alarm>>

Done == pc' = "idle" /\ held' = "none" /\ fate' = "none"

\* executeObjective throws or returns with the sandbox in use: its finally
\* block destroys the sandbox before alarm() goes on.
Unwind(f) == pc' = "unwind" /\ fate' = f /\ UNCHANGED <<held, alarm>>

\* It throws before it has a sandbox.
Refuse(f) == pc' = "catch" /\ fate' = f /\ UNCHANGED <<held, alarm>>

\* Mutant: the handler yields without an alarm to come back to.
MutantDefer == Done /\ UNCHANGED alarm

\* "deferred": sandbox and lease are kept for the next alarm.
Defer == Done /\ alarm' = TRUE

Fault == faults < MaxFaults /\ faults' = faults + 1

-----------------------------------------------------------------------------
(* startAction and settleAction.  create() accepts no objective without the  *)
(* authority classes of its publication, so that a missing one stops nothing *)
(* here.                                                                     *)

\* Mutant: an intent that did not succeed is started again.
MutantStartRefusal(a) == IF Deleted THEN "error" ELSE "none"

StartRefusal(a) ==
  IF Deleted THEN "error"
  ELSE IF rows[a] \notin {"ABSENT", "SUCCEEDED"} THEN "AMBIGUOUS_EFFECT"
  ELSE "none"

\* runAction: cancellation comes first.
RunRefusal(a) == IF Cancelled THEN "FAILED_SAFE" ELSE StartRefusal(a)

\* The intent of a is stored and its effect requested.
Begin(a, label) ==
  /\ rows' = [rows EXCEPT ![a] = "RUNNING"]
  /\ launched' = [launched EXCEPT ![a] = @ + 1]
  /\ Await(label)

\* runAction for an action that has not succeeded yet.
RunAction(a) ==
  IF RunRefusal(a) = "none"
    THEN Begin(a, "command")
    ELSE UNCHANGED <<rows, launched>> /\ Unwind(RunRefusal(a))

\* Mutant: any row may be settled again.
MutantSettleable(a) == ~Deleted

Settleable(a) == rows[a] = "RUNNING"

\* Either a is settled and the handler goes on, or settleAction throws.
Settle(a, s, goOn) ==
  IF Settleable(a)
    THEN rows' = [rows EXCEPT ![a] = s] /\ goOn
    ELSE UNCHANGED rows /\ Unwind("error")

\* The first action of the sequence that has not succeeded.
Unsettled(s) == {i \in DOMAIN s : rows[s[i]] # "SUCCEEDED"}
First(s) == s[CHOOSE i \in Unsettled(s) : \A j \in Unsettled(s) : i <= j]

-----------------------------------------------------------------------------
(* alarm(): up to the credential. *)

\* A started action whose outcome nobody will report.
Interrupted ==
  {a \in ActionIds : rows[a] = "RUNNING" /\ ~(a = "implement" /\ checkpoint = "pending")}

\* It is settled as ambiguous; the credential lease stays where it is.
Recover ==
  /\ rows' = [a \in ActionIds |-> IF a \in Interrupted THEN "AMBIGUOUS" ELSE rows[a]]
  /\ TransitionTo("AMBIGUOUS_EFFECT")
  /\ IF checkpoint = "none"
       THEN Done
       ELSE pc' = "cleanup" /\ fate' = "idle" /\ held' = "none"

Alarm ==
  /\ At("idle") /\ alarm
  /\ alarm' = FALSE
  /\ \/ /\ runState \notin PhaseStates \cup {"QUEUED", "RECONCILING"}
        /\ Done
        /\ UNCHANGED run
     \/ /\ runState = "RECONCILING"
        /\ pc' = "finish" /\ fate' = "idle" /\ held' = "none"
        /\ UNCHANGED run
     \/ /\ runState \in PhaseStates
        /\ Interrupted # {}
        /\ Recover
        /\ UNCHANGED <<checkpoint, recorded, sealed, replays>>
     \/ /\ runState \in {"VALIDATING", "PUBLISHING"}
        /\ Interrupted = {} /\ checkpoint = "none"
        /\ TransitionTo("BLOCKED_CAPABILITY")
        /\ Done
        /\ UNCHANGED <<rows, checkpoint, recorded, sealed, replays>>
     \/ /\ \/ runState \in {"QUEUED", "EXECUTING"}
           \/ runState \in {"VALIDATING", "PUBLISHING"} /\ checkpoint # "none"
        /\ Interrupted = {}
        /\ TransitionTo(IF runState = "QUEUED" THEN "EXECUTING" ELSE runState)
        /\ pc' = "acquire" /\ held' = checkpoint /\ UNCHANGED fate
        /\ UNCHANGED <<rows, checkpoint, recorded, sealed, replays>>
  /\ UNCHANGED <<cancelPc, verifier, world, observed>>

\* The catch block of alarm() for a failure that ends the run; next is where
\* the handler goes when the execution context is cleaned up.
StopRun(f, next) ==
  /\ IF runState \in TerminalStates \cup {"DELETED"}
       THEN UNCHANGED <<runState, head>>
       ELSE TransitionTo(IF f = "error" THEN "FAILED_SAFE" ELSE f)
  /\ IF checkpoint # "none" THEN pc' = "cleanup" /\ fate' = next /\ UNCHANGED held
     ELSE IF next = "idle" THEN Done
     ELSE pc' = next /\ fate' = "none" /\ UNCHANGED held
  /\ UNCHANGED <<alarm, rows, checkpoint, recorded, sealed, replays>>

\* The vault grants the credential to the run, again or for the first time,
\* or refuses.
Acquire ==
  /\ At("acquire")
  /\ \/ leased' = TRUE /\ Await("acquired") /\ UNCHANGED run
     \/ StopRun("BLOCKED_CAPABILITY", "idle") /\ UNCHANGED leased
  /\ UNCHANGED <<cancelPc, verifier, sandbox, child, due, inflight, branch, pull, observed>>

\* executeObjective begins, with the checkpoint that was read before.
Acquired ==
  /\ At("acquired")
  /\ \/ /\ held = "none"
        /\ IF Cancelled THEN Refuse("FAILED_SAFE") ELSE Await("access")
        /\ UNCHANGED <<runState, head, rows, launched>>
     \/ /\ held = "pending"
        /\ Await("receipt")
        /\ UNCHANGED <<runState, head, rows, launched>>
     \/ /\ held = "succeeded"
        /\ IF runState = "EXECUTING" THEN TransitionTo("VALIDATING")
                                     ELSE UNCHANGED <<runState, head>>
        /\ IF rows["diff-check"] = "SUCCEEDED" /\ RunRefusal("diff-check") = "none"
             THEN Await("probe") /\ UNCHANGED <<rows, launched>>
             ELSE RunAction("diff-check")
  /\ UNCHANGED <<checkpoint, recorded, sealed, replays, cancelPc, verifier, world,
                 verdicts, faults>>

-----------------------------------------------------------------------------
(* Clone and launch of the implementation. *)

\* GitHub has said whether the repository is private; startAction follows.
Access ==
  /\ At("access")
  /\ \/ Refuse("BLOCKED_CAPABILITY") /\ UNCHANGED <<rows, launched>>
     \/ IF StartRefusal("clone") # "none"
          THEN Refuse(StartRefusal("clone")) /\ UNCHANGED <<rows, launched>>
        ELSE IF rows["clone"] = "SUCCEEDED"
          THEN Await("base-head") /\ UNCHANGED <<rows, launched>>
        ELSE Begin("clone", "clone")
  /\ UNCHANGED <<runState, head, checkpoint, recorded, sealed, replays, cancelPc, verifier,
                 world, verdicts, faults>>

\* All attempts, each in a sandbox of its own; a failed one is destroyed.
Clone ==
  /\ At("clone")
  /\ IF ~Settleable("clone")
       THEN Refuse("error") /\ UNCHANGED <<rows, sandbox>>
       ELSE \/ /\ rows' = [rows EXCEPT !["clone"] = "SUCCEEDED"]
               /\ sandbox' = "live"
               /\ Await("first-head")
            \/ /\ rows' = [rows EXCEPT !["clone"] = "FAILED"]
               /\ \E f \in {"BLOCKED_CAPABILITY", "FAILED_SAFE"} : Refuse(f)
               /\ UNCHANGED sandbox
  /\ UNCHANGED <<runState, head, checkpoint, recorded, sealed, replays, cancelPc, verifier,
                 child, due, leased, inflight, branch, pull, observed>>

\* git rev-parse HEAD against the pinned base, before anything else is run.
BaseHead ==
  /\ At("base-head") \/ At("first-head")
  /\ \/ \E f \in {"BLOCKED_SAFETY", "error"} : Unwind(f)
     \/ /\ sandbox = "live"
        /\ IF At("first-head") THEN Defer
           ELSE IF Cancelled THEN Unwind("FAILED_SAFE")
           ELSE Await("control-files")
  /\ UNCHANGED <<run, cancelPc, verifier, world, observed>>

\* startImplementationAction: intent and checkpoint in one transaction, in
\* whatever state the run is by now.
StartImplementation ==
  /\ At("control-files")
  /\ \/ /\ Unwind("BLOCKED_CAPABILITY")
        /\ UNCHANGED <<rows, checkpoint, launched, due, inflight>>
     \/ LET refusal == IF rows["implement"] = "SUCCEEDED" THEN "BLOCKED_CAPABILITY"
                       ELSE IF StartRefusal("implement") # "none"
                         THEN StartRefusal("implement")
                       ELSE IF checkpoint # "none" THEN "error" ELSE "none"
        IN
        /\ sandbox = "live"
        /\ IF refusal # "none"
             THEN Unwind(refusal) /\ UNCHANGED <<rows, checkpoint, launched, due, inflight>>
             ELSE /\ Begin("implement", "launch")
                  /\ checkpoint' = "pending"
                  /\ due' = FALSE
                  /\ inflight' = inflight \cup {"implement"}
  /\ UNCHANGED <<runState, head, recorded, sealed, replays, cancelPc, verifier, sandbox,
                 child, leased, branch, pull, verdicts, faults>>

\* updateExecutionCheckpoint, then yield; it wants the intent still running.
KeepPolling ==
  \/ rows["implement"] = "RUNNING" /\ Defer /\ UNCHANGED faults
  \/ rows["implement"] # "RUNNING" /\ Unwind("error") /\ UNCHANGED faults
  \/ Fault /\ Unwind("error")

\* startProcess answered, or its acknowledgement was lost.
Launch ==
  /\ At("launch")
  /\ KeepPolling
  /\ UNCHANGED <<run, cancelPc, verifier, world, launched, verdicts>>

-----------------------------------------------------------------------------
(* reconcileImplementationCheckpoint: the receipt of the detached child.   *)

\* Mutant: the checkpoint is left for a later write.
MutantSettleImplementation(s, phase, goOn) ==
  Settle("implement", s, goOn) /\ UNCHANGED checkpoint

\* settleImplementationAction: row and checkpoint in one transaction.
SettleImplementation(s, phase, goOn) ==
  /\ Settle("implement", s, goOn)
  /\ checkpoint' = IF Settleable("implement") THEN phase ELSE checkpoint

Receipt ==
  /\ At("receipt")
  /\ \/ \* the receipt of a success
        /\ sandbox = "live" /\ child = "ok"
        /\ Await("receipt-head")
        /\ UNCHANGED <<rows, checkpoint, faults>>
     \/ \* of a failure
        /\ sandbox = "live" /\ child = "failed"
        /\ SettleImplementation("FAILED", "none", Unwind("FAILED_SAFE"))
        /\ UNCHANGED faults
     \/ \* of another run, command or nonce
        /\ sandbox = "live" /\ child = "forged"
        /\ SettleImplementation("AMBIGUOUS", "none", Unwind("AMBIGUOUS_EFFECT"))
        /\ UNCHANGED faults
     \/ \* none that can be read yet
        /\ ~due
        /\ KeepPolling
        /\ UNCHANGED <<rows, checkpoint>>
     \/ \* none before the deadline
        /\ due
        /\ SettleImplementation("AMBIGUOUS", "none", Unwind("AMBIGUOUS_EFFECT"))
        /\ UNCHANGED faults
  /\ UNCHANGED <<runState, head, recorded, sealed, replays, cancelPc, verifier, world,
                 launched, verdicts>>

\* The head of the repository after a success, or no answer.
ReceiptHead ==
  /\ At("receipt-head")
  /\ \/ /\ sandbox = "live"
        /\ SettleImplementation("SUCCEEDED", "succeeded", Defer)
        /\ UNCHANGED faults
     \/ /\ sandbox = "live"
        /\ SettleImplementation("SUCCEEDED", "none", Unwind("BLOCKED_SAFETY"))
        /\ UNCHANGED faults
     \/ ~due /\ KeepPolling /\ UNCHANGED <<rows, checkpoint>>
     \/ /\ due
        /\ SettleImplementation("SUCCEEDED", "none", Unwind("BLOCKED_CAPABILITY"))
        /\ UNCHANGED faults
  /\ UNCHANGED <<runState, head, recorded, sealed, replays, cancelPc, verifier, world,
                 launched, verdicts>>

-----------------------------------------------------------------------------
(* Validation and commit: one command for each alarm. *)

Command ==
  /\ At("command")
  /\ \E a \in Commands :
       /\ rows[a] = "RUNNING" \/ \A b \in Commands : rows[b] # "RUNNING"
       /\ \/ sandbox = "live" /\ Settle(a, "SUCCEEDED", Defer)
          \/ \E f \in {"FAILED_SAFE", "BLOCKED_CAPABILITY"} : Settle(a, "FAILED", Unwind(f))
  /\ UNCHANGED <<runState, head, checkpoint, recorded, sealed, replays, cancelPc, verifier,
                 world, observed>>

\* Mutant: the commit does not wait for the validation.
MutantSelected == {<<>>}

\* selectedValidation: hasFile answers false for a file that is not there and
\* for one that could not be read, so that the commands for a lock file, and
\* under "auto" those for the whole ecosystem, may be passed over.
Selected ==
  LET commands == objective.validation IN
  {SubSeq(commands, i, Len(commands)) :
     i \in 1 .. Len(commands) + IF objective.automatic \/ commands = <<>> THEN 1 ELSE 0}

\* The files probed, the head and the changed files inspected.
Probe ==
  /\ At("probe")
  /\ \/ /\ \E f \in {"FAILED_SAFE", "BLOCKED_SAFETY", "error"} : Unwind(f)
        /\ UNCHANGED <<rows, launched>>
     \/ /\ sandbox = "live"
        /\ \E chosen \in Selected :
             LET next == IF Unsettled(chosen) # {} THEN First(chosen) ELSE "create-commit" IN
             IF rows[next] = "SUCCEEDED" /\ RunRefusal(next) = "none"
               THEN Await("commit-head") /\ UNCHANGED <<rows, launched>>
               ELSE RunAction(next)
  /\ UNCHANGED <<runState, head, checkpoint, recorded, sealed, replays, cancelPc, verifier,
                 world, verdicts, faults>>

\* PUBLISHING is entered from any state but itself.
EnterPublishing ==
  IF Deleted
    THEN Unwind("error") /\ UNCHANGED <<runState, head>>
    ELSE TransitionTo("PUBLISHING") /\ Await("refs")

\* git rev-parse HEAD after the commit, then what governance wants.
CommitHead ==
  /\ At("commit-head")
  /\ \/ /\ \E f \in {"FAILED_SAFE", "error"} : Unwind(f)
        /\ UNCHANGED <<runState, head, rows, launched>>
     \/ /\ sandbox = "live"
        /\ IF objective.closing = <<>>
             THEN EnterPublishing /\ UNCHANGED <<rows, launched>>
           ELSE IF Unsettled(objective.closing) # {}
             THEN RunAction(First(objective.closing)) /\ UNCHANGED <<runState, head>>
           ELSE IF RunRefusal(objective.closing[1]) # "none"
             THEN Unwind(RunRefusal(objective.closing[1])) /\ UNCHANGED <<runState, head, rows, launched>>
           ELSE EnterPublishing /\ UNCHANGED <<rows, launched>>
  /\ UNCHANGED <<checkpoint, recorded, sealed, replays, cancelPc, verifier, world,
                 verdicts, faults>>

-----------------------------------------------------------------------------
(* Publication. *)

PushRefusal ==
  IF Cancelled THEN "FAILED_SAFE"
  ELSE IF StartRefusal("prepare-publication-credentials") # "none"
    THEN StartRefusal("prepare-publication-credentials")
  ELSE IF rows["push-branch"] = "SUCCEEDED" THEN "BLOCKED_SAFETY"
  ELSE StartRefusal("push-branch")

\* pushRepositoryBranch up to the command.
BeginPush ==
  IF PushRefusal # "none"
    THEN Unwind(PushRefusal) /\ UNCHANGED <<rows, launched, inflight>>
    ELSE /\ rows' = [rows EXCEPT !["prepare-publication-credentials"] = "SUCCEEDED",
                                 !["push-branch"] = "RUNNING"]
         /\ launched' = [launched EXCEPT !["push-branch"] = @ + 1]
         /\ inflight' = inflight \cup {"push-branch"}
         /\ Await("push")

Record(what) == recorded' = IF Deleted THEN "none" ELSE what

\* The branch is there at the commit: done, or the pull request is next.
BeginPull ==
  LET refusal == StartRefusal("open-pull-request") IN
  IF objective.publication = "branch" THEN
    Record("branch") /\ Unwind("completed") /\ UNCHANGED <<rows, launched>>
  ELSE IF refusal # "none" THEN
    Record("branch") /\ Unwind(refusal) /\ UNCHANGED <<rows, launched>>
  ELSE IF rows["open-pull-request"] = "SUCCEEDED" THEN
    Record("pull_request") /\ Unwind("completed") /\ UNCHANGED <<rows, launched>>
  ELSE
    /\ Record("branch")
    /\ rows' = [rows EXCEPT !["open-pull-request"] = "RUNNING"]
    /\ Await("find")
    /\ UNCHANGED launched

\* The heads of the base and of the run's branch at GitHub.
Refs ==
  /\ At("refs")
  /\ \/ /\ \E f \in {"BLOCKED_SAFETY", "error"} : Unwind(f)
        /\ UNCHANGED <<rows, recorded, launched, inflight>>
     \/ branch = "none" /\ BeginPush /\ UNCHANGED recorded
     \/ branch = "ours" /\ BeginPull /\ UNCHANGED inflight
  /\ UNCHANGED <<runState, head, checkpoint, sealed, replays, cancelPc, verifier, sandbox,
                 child, due, leased, branch, pull, verdicts, faults>>

\* The command ended, and the branch was probed; only the probe decides.
Push ==
  /\ At("push")
  /\ \/ /\ branch = "ours"
        /\ Settle("push-branch", "SUCCEEDED", Defer)
        /\ recorded' = IF Settleable("push-branch") THEN "branch" ELSE recorded
     \/ /\ Settle("push-branch", "AMBIGUOUS", Unwind("AMBIGUOUS_EFFECT"))
        /\ UNCHANGED recorded
  /\ UNCHANGED <<runState, head, checkpoint, sealed, replays, cancelPc, verifier, world,
                 observed>>

PullSettled ==
  \/ /\ pull = "ours"
     /\ Settle("open-pull-request", "SUCCEEDED", Unwind("completed"))
     /\ recorded' = IF Settleable("open-pull-request") THEN "pull_request" ELSE recorded
  \/ /\ pull = "other"
     /\ Settle("open-pull-request", "AMBIGUOUS", Unwind("AMBIGUOUS_EFFECT"))
     /\ UNCHANGED recorded

FindPull ==
  /\ At("find")
  /\ \/ Unwind("error") /\ UNCHANGED <<rows, recorded, launched, inflight>>
     \/ PullSettled /\ UNCHANGED <<launched, inflight>>
     \/ /\ pull = "none"
        /\ launched' = [launched EXCEPT !["open-pull-request"] = @ + 1]
        /\ inflight' = inflight \cup {"open-pull-request"}
        /\ Await("create")
        /\ UNCHANGED <<rows, recorded>>
  /\ UNCHANGED <<runState, head, checkpoint, sealed, replays, cancelPc, verifier, sandbox,
                 child, due, leased, branch, pull, verdicts, faults>>

CreatePull ==
  /\ At("create")
  /\ \/ PullSettled
     \/ Await("find-again") /\ UNCHANGED <<rows, recorded>>
  /\ UNCHANGED <<runState, head, checkpoint, sealed, replays, cancelPc, verifier, world,
                 observed>>

\* createPullRequest failed: is the pull request there all the same?
FindPullAgain ==
  /\ At("find-again")
  /\ \/ Unwind("error") /\ UNCHANGED <<rows, recorded>>
     \/ PullSettled
     \/ /\ pull = "none"
        /\ Settle("open-pull-request", "AMBIGUOUS", Unwind("AMBIGUOUS_EFFECT"))
        /\ UNCHANGED recorded
  /\ UNCHANGED <<runState, head, checkpoint, sealed, replays, cancelPc, verifier, world,
                 observed>>

-----------------------------------------------------------------------------
(* The end of an execution. *)

ContainerGone ==
  /\ sandbox' = IF sandbox = "live" THEN "gone" ELSE sandbox
  /\ child' = "none"
  /\ inflight' = inflight \ {"implement", "push-branch"}

\* destroy() answers, or its failure is logged and forgotten.
DestroySandbox ==
  \/ ContainerGone /\ UNCHANGED faults
  \/ Fault /\ UNCHANGED <<sandbox, child, inflight>>

\* A control operation was interrupted while the implementation may still be
\* at work: alarm() throws, and the platform delivers the alarm again.
Resumable ==
  /\ fate = "error"
  /\ runState \notin TerminalStates \cup {"DELETED"}
  /\ rows["implement"] = "RUNNING" /\ checkpoint = "pending"

Caught ==
  IF Resumable
    THEN Defer /\ UNCHANGED run
    ELSE StopRun(fate, "release")

Catch ==
  /\ At("catch")
  /\ Caught
  /\ UNCHANGED <<cancelPc, verifier, world, observed>>

\* RECONCILING is entered from whatever state the run is in by now.
UnwindExecution ==
  /\ At("unwind")
  /\ DestroySandbox
  /\ IF fate = "completed" /\ ~Deleted
       THEN /\ TransitionTo("RECONCILING")
            /\ checkpoint' = "none"
            /\ pc' = "finish" /\ fate' = "release" /\ held' = "none"
            /\ UNCHANGED <<alarm, rows, recorded, sealed, replays>>
       ELSE Caught
  /\ UNCHANGED <<cancelPc, verifier, due, leased, branch, pull, launched, verdicts>>

\* Mutant: the actions are not looked at again.
MutantUnfinished == {}

Unfinished == {a \in Started(rows) : rows[a] # "SUCCEEDED"}

\* finishReconciliation: seal and hand over.  It throws out of alarm() when
\* the handler came here from RECONCILING.
Finish ==
  LET refused == Unfinished # {} \/ Deleted IN
  /\ At("finish")
  /\ IF refused /\ fate = "idle" THEN Defer /\ UNCHANGED run
     ELSE IF refused THEN StopRun(IF Deleted THEN "error" ELSE "BLOCKED_SAFETY", "release")
     ELSE /\ sealed' = [rows |-> rows, published |-> recorded]
          /\ TransitionTo("AWAITING_VERIFICATION")
          /\ pc' = "verify"
          /\ UNCHANGED <<held, fate, alarm, rows, checkpoint, recorded, replays>>
  /\ UNCHANGED <<cancelPc, verifier, world, observed>>

\* The automatic request for verification ends, whatever it brought.
Verify ==
  /\ At("verify")
  /\ IF fate = "idle" THEN Done ELSE pc' = fate /\ fate' = "none" /\ UNCHANGED held
  /\ UNCHANGED <<run, alarm, cancelPc, verifier, world, observed>>

\* cleanupExecutionContext: the sandbox, then the checkpoint.
Cleanup ==
  /\ At("cleanup")
  /\ DestroySandbox
  /\ checkpoint' = "none"
  /\ IF fate = "idle" THEN Done ELSE pc' = fate /\ fate' = "none" /\ UNCHANGED held
  /\ UNCHANGED <<runState, head, rows, recorded, sealed, replays, alarm, cancelPc, verifier,
                 due, leased, branch, pull, launched, verdicts>>

Release ==
  /\ At("release")
  /\ \/ leased' = FALSE /\ UNCHANGED faults
     \/ Fault /\ UNCHANGED leased
  /\ Done
  /\ UNCHANGED <<run, alarm, cancelPc, verifier, sandbox, child, due, inflight, branch,
                 pull, launched, verdicts>>

-----------------------------------------------------------------------------
(* The owner's requests. *)

Start ==
  /\ runState = "RECEIVED"
  /\ TransitionTo("QUEUED")
  /\ alarm' = TRUE
  /\ UNCHANGED <<rows, checkpoint, recorded, sealed, replays, handler, cancelPc, verifier,
                 world, observed>>

Cancel ==
  /\ cancelPc = "idle"
  /\ runState \notin RestingStates \cup {"DELETED"}
  /\ cancelPc' = IF checkpoint # "none" THEN "destroy" ELSE "release"
  /\ UNCHANGED <<run, alarm, handler, verifier, world, observed>>

CancelDestroyed ==
  /\ cancelPc = "destroy"
  /\ DestroySandbox
  /\ rows' = IF rows["implement"] = "RUNNING"
               THEN [rows EXCEPT !["implement"] = "FAILED"] ELSE rows
  /\ checkpoint' = "none"
  /\ cancelPc' = "release"
  /\ UNCHANGED <<runState, head, recorded, sealed, replays, alarm, handler, verifier, due,
                 leased, branch, pull, launched, verdicts>>

\* CANCELLED is written over whatever state the run is in by now.
CancelReleased ==
  /\ cancelPc = "release"
  /\ cancelPc' = "idle"
  /\ \/ /\ leased' = FALSE
        /\ IF Deleted THEN UNCHANGED <<runState, head, alarm>>
                      ELSE TransitionTo("CANCELLED") /\ alarm' = FALSE
        /\ UNCHANGED faults
     \/ Fault /\ UNCHANGED <<runState, head, alarm, leased>>
  /\ UNCHANGED <<rows, checkpoint, recorded, sealed, replays, handler, verifier, sandbox,
                 child, due, inflight, branch, pull, launched, verdicts>>

\* verification_replays is not purged.
Purge ==
  /\ runState \in RestingStates
  /\ runState' = "DELETED"
  /\ head' = 0
  /\ rows' = NoRows
  /\ checkpoint' = "none"
  /\ recorded' = "none"
  /\ sealed' = NotSealed
  /\ alarm' = FALSE
  /\ UNCHANGED <<replays, handler, cancelPc, verifier, world, observed>>

-----------------------------------------------------------------------------
(* Independent verification.  A nonce digests the snapshot and the head of *)
(* the chain, and no two snapshots have the same head.                     *)

\* handoff(): the snapshot is computed again and compared.
HandedOver ==
  /\ runState = "AWAITING_VERIFICATION"
  /\ sealed # NotSealed /\ sealed = [rows |-> rows, published |-> recorded]
  /\ recorded # "none"

\* The verifier signs a response to the handoff it was given.
Answer ==
  /\ HandedOver
  /\ Cardinality(answers) < MaxAnswers
  /\ \E d \in {"verified", "failed", "uncertain"} :
       answers' = answers \cup {[nonce |-> head, decision |-> d]}
  /\ UNCHANGED <<run, alarm, handler, cancelPc, objective, submit, world, observed>>

NoSubmission == [nonce |-> 0, decision |-> "none"]

\* submitVerificationResponse: the response is valid for the handoff of now.
Submit(r) ==
  /\ submit[r] = NoSubmission
  /\ HandedOver
  /\ \E answer \in answers :
       answer.nonce = head /\ submit' = [submit EXCEPT ![r] = answer]
  /\ UNCHANGED <<run, alarm, handler, cancelPc, objective, answers, world, observed>>

\* Mutant: what was checked before the event was hashed is not checked again.
MutantAcceptable(answer) == ~Deleted

\* What the write transaction checks again.
Acceptable(answer) ==
  /\ runState = "AWAITING_VERIFICATION"
  /\ head = answer.nonce
  /\ answer.nonce \notin replays

\* Mutant: an uncertain decision is a state of its own.
MutantDecidedState(d) ==
  IF d = "verified" THEN "VERIFIED" ELSE IF d = "failed" THEN "FAILED_SAFE" ELSE "UNCERTAIN"

DecidedState(d) ==
  CASE d = "verified" -> "VERIFIED"
    [] d = "failed"   -> "FAILED_SAFE"
    [] OTHER          -> "AWAITING_VERIFICATION"

\* The response and its event, which is recorded for an uncertain one too.
Accept(r) ==
  LET answer == submit[r] IN
  /\ answer # NoSubmission
  /\ submit' = [submit EXCEPT ![r] = NoSubmission]
  /\ IF Acceptable(answer)
       THEN /\ runState' = DecidedState(answer.decision)
            /\ head' = head + 1
            /\ replays' = replays \cup {answer.nonce}
            /\ verdicts' = Append(verdicts, answer)
       ELSE UNCHANGED <<runState, head, replays, verdicts>>
  /\ UNCHANGED <<rows, checkpoint, recorded, sealed, alarm, handler, cancelPc, objective,
                 answers, world, launched, faults>>

-----------------------------------------------------------------------------
(* The surroundings. *)

\* A request that was sent takes effect, now or long after its sender has
\* stopped waiting.  A branch or a pull request that is there already stays.
Land ==
  /\ \E a \in inflight : inflight' = inflight \ {a}
  /\ \/ /\ "implement" \in inflight \ inflight' /\ child' = "running"
        /\ UNCHANGED <<branch, pull>>
     \/ /\ "push-branch" \in inflight \ inflight'
        /\ branch' \in IF branch = "none" THEN {"ours", "other"} ELSE {branch}
        /\ UNCHANGED <<child, pull>>
     \/ /\ "open-pull-request" \in inflight \ inflight'
        /\ pull' \in IF pull = "none" THEN {"ours", "other"} ELSE {pull}
        /\ UNCHANGED <<child, branch>>
  /\ UNCHANGED <<run, alarm, handler, cancelPc, verifier, sandbox, due, leased, observed>>

\* Somebody opens a pull request for the branch at GitHub, whose head may have
\* moved on by the time it is read.
OpenedByHand ==
  /\ branch = "ours" /\ pull = "none" /\ objective.publication = "pull_request"
  /\ pull' \in {"ours", "other"}
  /\ UNCHANGED <<run, alarm, handler, cancelPc, verifier, sandbox, child, due, leased,
                 inflight, branch, observed>>

ChildEnds ==
  /\ child = "running"
  /\ child' \in {"ok", "failed", "forged"}
  /\ UNCHANGED <<run, alarm, handler, cancelPc, verifier, sandbox, due, leased, inflight,
                 branch, pull, observed>>

DeadlinePasses ==
  /\ ~due /\ checkpoint = "pending"
  /\ due' = TRUE
  /\ UNCHANGED <<run, alarm, handler, cancelPc, verifier, sandbox, child, leased, inflight,
                 branch, pull, observed>>

\* The object restarts: what was in memory is gone, the rows are not, and an
\* alarm whose handler did not return is delivered again.
Restart ==
  /\ Fault
  /\ alarm' = (alarm \/ pc # "idle")
  /\ Done
  /\ cancelPc' = "idle"
  /\ submit' = [r \in Requests |-> NoSubmission]
  /\ UNCHANGED <<run, objective, answers, world, launched, verdicts>>

-----------------------------------------------------------------------------
Init ==
  /\ objective \in Objectives
  /\ runState = "RECEIVED"
  /\ head = 1
  /\ rows = NoRows
  /\ checkpoint = "none"
  /\ recorded = "none"
  /\ sealed = NotSealed
  /\ replays = {}
  /\ alarm = FALSE
  /\ pc = "idle" /\ held = "none" /\ fate = "none"
  /\ cancelPc = "idle"
  /\ submit = [r \in Requests |-> NoSubmission]
  /\ answers = {}
  /\ sandbox = "none" /\ child = "none" /\ due = FALSE /\ leased = FALSE
  /\ inflight = {} /\ branch = "none" /\ pull = "none"
  /\ launched = [a \in ActionIds |-> 0]
  /\ verdicts = <<>>
  /\ faults = 0

HandlerStep ==
  \/ Acquire \/ Acquired \/ Access \/ Clone \/ BaseHead \/ StartImplementation \/ Launch
  \/ Receipt \/ ReceiptHead \/ Command \/ Probe \/ CommitHead \/ Refs \/ Push \/ FindPull
  \/ CreatePull \/ FindPullAgain \/ Catch \/ UnwindExecution \/ Finish \/ Verify \/ Cleanup
  \/ Release

Owner == Start \/ Cancel \/ CancelDestroyed \/ CancelReleased \/ Purge

Next ==
  \/ Alarm \/ HandlerStep
  \/ Owner
  \/ Answer \/ \E r \in Requests : Submit(r) \/ Accept(r)
  \/ Land \/ OpenedByHand \/ ChildEnds \/ DeadlinePasses \/ Restart

Spec == Init /\ [][Next]_vars

\* The platform runs the alarm and answers or fails every wait of its handler,
\* and time passes.  Nothing is assumed of owner and verifier.
FairSpec ==
  Spec /\ WF_vars(Alarm) /\ WF_vars(HandlerStep) /\ WF_vars(DeadlinePasses)

-----------------------------------------------------------------------------
(* Properties. *)

\* Every variable has its type.
TypeOK ==
  /\ objective \in Objectives
  /\ runState \in RunStates
  /\ head \in Nat
  /\ rows \in [ActionIds -> RowStates]
  /\ checkpoint \in {"none", "pending", "succeeded"}
  /\ recorded \in {"none", "branch", "pull_request"}
  /\ sealed = NotSealed
       \/ sealed \in [rows : [ActionIds -> RowStates],
                      published : {"none", "branch", "pull_request"}]
  /\ replays \subseteq Nat
  /\ alarm \in BOOLEAN
  /\ held \in {"none", "pending", "succeeded"}
  /\ cancelPc \in {"idle", "destroy", "release"}
  /\ sandbox \in {"none", "live", "gone"}
  /\ child \in {"none", "running", "ok", "failed", "forged"}
  /\ due \in BOOLEAN /\ leased \in BOOLEAN
  /\ inflight \subseteq {"implement", "push-branch", "open-pull-request"}
  /\ branch \in {"none", "ours", "other"} /\ pull \in {"none", "ours", "other"}
  /\ launched \in [ActionIds -> Nat]
  /\ faults \in 0 .. MaxFaults

\* No effect (clone, implementation, command, push, pull request) is requested
\* twice, through restarts, repeated alarms and a cancellation on the way:
\* the intent row is all that startAction has to tell.
EffectsNotReplayed == \A a \in ActionIds : launched[a] <= 1

\* The checkpoint and the row of the implementation tell the same story, so
\* that executionCheckpoint finds the intent its checkpoint belongs to and
\* every alarm resumes where the last one stopped; and there is never a second
\* RUNNING row, as alarm() and its catch block rely on when they look at the
\* first one only.
CheckpointMatchesIntent ==
  /\ checkpoint = "pending" => rows["implement"] = "RUNNING"
  /\ checkpoint = "succeeded" => rows["implement"] = "SUCCEEDED"
  /\ Cardinality({a \in ActionIds : rows[a] = "RUNNING"}) <= 1

\* A settled action is never settled again; only deletion removes its row.
SettledForGood ==
  [][\A a \in ActionIds :
       rows[a] \in {"SUCCEEDED", "FAILED", "AMBIGUOUS"} =>
         rows'[a] = rows[a] \/ runState' = "DELETED"]_vars

\* What is handed to the verifier is what happened: the sealed table is the
\* table, holds nothing but successes and a commit, and the branch and the
\* pull request it names are at GitHub with the intended commit.
HandoffIsPublished ==
  runState \in {"AWAITING_VERIFICATION", "VERIFIED"} =>
    /\ sealed = [rows |-> rows, published |-> recorded]
    /\ \A a \in ActionIds : rows[a] \in {"ABSENT", "SUCCEEDED"}
    /\ {"implement", "create-commit", "push-branch"} \subseteq Started(rows)
    /\ recorded = objective.publication
    /\ branch = "ours"
    /\ objective.publication = "pull_request" => pull = "ours"

\* A run becomes VERIFIED by an answer to the handoff of that moment: the head
\* of the chain has not moved since the verifier was given it.  However many
\* requests submit a response at the same time, one is accepted per handoff, and
\* none after a verdict.
VerifiedOnCurrentHandoff ==
  [][ /\ runState' = "VERIFIED" /\ runState # "VERIFIED" =>
           HandedOver /\ [nonce |-> head, decision |-> "verified"] \in answers
      /\ Len(verdicts') > Len(verdicts) =>
           \A i \in DOMAIN verdicts :
             /\ verdicts[i].decision = "uncertain"
             /\ verdicts[i].nonce # verdicts'[Len(verdicts')].nonce ]_vars

\* With a validation profile that names its ecosystem, a push is requested only
\* after the tests of that ecosystem succeeded, in whatever order the alarms,
\* probes and failures come.
PublishedIsValidated ==
  launched["push-branch"] > 0 /\ ~Deleted /\ ~objective.automatic =>
    \A i \in DOMAIN objective.validation :
      i = Len(objective.validation) => rows[objective.validation[i]] = "SUCCEEDED"

\* A queued run comes to rest, whatever fails on its way.  The exception is a
\* run in RECONCILING with an action that did not succeed: finishReconciliation
\* throws out of every alarm, until the platform gives up.
RunComesToRest ==
  runState = "QUEUED" ~>
    \/ runState \in RestingStates \cup {"DELETED"}
    \/ runState = "RECONCILING" /\ Unfinished # {}

-----------------------------------------------------------------------------
(* What the documentation says and the code does not keep. *)

\* A cancelled run stays cancelled until it is deleted: cancellation stops its
\* future execution.
CancelledIsFinal == [][Cancelled => runState' \in {"CANCELLED", "DELETED"}]_vars

=============================================================================
