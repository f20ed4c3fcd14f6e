----------------------- MODULE LocalPublicationProofs -----------------------
(* Theorems about LocalPublication, for any runs, processes and commands, and *)
(* any bounds on the chain and on the switches.                               *)
EXTENDS LocalPublication, TLAPS

-----------------------------------------------------------------------------
(* The rows of a run, and what a process has read of them.                   *)

Rows ==
  [state : States, head : 0 .. MaxEvents, updated : 0 .. MaxEvents,
   subject : Commits \cup {None}, replays : SUBSET Documents,
   by : Documents \cup {None, Attestation}]

\* A verdict names what settled the run, and there is a subject only of a run
\* that was handed over.
RowOK(row) ==
  /\ row \in Rows
  /\ row.updated <= row.head
  /\ (row.state \in {"VERIFIED", "FAILED_SAFE"}) = (row.by # None)
  /\ row.state \in {"MISSING", "EXECUTING", "STOPPED", "DELETED"} => row.subject = None

RunOK == run \in [Runs -> Rows] /\ \A r \in Runs : RowOK(run[r])

Reads ==
  {Idle}
  \cup [step : {"reading"}, run : Runs, updated : 0 .. MaxEvents, subject : Commits]
  \cup [step : {"validated"}, run : Runs, document : Documents]

CallOK == call \in [Processes -> Reads]

\* None is no value of a field.
LEMMA NoneIsNothing ==
  /\ None \notin Runs /\ None \notin Commits /\ None \notin Documents /\ None # Attestation
BY NoneAssumption

\* A run changes in its own row only.
LEMMA OneRow ==
  ASSUME RunOK, NEW r \in Runs, NEW row, RowOK(row), run' = [run EXCEPT ![r] = row]
  PROVE  RunOK'
BY DEF RunOK, RowOK

\* A decision settles the run or leaves it waiting.
LEMMA Decided ==
  ASSUME NEW decision \in Decisions
  PROVE  /\ StateAfter(decision) \in {"VERIFIED", "FAILED_SAFE", "AWAITING_VERIFICATION"}
         /\ decision = "uncertain" <=> StateAfter(decision) = "AWAITING_VERIFICATION"
<1>1. CASE decision = "verified"
  BY <1>1, Zenon DEF StateAfter
<1>2. CASE decision = "failed"
  BY <1>2, Zenon DEF StateAfter
<1>3. CASE decision = "uncertain"
  BY <1>3, Zenon DEF StateAfter
<1> QED
  BY <1>1, <1>2, <1>3 DEF Decisions

\* An event fits into the chain as long as there is room.
LEMMA Room ==
  ASSUME RunOK, NEW r \in Runs, NEW decision, HasRoom(r, decision)
  PROVE  run[r].head + 1 \in 0 .. MaxEvents
<1>1. MaxEvents \in Nat /\ run[r].head \in 0 .. MaxEvents
  BY BoundsAssumption DEF RunOK, Rows
<1> QED
  BY <1>1 DEF HasRoom

-----------------------------------------------------------------------------
(* The steps of the store.                                                   *)

\* What is decided about a run, by a response or by an attestation.
DecidedRow(row, decision, replays, by) ==
  [row EXCEPT !.state = StateAfter(decision), !.head = @ + 1, !.updated = row.head + 1,
              !.replays = replays,
              !.by = IF StateAfter(decision) = "AWAITING_VERIFICATION" THEN None ELSE by]

\* It keeps its subject.
LEMMA DecidedSubject ==
  ASSUME NEW row \in Rows, NEW decision, NEW replays, NEW by
  PROVE  DecidedRow(row, decision, replays, by).subject = row.subject
BY DEF DecidedRow, Rows

\* It is a row, and the verdict names its answer.
LEMMA DecidedRowOK ==
  ASSUME RunOK, NEW r \in Runs, Awaits(r), NEW decision \in Decisions, HasRoom(r, decision),
         NEW replays \in SUBSET Documents, NEW by \in Documents \cup {Attestation}
  PROVE  RowOK(DecidedRow(run[r], decision, replays, by))
<1>1. run[r] \in Rows /\ run[r].state = "AWAITING_VERIFICATION"
  BY DEF RunOK, Awaits
<1>2. run[r].head + 1 \in 0 .. MaxEvents
  BY Room
<1>3. StateAfter(decision) \in {"VERIFIED", "FAILED_SAFE", "AWAITING_VERIFICATION"}
  BY Decided
<1>4. by # None
  BY NoneIsNothing
<1> DEFINE row == DecidedRow(run[r], decision, replays, by)
<1>5. /\ row.state = StateAfter(decision) /\ row.head = run[r].head + 1
      /\ row.updated = run[r].head + 1 /\ row.subject = run[r].subject /\ row.replays = replays
      /\ row.by = IF StateAfter(decision) = "AWAITING_VERIFICATION" THEN None ELSE by
  BY <1>1 DEF DecidedRow, Rows
<1>6. row \in Rows
  BY <1>1, <1>2, <1>3 DEF DecidedRow, Rows, States, Reopenable
<1> HIDE DEF row
<1>7. row.updated <= row.head
  BY <1>2, <1>5, BoundsAssumption
<1>8. (row.state \in {"VERIFIED", "FAILED_SAFE"}) = (row.by # None)
  BY <1>3, <1>4, <1>5
<1>9. row.state \notin {"MISSING", "EXECUTING", "STOPPED", "DELETED"}
  BY <1>3, <1>5
<1> QED
  BY <1>6, <1>7, <1>8, <1>9 DEF RowOK, row

\* A response is recorded with its document, an attestation without one.
LEMMA SaveSteps ==
  ASSUME RunOK, CallOK, NEW p \in Processes, NEW decision \in Decisions, Save(p, decision)
  PROVE  LET r == call[p].run
             document == call[p].document
         IN  /\ r \in Runs /\ document \in Documents
             /\ Awaits(r) /\ HasRoom(r, decision) /\ document \notin run[r].replays
             /\ run' = [run EXCEPT ![r] =
                  DecidedRow(@, decision, run[r].replays \cup {document}, document)]
             /\ call' = [call EXCEPT ![p] = Idle]
<1> DEFINE r == call[p].run
           document == call[p].document
<1>1. call[p] \in [step : {"validated"}, run : Runs, document : Documents]
  BY DEF Save, CallOK, Reads, Idle
<1>2. r \in Runs /\ document \in Documents
  BY <1>1
<1>3. Awaits(r) /\ HasRoom(r, decision) /\ document \notin run[r].replays
  BY DEF Save, Replayed
<1>4. run' = [run EXCEPT ![r] = DecidedRow(@, decision, run[r].replays \cup {document}, document)]
  BY <1>2 DEF Save, DecidedRow, RunOK, Rows
<1>5. call' = [call EXCEPT ![p] = Idle]
  BY DEF Save
<1> QED
  BY <1>2, <1>3, <1>4, <1>5

\* An attestation leaves the replay table and the processes alone.
LEMMA AttestSteps ==
  ASSUME RunOK, NEW r \in Runs, NEW decision \in Decisions, Attest(r, decision)
  PROVE  /\ Awaits(r) /\ HasRoom(r, decision)
         /\ run' = [run EXCEPT ![r] = DecidedRow(@, decision, run[r].replays, Attestation)]
         /\ UNCHANGED call
BY DEF Attest, DecidedRow, RunOK, Rows

\* What a late worker writes.
ChangedRow(row, state) ==
  [row EXCEPT !.state = state, !.head = @ + 1, !.updated = row.head + 1,
              !.by = IF state = row.state THEN @ ELSE None]

\* It keeps the subject and the replays, and a verdict only in its state.
LEMMA ChangedFields ==
  ASSUME NEW row \in Rows, NEW state
  PROVE  LET new == ChangedRow(row, state)
         IN  /\ new.state = state /\ new.subject = row.subject /\ new.replays = row.replays
             /\ new.head = row.head + 1 /\ new.updated = row.head + 1
             /\ new.by = IF state = row.state THEN row.by ELSE None
BY DEF ChangedRow, Rows

\* It moves a run that is over to RECONCILING, from there back to the verifier, out
\* of the verifier's reach, or not at all.
LEMMA LateSteps ==
  ASSUME RunOK, NEW r \in Runs, LateWorker(r)
  PROVE  \E state \in Reopenable \cup {"RECONCILING"} :
           /\ run[r].state \in Reopenable \cup {"RECONCILING"}
           /\ \/ state \in {run[r].state, "RECONCILING", "BLOCKED"}
              \/ state = "AWAITING_VERIFICATION" /\ run[r].state = "RECONCILING"
           /\ HasRoom(r, "uncertain")
           /\ run' = [run EXCEPT ![r] = ChangedRow(@, state)] /\ UNCHANGED call
<1> DEFINE Writes(state) ==
             /\ HasRoom(r, "uncertain")
             /\ run' = [run EXCEPT ![r] = ChangedRow(@, state)] /\ UNCHANGED call
<1>1. ASSUME NEW state, Changes(r, state) PROVE Writes(state)
  BY <1>1 DEF Changes, ChangedRow, RunOK, Rows
<1>2. {"RECONCILING", "BLOCKED", "AWAITING_VERIFICATION"} \subseteq Reopenable \cup {"RECONCILING"}
  BY DEF Reopenable
<1> HIDE DEF Writes
<1>3. CASE Reopen(r)
  BY <1>1, <1>2, <1>3 DEF Reopen, Writes
<1>4. CASE SnapshotAgain(r)
  BY <1>1, <1>4 DEF SnapshotAgain, Writes
<1>5. CASE Reseal(r)
  BY <1>1, <1>2, <1>5 DEF Reseal, Writes
<1>6. CASE Block(r)
  BY <1>1, <1>2, <1>6 DEF Block, Writes
<1> QED
  BY <1>3, <1>4, <1>5, <1>6 DEF LateWorker

\* The row that it leaves is one.
LEMMA ChangedRowOK ==
  ASSUME RunOK, NEW r \in Runs, HasRoom(r, "uncertain"), NEW state \in Reopenable \cup {"RECONCILING"},
         \/ state \in {run[r].state, "RECONCILING", "BLOCKED"}
         \/ state = "AWAITING_VERIFICATION" /\ run[r].state = "RECONCILING"
  PROVE  RowOK(ChangedRow(run[r], state))
<1>1. run[r] \in Rows /\ RowOK(run[r])
  BY DEF RunOK
<1>2. run[r].head + 1 \in 0 .. MaxEvents
  BY Room
<1> DEFINE row == ChangedRow(run[r], state)
<1>3. /\ row.state = state /\ row.updated = run[r].head + 1 /\ row.head = run[r].head + 1
      /\ row.by = IF state = run[r].state THEN run[r].by ELSE None
  BY <1>1, ChangedFields
<1>4. row \in Rows
  BY <1>1, <1>2 DEF ChangedRow, Rows, States
<1> HIDE DEF row
<1>5. row.updated <= row.head
  BY <1>2, <1>3, BoundsAssumption
<1>6. (row.state \in {"VERIFIED", "FAILED_SAFE"}) = (row.by # None)
  BY <1>1, <1>3 DEF RowOK
<1>7. row.state \notin {"MISSING", "EXECUTING", "STOPPED", "DELETED"}
  BY <1>3 DEF Reopenable
<1> QED
  BY <1>4, <1>5, <1>6, <1>7 DEF RowOK, row

\* The steps of the commands leave the processes of verify-response alone.
CommandSteps ==
  \/ \E r \in Runs :
       \/ /\ run[r].state = "MISSING" /\ run' = [run EXCEPT ![r].state = "EXECUTING"]
       \/ /\ run[r].state = "EXECUTING"
          /\ \E state \in {"STOPPED", "BLOCKED"} : run' = [run EXCEPT ![r].state = state]
       \/ /\ run[r].state = "EXECUTING"
          /\ run' = [run EXCEPT ![r].state = "AWAITING_VERIFICATION", ![r].head = 1,
                                ![r].updated = 1]
       \/ SetSubject(r, branches[checkout])
  \/ UNCHANGED run

\* A command changes a row in one of four ways.
LEMMA CommandsOnRun ==
  ASSUME [Next]_vars
  PROVE  Verify \/ (CommandSteps /\ UNCHANGED call)
<1>1. ASSUME NEW started \in GoRuns, Go(started[1], started[2])
      PROVE  CommandSteps /\ UNCHANGED call
  <2>1. started[1] \in Runs
    BY GoRunsAssumption
  <2> QED
    BY <1>1, <2>1 DEF Go, Start, CommandSteps
<1>2. ASSUME NEW r \in Runs, MaintenanceRepair(r) \/ Seal(r) \/ Stop(r) \/ RecordSubject(r)
      PROVE  CommandSteps /\ UNCHANGED call
  BY <1>2 DEF MaintenanceRepair, Start, Seal, Stop, RecordSubject, CommandSteps
<1>3. ASSUME NEW r \in Runs,
             \/ Implement(r) \/ CreateBranch(r) \/ Stage(r) \/ Commit(r) \/ Push(r)
             \/ MarkRepairQueued(r) \/ CommandThrows(r) \/ CommandDies(r)
      PROVE  CommandSteps /\ UNCHANGED call
  BY <1>3 DEF CommandSteps, Implement, CreateBranch, Stage, Commit, Push, Executes, MarkRepairQueued,
              CommandThrows, CommandDies, verificationVars
<1>4. ASSUME MaintenanceDiscover \/ (\E b \in BranchNames : Switch(b)) \/ UNCHANGED vars
      PROVE  CommandSteps /\ UNCHANGED call
  BY <1>4 DEF CommandSteps, MaintenanceDiscover, Switch, vars, verificationVars
<1>5. CASE Next
  BY <1>1, <1>2, <1>3, <1>4, <1>5 DEF Next
<1> QED
  BY <1>4, <1>5

\* The rows keep their types, and what they say of a verdict.
LEMMA RunKept ==
  ASSUME RunOK, CallOK, branches \in [BranchNames -> Commits \cup {None}],
         checkout \in BranchNames, [Next]_vars
  PROVE  RunOK'
<1>1. CASE CommandSteps
  <2>1. ASSUME NEW r \in Runs, run[r].state = "MISSING", run' = [run EXCEPT ![r].state = "EXECUTING"]
        PROVE  RunOK'
    <3>1. RowOK([run[r] EXCEPT !.state = "EXECUTING"])
      BY <2>1 DEF RunOK, RowOK, Rows, States, Reopenable
    <3> QED
      BY <2>1, <3>1, OneRow
  <2>2. ASSUME NEW r \in Runs, run[r].state = "EXECUTING", NEW state \in {"STOPPED", "BLOCKED"},
               run' = [run EXCEPT ![r].state = state]
        PROVE  RunOK'
    <3>1. RowOK([run[r] EXCEPT !.state = state])
      BY <2>2 DEF RunOK, RowOK, Rows, States, Reopenable
    <3> QED
      BY <2>2, <3>1, OneRow
  <2>3. ASSUME NEW r \in Runs, run[r].state = "EXECUTING",
               run' = [run EXCEPT ![r].state = "AWAITING_VERIFICATION", ![r].head = 1,
                                  ![r].updated = 1]
        PROVE  RunOK'
    <3> DEFINE row == [run[r] EXCEPT !.state = "AWAITING_VERIFICATION", !.head = 1, !.updated = 1]
    <3>1. 1 \in 0 .. MaxEvents
      BY BoundsAssumption
    <3>2. RowOK(row)
      <4>1. run[r] \in Rows /\ run[r].by = None
        BY <2>3 DEF RunOK, RowOK
      <4>2. row \in Rows
        BY <3>1, <4>1 DEF Rows, States, Reopenable
      <4>3. /\ row.state = "AWAITING_VERIFICATION" /\ row.by = None
            /\ row.updated = 1 /\ row.head = 1
        BY <4>1 DEF Rows
      <4> HIDE DEF row
      <4> QED
        BY <4>2, <4>3 DEF RowOK
    <3>3. run' = [run EXCEPT ![r] = row]
      BY <2>3 DEF RunOK, Rows
    <3> HIDE DEF row
    <3> QED
      BY <3>2, <3>3, OneRow
  <2>4. ASSUME NEW r \in Runs, SetSubject(r, branches[checkout]) PROVE RunOK'
    <3> DEFINE row == [run[r] EXCEPT !.subject = branches[checkout], !.head = @ + 1]
    <3>1. run[r].head + 1 \in 0 .. MaxEvents /\ run[r].head \in Nat /\ run[r].updated \in Nat
      BY <2>4, Room, BoundsAssumption DEF SetSubject, RunOK, Rows
    <3>2. RowOK(row)
      <4>1. run[r] \in Rows /\ RowOK(run[r]) /\ run[r].state = "AWAITING_VERIFICATION"
        BY <2>4 DEF SetSubject, Awaits, RunOK
      <4>2. branches[checkout] \in Commits \cup {None}
        OBVIOUS
      <4>3. row \in Rows
        BY <3>1, <4>1, <4>2 DEF Rows
      <4>4. /\ row.state = "AWAITING_VERIFICATION" /\ row.by = run[r].by
            /\ row.updated = run[r].updated /\ row.head = run[r].head + 1
        BY <4>1 DEF Rows
      <4> HIDE DEF row
      <4> QED
        BY <3>1, <4>1, <4>3, <4>4 DEF RowOK
    <3>3. run' = [run EXCEPT ![r] = row]
      BY <2>4 DEF SetSubject, RunOK, Rows
    <3> HIDE DEF row
    <3> QED
      BY <3>2, <3>3, OneRow
  <2>5. CASE UNCHANGED run
    BY <2>5 DEF RunOK, RowOK
  <2> QED
    BY <1>1, <2>1, <2>2, <2>3, <2>4, <2>5 DEF CommandSteps
<1>2. CASE Verify
  <2>1. ASSUME NEW p \in Processes, NEW decision \in Decisions, Save(p, decision) PROVE RunOK'
    <3>1. PICK r \in Runs, document \in Documents :
            /\ Awaits(r) /\ HasRoom(r, decision)
            /\ run' = [run EXCEPT ![r] =
                 DecidedRow(@, decision, run[r].replays \cup {document}, document)]
      BY <2>1, SaveSteps
    <3>2. run[r].replays \cup {document} \in SUBSET Documents
      BY DEF RunOK, Rows
    <3>3. RowOK(DecidedRow(run[r], decision, run[r].replays \cup {document}, document))
      BY <3>1, <3>2, DecidedRowOK
    <3> QED
      BY <3>1, <3>3, OneRow
  <2>2. ASSUME NEW r \in Runs, NEW decision \in Decisions, Attest(r, decision) PROVE RunOK'
    <3>1. /\ Awaits(r) /\ HasRoom(r, decision)
          /\ run' = [run EXCEPT ![r] = DecidedRow(@, decision, run[r].replays, Attestation)]
      BY <2>2, AttestSteps
    <3>2. run[r].replays \in SUBSET Documents
      BY DEF RunOK, Rows
    <3>3. RowOK(DecidedRow(run[r], decision, run[r].replays, Attestation))
      BY <3>1, <3>2, DecidedRowOK
    <3> QED
      BY <3>1, <3>3, OneRow
  <2>3. ASSUME NEW r \in Runs, DeleteRun(r) PROVE RunOK'
    <3>1. 0 \in 0 .. MaxEvents
      BY BoundsAssumption
    <3>2. RowOK(Deleted)
      BY <3>1 DEF Deleted, Missing, RowOK, Rows, States, Reopenable
    <3> QED
      BY <2>3, <3>2, OneRow DEF DeleteRun
  <2>4. ASSUME NEW p \in Processes,
               (\E r \in Judged : BeginHandoff(p, r)) \/ Validate(p) \/ GiveUp(p)
        PROVE  RunOK'
    BY <2>4 DEF BeginHandoff, Validate, GiveUp, RunOK, RowOK
  <2>5. ASSUME NEW r \in Runs, LateWorker(r) PROVE RunOK'
    BY <2>5, LateSteps, ChangedRowOK, OneRow
  <2> QED
    BY <1>2, <2>1, <2>2, <2>3, <2>4, <2>5, BoundsAssumption DEF Verify, VerificationNext
<1> QED
  BY <1>1, <1>2, CommandsOnRun

\* What a process has read of a run is what a row can hold.
LEMMA CallKept ==
  ASSUME RunOK, CallOK, [Next]_vars
  PROVE  CallOK'
<1>1. CASE UNCHANGED call
  BY <1>1 DEF CallOK
<1>2. CASE Verify
  <2>1. ASSUME NEW p \in Processes, NEW r \in Judged, BeginHandoff(p, r) PROVE CallOK'
    <3>1. r \in Runs /\ run[r] \in Rows /\ run[r].subject # None
      BY <2>1, BoundsAssumption DEF BeginHandoff, RunOK
    <3>2. [step |-> "reading", run |-> r, updated |-> run[r].updated,
           subject |-> run[r].subject] \in Reads
      BY <3>1 DEF Rows, Reads
    <3> QED
      BY <2>1, <3>2 DEF BeginHandoff, CallOK
  <2>2. ASSUME NEW p \in Processes, Validate(p) PROVE CallOK'
    <3> DEFINE document == [updated |-> call[p].updated, head |-> run[call[p].run].head,
                            subject |-> call[p].subject]
    <3>1. call[p] \in [step : {"reading"}, run : Runs, updated : 0 .. MaxEvents,
                       subject : Commits]
      BY <2>2 DEF Validate, CallOK, Reads, Idle
    <3>2. run[call[p].run].head \in 0 .. MaxEvents
      BY <3>1 DEF RunOK, Rows
    <3>3. document \in Documents
      BY <3>1, <3>2 DEF Documents
    <3>4. call' = [call EXCEPT ![p] =
                     [step |-> "validated", run |-> call[p].run, document |-> document]]
      BY <2>2 DEF Validate
    <3> HIDE DEF document
    <3>5. [step |-> "validated", run |-> call[p].run, document |-> document] \in Reads
      BY <3>1, <3>3 DEF Reads
    <3> QED
      BY <3>4, <3>5 DEF CallOK
  <2>3. ASSUME NEW p \in Processes, call' = [call EXCEPT ![p] = Idle] PROVE CallOK'
    BY <2>3 DEF CallOK, Reads
  <2>4. ASSUME NEW r \in Runs, DeleteRun(r) \/ \E decision \in Decisions : Attest(r, decision)
        PROVE  CallOK'
    BY <2>4, <1>1 DEF DeleteRun, Attest
  <2>5. ASSUME NEW r \in Runs, LateWorker(r) PROVE CallOK'
    BY <2>5, <1>1, LateSteps
  <2> QED
    BY <1>2, <2>1, <2>2, <2>3, <2>4, <2>5, BoundsAssumption
    DEF Verify, VerificationNext, GiveUp, Save
<1> QED
  BY <1>1, <1>2, CommandsOnRun

-----------------------------------------------------------------------------
(* The commands and the work tree. *)

\* The types of TypeOK that are about them; the branch of the work tree exists, and
\* a command that records a subject has published one.
WorkOK ==
  /\ command \in [Runs -> [step : Steps, publication : Publications, repairs : BOOLEAN]]
  /\ finding \in [state : {"NONE", "OPEN", "REPAIR_QUEUED"}, run : Runs \cup {None}]
  /\ (finding.state = "REPAIR_QUEUED") = (finding.run # None)
  /\ checkout \in BranchNames /\ branches[checkout] # None
  /\ edits \subseteq Runs /\ staged \subseteq Runs
  /\ branches \in [BranchNames -> Commits \cup {None}]
  /\ remote \in [Runs -> Commits \cup {None}] /\ switches \in 0 .. MaxSwitches
  /\ \A r \in Runs : At(r, "record") => command[r].publication # "none"

\* A command that goes on keeps what it is to publish.
LEMMA GoesOn ==
  ASSUME WorkOK, NEW r \in Runs, NEW step \in Steps, GoesTo(r, step),
         step = "record" => command[r].publication # "none"
  PROVE  /\ command' \in [Runs -> [step : Steps, publication : Publications, repairs : BOOLEAN]]
         /\ \A q \in Runs : command'[q].publication = command[q].publication
         /\ \A q \in Runs : At(q, "record")' => command'[q].publication # "none"
BY DEF WorkOK, GoesTo, At

\* The commands and the work tree keep their types.
LEMMA WorkKept ==
  ASSUME RunOK, WorkOK, [Next]_vars
  PROVE  WorkOK'
<1>1. {"idle", "implement", "checkout", "stage", "commit", "push", "seal", "record", "mark",
       "done"} \subseteq Steps
  BY DEF Steps
<1>2. ASSUME NEW r \in Runs, NEW publication \in Publications, NEW repairs \in BOOLEAN,
             Start(r, publication, repairs)
      PROVE  WorkOK'
  <2> DEFINE new == [step |-> "implement", publication |-> publication, repairs |-> repairs]
  <2>1. command' = [command EXCEPT ![r] = new] /\ UNCHANGED <<finding, workVars>>
    BY <1>2 DEF Start
  <2>2. new \in [step : Steps, publication : Publications, repairs : BOOLEAN]
        /\ new.step # "record"
    BY <1>1
  <2> HIDE DEF new
  <2> QED
    BY <2>1, <2>2 DEF WorkOK, At, workVars
<1>3. ASSUME NEW started \in GoRuns, Go(started[1], started[2]) PROVE WorkOK'
  <2>1. started[1] \in Runs /\ started[2] \in Publications
    BY GoRunsAssumption
  <2> QED
    BY <1>2, <1>3, <2>1 DEF Go
<1>4. ASSUME NEW r \in Runs, MaintenanceRepair(r) PROVE WorkOK'
  BY <1>2, <1>4 DEF MaintenanceRepair, Publications
<1>5. ASSUME NEW r \in Runs, Implement(r) PROVE WorkOK'
  BY <1>1, <1>5, GoesOn DEF Implement, Executes, WorkOK
<1>6. ASSUME NEW r \in Runs, CreateBranch(r) PROVE WorkOK'
  <2>1. branches[checkout] \in Commits /\ r \in BranchNames
    BY DEF WorkOK, BranchNames
  <2> QED
    BY <1>1, <1>6, <2>1, GoesOn, NoneIsNothing DEF CreateBranch, Executes, WorkOK
<1>7. ASSUME NEW r \in Runs, Stage(r) PROVE WorkOK'
  BY <1>1, <1>7, GoesOn DEF Stage, Executes, WorkOK
<1>8. ASSUME NEW r \in Runs, Commit(r) PROVE WorkOK'
  <2>1. branches[checkout] \cup staged \in Commits
    BY DEF WorkOK, Commits
  <2>2. /\ branches' = [branches EXCEPT ![checkout] = branches[checkout] \cup staged]
        /\ staged' = {} /\ UNCHANGED <<checkout, edits, remote, switches, finding>>
    BY <1>8 DEF Commit, Executes
  <2>3. GoesTo(r, "push")
    BY <1>8 DEF Commit, Executes
  <2> QED
    BY <1>1, <2>1, <2>2, <2>3, GoesOn, NoneIsNothing DEF WorkOK
<1>9. ASSUME NEW r \in Runs, Push(r) PROVE WorkOK'
  BY <1>1, <1>9, GoesOn DEF Push, Executes, WorkOK
<1>10. ASSUME NEW r \in Runs, Seal(r) \/ Stop(r) \/ RecordSubject(r) PROVE WorkOK'
  BY <1>1, <1>10, GoesOn DEF Seal, Stop, RecordSubject, WorkOK, workVars
<1>11. ASSUME NEW r \in Runs, MarkRepairQueued(r) PROVE WorkOK'
  <2>1. finding' = [state |-> "REPAIR_QUEUED", run |-> r] /\ r # None
    BY <1>11, NoneIsNothing DEF MarkRepairQueued
  <2> QED
    BY <1>1, <1>11, <2>1, GoesOn DEF MarkRepairQueued, WorkOK, workVars
<1>12. ASSUME NEW r \in Runs, CommandThrows(r) \/ CommandDies(r) PROVE WorkOK'
  BY <1>1, <1>12, GoesOn DEF CommandThrows, CommandDies, WorkOK, workVars
<1>13. CASE MaintenanceDiscover
  BY <1>13 DEF MaintenanceDiscover, Upserted, WorkOK, workVars, At
<1>14. ASSUME NEW b \in BranchNames, Switch(b) PROVE WorkOK'
  BY <1>14, SwitchesAssumption DEF Switch, WorkOK, At
<1>15. CASE Verify \/ UNCHANGED vars
  BY <1>15 DEF Verify, vars, WorkOK, workVars, At
<1> QED
  BY <1>3, <1>4, <1>5, <1>6, <1>7, <1>8, <1>9, <1>10, <1>11, <1>12, <1>13, <1>14, <1>15
  DEF Next

-----------------------------------------------------------------------------
(* The subject of a publication. *)

\* A subject that is recorded was published.
SubjectsOK ==
  \A r \in Runs : run[r].subject # None => command[r].publication # "none"

\* The inductive invariant: the run whose subject is recorded pushes no more.
IInv == RunOK /\ CallOK /\ WorkOK /\ SubjectsOK /\ SubjectIsPublished

\* It holds before any command began.
LEMMA IInvInit == Init => IInv
<1> SUFFICES ASSUME Init PROVE IInv
  OBVIOUS
<1> USE DEF Init, VerificationInit
<1>1. RunOK
  <2>1. 0 \in 0 .. MaxEvents
    BY BoundsAssumption
  <2>2. RowOK(Missing)
    BY <2>1 DEF RowOK, Rows, States, Reopenable, Missing
  <2> QED
    BY <2>2 DEF RunOK, RowOK
<1>2. CallOK
  BY DEF CallOK, Reads
<1>3. WorkOK
  <2>1. command \in [Runs -> [step : Steps, publication : Publications, repairs : BOOLEAN]]
    BY DEF NoCommand, Steps, Publications
  <2>2. branches \in [BranchNames -> Commits \cup {None}] /\ branches[checkout] = {}
    BY DEF BranchNames, Commits
  <2>3. branches[checkout] # None
    BY <2>2, NoneIsNothing DEF Commits
  <2> QED
    BY <2>1, <2>2, <2>3, SwitchesAssumption DEF WorkOK, BranchNames, At, NoCommand
<1>4. SubjectsOK /\ SubjectIsPublished
  BY DEF SubjectsOK, SubjectIsPublished, Missing
<1> QED
  BY <1>1, <1>2, <1>3, <1>4 DEF IInv

\* A step that keeps the subject of a run has recorded none for another command.
LEMMA SubjectSteps ==
  ASSUME IInv, [Next]_vars, NEW r \in Runs
  PROVE  \/ run'[r].subject = None
         \/ /\ run'[r].subject = run[r].subject
            /\ command'[r].publication = command[r].publication
            /\ remote'[r] = remote[r]
         \/ /\ command[r].publication # "none"
            /\ run'[r].subject = branches[checkout] /\ IsPublished(r)
            /\ command'[r].publication = command[r].publication
            /\ remote'[r] = remote[r]
<1> USE DEF IInv
<1>1. run \in [Runs -> Rows] /\ RowOK(run[r])
  BY DEF RunOK
<1>2. ASSUME NEW q \in Runs, NEW publication, NEW repairs, Start(q, publication, repairs)
      PROVE  \/ run'[r].subject = None
             \/ /\ run'[r].subject = run[r].subject
                /\ command'[r].publication = command[r].publication
                /\ remote'[r] = remote[r]
  BY <1>1, <1>2 DEF Start, RowOK, Rows, workVars, WorkOK
<1>3. ASSUME NEW started \in GoRuns, Go(started[1], started[2])
      PROVE  \/ run'[r].subject = None
             \/ /\ run'[r].subject = run[r].subject
                /\ command'[r].publication = command[r].publication
                /\ remote'[r] = remote[r]
  BY <1>2, <1>3, GoRunsAssumption DEF Go
<1>4. ASSUME NEW q \in Runs, Push(q)
      PROVE  \/ run'[r].subject = None
             \/ /\ run'[r].subject = run[r].subject
                /\ command'[r].publication = command[r].publication
                /\ remote'[r] = remote[r]
  BY <1>1, <1>4 DEF Push, Executes, GoesTo, verificationVars, RowOK, WorkOK
<1>5. ASSUME NEW q \in Runs, RecordSubject(q)
      PROVE  /\ command'[r].publication = command[r].publication
             /\ remote'[r] = remote[r]
             /\ \/ run'[r].subject = run[r].subject
                \/ /\ command[r].publication # "none"
                   /\ run'[r].subject = branches[checkout] /\ IsPublished(r)
  BY <1>1, <1>5 DEF RecordSubject, SetSubject, GoesTo, workVars, WorkOK, Rows
<1>6. ASSUME NEW q \in Runs, Seal(q) \/ Stop(q)
      PROVE  /\ run'[r].subject = run[r].subject
             /\ command'[r].publication = command[r].publication
             /\ remote'[r] = remote[r]
  <2>1. /\ command'[r].publication = command[r].publication
        /\ remote'[r] = remote[r]
    BY <1>6 DEF Seal, Stop, GoesTo, workVars, WorkOK
  <2>2. CASE Stop(q)
    <3>1. \E state : run'[r] \in {run[r], [run[r] EXCEPT !.state = state]}
      BY <1>1, <2>2 DEF Stop
    <3>2. \A state : [run[r] EXCEPT !.state = state].subject = run[r].subject
      BY <1>1 DEF RowOK, Rows
    <3> QED
      BY <2>1, <3>1, <3>2
  <2>3. CASE Seal(q)
    <3>1. run'[r] \in {run[r], [run[r] EXCEPT !.state = "AWAITING_VERIFICATION", !.head = 1,
                                             !.updated = 1]}
      BY <1>1, <2>3 DEF Seal
    <3>2. [run[r] EXCEPT !.state = "AWAITING_VERIFICATION", !.head = 1,
                         !.updated = 1].subject = run[r].subject
      BY <1>1 DEF RowOK, Rows
    <3> QED
      BY <2>1, <3>1, <3>2
  <2> QED
    BY <1>6, <2>1, <2>2, <2>3
<1>7. ASSUME NEW q \in Runs,
             \/ Implement(q) \/ CreateBranch(q) \/ Stage(q) \/ Commit(q)
             \/ MarkRepairQueued(q) \/ CommandThrows(q) \/ CommandDies(q)
      PROVE  /\ UNCHANGED run
             /\ command'[r].publication = command[r].publication
             /\ remote'[r] = remote[r]
  BY <1>7 DEF Implement, CreateBranch, Stage, Commit, Executes, MarkRepairQueued,
              CommandThrows, CommandDies, GoesTo, verificationVars, workVars, WorkOK
<1>8. CASE MaintenanceDiscover \/ (\E b \in BranchNames : Switch(b)) \/ UNCHANGED vars
  BY <1>8 DEF MaintenanceDiscover, Switch, vars, verificationVars, workVars
<1>9. CASE Verify
  <2>1. UNCHANGED <<command, remote>>
    BY <1>9 DEF Verify, workVars
  <2>2. run'[r].subject \in {None, run[r].subject}
    <3>1. ASSUME NEW p \in Processes, NEW decision \in Decisions, Save(p, decision)
          PROVE  run'[r].subject = run[r].subject
      <4>1. PICK q \in Runs, document \in Documents :
              run' = [run EXCEPT ![q] =
                DecidedRow(@, decision, run[q].replays \cup {document}, document)]
        BY <3>1, SaveSteps
      <4>2. run'[r] = run[r]
            \/ run'[r] = DecidedRow(run[r], decision, run[q].replays \cup {document}, document)
        BY <1>1, <4>1
      <4> QED
        BY <1>1, <4>2, DecidedSubject DEF RowOK
    <3>2. ASSUME NEW q \in Judged, NEW decision \in Decisions, Attest(q, decision)
          PROVE  run'[r].subject = run[r].subject
      <4>1. q \in Runs
        BY BoundsAssumption
      <4>2. run'[r] = run[r] \/ run'[r] = DecidedRow(run[r], decision, run[q].replays, Attestation)
        BY <1>1, <3>2, <4>1, AttestSteps
      <4> QED
        BY <1>1, <4>2, DecidedSubject DEF RowOK
    <3>3. ASSUME NEW q \in Runs, DeleteRun(q) PROVE run'[r].subject \in {None, run[r].subject}
      BY <1>1, <3>3 DEF DeleteRun, Deleted, Missing
    <3>4. ASSUME NEW p \in Processes, (\E q \in Judged : BeginHandoff(p, q)) \/ Validate(p) \/ GiveUp(p)
          PROVE  UNCHANGED run
      BY <3>4 DEF BeginHandoff, Validate, GiveUp
    <3>5. ASSUME NEW q \in Judged, LateWorker(q) PROVE run'[r].subject = run[r].subject
      <4>1. PICK state : run' = [run EXCEPT ![q] = ChangedRow(@, state)]
        BY <1>1, <3>5, LateSteps, BoundsAssumption
      <4> QED
        BY <1>1, <4>1, ChangedFields DEF RowOK
    <3> QED
      BY <1>9, <3>1, <3>2, <3>3, <3>4, <3>5 DEF Verify, VerificationNext
  <2> QED
    BY <2>1, <2>2
<1> QED
  BY <1>2, <1>3, <1>4, <1>5, <1>6, <1>7, <1>8, <1>9 DEF Next, MaintenanceRepair

\* Every step keeps it.
LEMMA IInvNext == IInv /\ [Next]_vars => IInv'
<1> SUFFICES ASSUME IInv, [Next]_vars PROVE IInv'
  OBVIOUS
<1>1. RunOK' /\ CallOK' /\ WorkOK'
  BY RunKept, CallKept, WorkKept DEF IInv, WorkOK
<1>2. SubjectsOK' /\ SubjectIsPublished'
  BY SubjectSteps DEF IInv, SubjectsOK, SubjectIsPublished, IsPublished
<1> QED
  BY <1>1, <1>2 DEF IInv

\* It is invariant.
LEMMA Invariance == Spec => []IInv
BY IInvInit, IInvNext, PTL DEF Spec

\* Every row, command and branch keeps its type.
THEOREM TypeCorrect == Spec => []TypeOK
<1>1. IInv => TypeOK
  BY DEF IInv, RunOK, RowOK, Rows, CallOK, Reads, WorkOK, SubjectsOK, TypeOK, VerificationTypeOK
<1> QED
  BY <1>1, Invariance, PTL

\* The subject of a pull request that a verifier is given is what the branch of
\* the run has at the remote, however many commands share the work tree and
\* whoever switches its branch.
THEOREM SubjectPublished == Spec => []SubjectIsPublished
BY Invariance, PTL DEF IInv

\* A finding that is queued for a repair keeps naming it.
THEOREM FindingKept == Spec => FindingNamesOneRepair
<1>1. [Next]_vars => [finding.state = "REPAIR_QUEUED" => UNCHANGED finding]_finding
  <2> SUFFICES ASSUME Next, finding.state = "REPAIR_QUEUED" PROVE UNCHANGED finding
    BY DEF vars
  <2>1. CASE MaintenanceDiscover
    BY <2>1 DEF MaintenanceDiscover, Upserted
  <2>2. ASSUME NEW r \in Runs, MarkRepairQueued(r) PROVE FALSE
    BY <2>2 DEF MarkRepairQueued, Markable
  <2>3. ASSUME NEW r, NEW publication, NEW repairs, Start(r, publication, repairs)
        PROVE  UNCHANGED finding
    BY <2>3 DEF Start
  <2>4. ASSUME NEW r \in Runs,
               \/ Implement(r) \/ CreateBranch(r) \/ Stage(r) \/ Commit(r) \/ Push(r)
               \/ Seal(r) \/ Stop(r) \/ RecordSubject(r) \/ CommandThrows(r) \/ CommandDies(r)
        PROVE  UNCHANGED finding
    BY <2>4 DEF Implement, CreateBranch, Stage, Commit, Push, Executes, Seal, Stop,
                RecordSubject, CommandThrows, CommandDies
  <2>5. CASE Verify \/ \E b \in BranchNames : Switch(b)
    BY <2>5 DEF Verify, Switch
  <2> QED
    BY <2>1, <2>2, <2>3, <2>4, <2>5 DEF Next, Go, MaintenanceRepair
<1> QED
  BY <1>1, PTL DEF Spec, FindingNamesOneRepair

-----------------------------------------------------------------------------
(* The judgement that the store implements. *)

Presented == {"AWAITING_VERIFICATION", "VERIFIED", "FAILED_SAFE"}

\* What the judgement sees of the row of a run.
EvidenceOf(r, row) == IF row.state \in Presented THEN r ELSE None
AnsweredOf(row) == row.replays \cup IF row.by = Attestation THEN {row.by} ELSE {}
VerdictOf(r, row) == IF row.by # None THEN [on |-> r, is |-> row.state] ELSE None

SeenEvidence == [r \in Runs |-> EvidenceOf(r, run[r])]
SeenAnswered == [r \in Runs |-> AnsweredOf(run[r])]
SeenVerdict == [r \in Runs |-> VerdictOf(r, run[r])]
SeenWithdrawn == {r \in Runs : run[r].state = "DELETED"}

\* They are what the refinement mapping says.
LEMMA Seen ==
  /\ SeenEvidence = [r \in Runs |->
       IF run[r].state \in {"AWAITING_VERIFICATION", "VERIFIED", "FAILED_SAFE"} THEN r ELSE None]
  /\ SeenAnswered = [r \in Runs |->
       run[r].replays \cup IF run[r].by = Attestation THEN {run[r].by} ELSE {}]
  /\ SeenVerdict = [r \in Runs |->
       IF run[r].by # None THEN [on |-> r, is |-> run[r].state] ELSE None]
BY DEF SeenEvidence, SeenAnswered, SeenVerdict, EvidenceOf, AnsweredOf, VerdictOf, Presented

\* A step on one row changes what is seen of that run only.
LEMMA SeenOfOne ==
  ASSUME run \in [Runs -> Rows], NEW r \in Runs, NEW row, run' = [run EXCEPT ![r] = row]
  PROVE  /\ SeenEvidence' = [SeenEvidence EXCEPT ![r] = EvidenceOf(r, row)]
         /\ SeenAnswered' = [SeenAnswered EXCEPT ![r] = AnsweredOf(row)]
         /\ SeenVerdict' = [SeenVerdict EXCEPT ![r] = VerdictOf(r, row)]
         /\ SeenWithdrawn' = IF row.state = "DELETED" THEN SeenWithdrawn \cup {r}
                             ELSE SeenWithdrawn \ {r}
<1>1. \A q \in Runs : run'[q] = IF q = r THEN row ELSE run[q]
  OBVIOUS
<1> QED
  BY <1>1 DEF SeenEvidence, SeenAnswered, SeenVerdict, SeenWithdrawn

\* A row that shows the same is no step of the judgement.
LEMMA SameSeen ==
  ASSUME run \in [Runs -> Rows], NEW r \in Runs, NEW row, run' = [run EXCEPT ![r] = row],
         EvidenceOf(r, row) = EvidenceOf(r, run[r]), AnsweredOf(row) = AnsweredOf(run[r]),
         VerdictOf(r, row) = VerdictOf(r, run[r]),
         row.state # "DELETED", run[r].state # "DELETED"
  PROVE  UNCHANGED J!jvars
<1>1. UNCHANGED <<SeenEvidence, SeenAnswered, SeenVerdict, SeenWithdrawn>>
  BY SeenOfOne DEF SeenEvidence, SeenAnswered, SeenVerdict, SeenWithdrawn
<1> QED
  BY <1>1 DEF J!jvars, SeenEvidence, SeenAnswered, SeenVerdict, SeenWithdrawn, EvidenceOf,
              AnsweredOf, VerdictOf, Presented

\* Nothing is presented at first.
LEMMA JudgementInit == Init => J!JInit
BY NoneIsNothing DEF Init, VerificationInit, Missing, J!JInit

\* The answer to a handoff that has not been answered is a step of the judgement.
LEMMA AnswerSteps ==
  ASSUME RunOK, NEW r \in Runs, Awaits(r), NEW decision \in Decisions,
         NEW replays \in SUBSET Documents, NEW by \in Documents \cup {Attestation},
         run' = [run EXCEPT ![r] = DecidedRow(@, decision, replays, by)],
         \/ by \in Documents \ run[r].replays /\ replays = run[r].replays \cup {by}
         \/ by = Attestation /\ replays = run[r].replays
  PROVE  [J!JNext]_(J!jvars)
<1> DEFINE row == DecidedRow(run[r], decision, replays, by)
           next == StateAfter(decision)
<1>1. /\ run \in [Runs -> Rows] /\ run[r] \in Rows
      /\ run[r].state = "AWAITING_VERIFICATION" /\ run[r].by = None
  BY DEF RunOK, RowOK, Awaits
<1>2. /\ row.state = next /\ row.replays = replays
      /\ row.by = IF next = "AWAITING_VERIFICATION" THEN None ELSE by
  BY <1>1 DEF DecidedRow, Rows
<1>3. next \in {"VERIFIED", "FAILED_SAFE", "AWAITING_VERIFICATION"}
  BY Decided
<1>4. run' = [run EXCEPT ![r] = row]
  OBVIOUS
<1>5. Attestation \notin Documents /\ by # None /\ None # Attestation
  BY NoneIsNothing DEF Attestation, Documents
<1> HIDE DEF row, next
<1>6. /\ EvidenceOf(r, row) = r /\ EvidenceOf(r, run[r]) = r /\ r # None
      /\ AnsweredOf(run[r]) = run[r].replays /\ VerdictOf(r, run[r]) = None
  BY <1>1, <1>2, <1>3, <1>5, NoneIsNothing DEF EvidenceOf, AnsweredOf, VerdictOf, Presented
<1>7. CASE by = Attestation /\ next = "AWAITING_VERIFICATION"
  <2>1. AnsweredOf(row) = AnsweredOf(run[r]) /\ VerdictOf(r, row) = VerdictOf(r, run[r])
    BY <1>1, <1>2, <1>5, <1>6, <1>7 DEF AnsweredOf, VerdictOf
  <2> QED
    BY <1>1, <1>2, <1>4, <1>6, <1>7, <2>1, SameSeen
<1>8. CASE ~(by = Attestation /\ next = "AWAITING_VERIFICATION")
  <2>1. AnsweredOf(row) = run[r].replays \cup {by}
    BY <1>2, <1>3, <1>5, <1>8 DEF AnsweredOf
  <2>2. by \notin run[r].replays
    BY <1>1, <1>5 DEF Rows
  <2>3. \/ next = "AWAITING_VERIFICATION" /\ VerdictOf(r, row) = None
        \/ next \in {"VERIFIED", "FAILED_SAFE"} /\ VerdictOf(r, row) = [on |-> r, is |-> next]
    BY <1>2, <1>3, <1>5 DEF VerdictOf
  <2>4. /\ SeenEvidence' = [SeenEvidence EXCEPT ![r] = r]
        /\ SeenAnswered' = [SeenAnswered EXCEPT ![r] = run[r].replays \cup {by}]
        /\ SeenVerdict' = [SeenVerdict EXCEPT ![r] = VerdictOf(r, row)]
        /\ SeenWithdrawn' = SeenWithdrawn \ {r}
    <3>1. /\ SeenEvidence' = [SeenEvidence EXCEPT ![r] = EvidenceOf(r, row)]
          /\ SeenAnswered' = [SeenAnswered EXCEPT ![r] = AnsweredOf(row)]
          /\ SeenVerdict' = [SeenVerdict EXCEPT ![r] = VerdictOf(r, row)]
          /\ SeenWithdrawn' = IF row.state = "DELETED" THEN SeenWithdrawn \cup {r}
                              ELSE SeenWithdrawn \ {r}
      BY <1>1, <1>4, SeenOfOne
    <3> QED
      BY <1>2, <1>3, <1>6, <2>1, <3>1
  <2>5. /\ SeenEvidence[r] = r /\ SeenVerdict[r] = None /\ SeenAnswered[r] = run[r].replays
        /\ r \notin SeenWithdrawn
    BY <1>1, <1>6 DEF SeenEvidence, SeenVerdict, SeenAnswered, SeenWithdrawn
  <2>6. UNCHANGED <<SeenEvidence, SeenWithdrawn>>
    BY <2>4, <2>5 DEF SeenEvidence
  <2>7. SeenAnswered' # SeenAnswered
    BY <2>2, <2>4, <2>5 DEF SeenAnswered
  <2>8. \/ UNCHANGED SeenVerdict
        \/ \E v \in {"VERIFIED", "FAILED_SAFE"} :
             SeenVerdict' = [SeenVerdict EXCEPT ![r] = [on |-> SeenEvidence[r], is |-> v]]
    BY <2>3, <2>4, <2>5 DEF SeenVerdict
  <2>9. J!Answer(r)
    BY <1>6, <2>2, <2>4, <2>5, <2>6, <2>7, <2>8 DEF J!Answer, SeenEvidence, SeenAnswered,
       SeenVerdict, SeenWithdrawn, EvidenceOf, AnsweredOf, VerdictOf, Presented
  <2> QED
    BY <2>9 DEF J!JNext
<1> QED
  BY <1>7, <1>8

\* A run that is sealed is presented.
LEMMA PresentSteps ==
  ASSUME RunOK, NEW r \in Runs, run[r].state \notin Presented \cup {"DELETED"}, run[r].by = None,
         NEW row, run' = [run EXCEPT ![r] = row],
         row.state = "AWAITING_VERIFICATION", row.replays = run[r].replays, row.by = None
  PROVE  J!JNext
<1>1. run \in [Runs -> Rows]
  BY DEF RunOK
<1>2. /\ EvidenceOf(r, row) = r /\ EvidenceOf(r, run[r]) = None
      /\ AnsweredOf(row) = AnsweredOf(run[r]) /\ VerdictOf(r, row) = VerdictOf(r, run[r])
  BY DEF EvidenceOf, AnsweredOf, VerdictOf, Presented
<1>3. /\ SeenEvidence' = [SeenEvidence EXCEPT ![r] = EvidenceOf(r, row)]
      /\ SeenAnswered' = [SeenAnswered EXCEPT ![r] = AnsweredOf(row)]
      /\ SeenVerdict' = [SeenVerdict EXCEPT ![r] = VerdictOf(r, row)]
      /\ SeenWithdrawn' = IF row.state = "DELETED" THEN SeenWithdrawn \cup {r}
                          ELSE SeenWithdrawn \ {r}
  BY <1>1, SeenOfOne
<1>4. r \notin SeenWithdrawn /\ SeenEvidence[r] = None
  BY <1>2 DEF SeenWithdrawn, SeenEvidence
<1>5. /\ SeenEvidence' = [SeenEvidence EXCEPT ![r] = r]
      /\ UNCHANGED <<SeenAnswered, SeenVerdict, SeenWithdrawn>>
  BY <1>2, <1>3, <1>4 DEF SeenAnswered, SeenVerdict
<1>6. SeenEvidence' # SeenEvidence
  BY <1>4, <1>5, NoneIsNothing DEF SeenEvidence
<1>7. J!Present(r)
  BY <1>4, <1>5, <1>6 DEF J!Present, SeenEvidence, SeenAnswered, SeenVerdict, SeenWithdrawn,
     EvidenceOf, AnsweredOf, VerdictOf, Presented
<1> QED
  BY <1>7 DEF J!JNext

\* A late worker that takes a run from the verifier reopens it: its verdict is put
\* aside, and what was answered by its name stays answered.
LEMMA ReopenSteps ==
  ASSUME RunOK, NEW r \in Runs, run[r].state \in Presented, NEW state \in {"RECONCILING", "BLOCKED"},
         run' = [run EXCEPT ![r] = ChangedRow(@, state)]
  PROVE  J!JNext
<1> DEFINE row == ChangedRow(run[r], state)
<1>1. run \in [Runs -> Rows] /\ run[r] \in Rows
  BY DEF RunOK
<1>2. row.state = state /\ row.replays = run[r].replays /\ row.by = None /\ run' = [run EXCEPT ![r] = row]
  BY <1>1, ChangedFields DEF Presented
<1>3. Attestation \notin run[r].replays
  BY <1>1 DEF Rows, Attestation, Documents
<1> HIDE DEF row
<1>4. /\ EvidenceOf(r, row) = None /\ EvidenceOf(r, run[r]) = r
      /\ AnsweredOf(row) = AnsweredOf(run[r]) \ {Attestation} /\ VerdictOf(r, row) = None
  BY <1>2, <1>3, NoneIsNothing DEF EvidenceOf, AnsweredOf, VerdictOf, Presented
<1>5. /\ SeenEvidence' = [SeenEvidence EXCEPT ![r] = EvidenceOf(r, row)]
      /\ SeenAnswered' = [SeenAnswered EXCEPT ![r] = AnsweredOf(row)]
      /\ SeenVerdict' = [SeenVerdict EXCEPT ![r] = VerdictOf(r, row)]
      /\ SeenWithdrawn' = IF row.state = "DELETED" THEN SeenWithdrawn \cup {r}
                          ELSE SeenWithdrawn \ {r}
  BY <1>1, <1>2, SeenOfOne
<1>6. /\ SeenEvidence[r] # None /\ SeenAnswered[r] = AnsweredOf(run[r]) /\ r \notin SeenWithdrawn
  BY <1>4, NoneIsNothing DEF SeenEvidence, SeenAnswered, SeenWithdrawn, Presented
<1>7. /\ SeenEvidence' = [SeenEvidence EXCEPT ![r] = None]
      /\ SeenAnswered' = [SeenAnswered EXCEPT ![r] = @ \ {Attestation}]
      /\ SeenVerdict' = [SeenVerdict EXCEPT ![r] = None] /\ UNCHANGED SeenWithdrawn
  BY <1>2, <1>4, <1>5, <1>6
<1>8. J!Reopen(r)
  BY <1>6, <1>7 DEF J!Reopen, SeenEvidence, SeenAnswered, SeenVerdict, SeenWithdrawn,
     EvidenceOf, AnsweredOf, VerdictOf, Presented
<1> QED
  BY <1>8 DEF J!JNext

\* The other steps of a late worker.
LEMMA LateJudgement ==
  ASSUME RunOK, NEW r \in Runs, LateWorker(r)
  PROVE  [J!JNext]_(J!jvars)
<1>1. PICK state \in Reopenable \cup {"RECONCILING"} :
        /\ run[r].state \in Reopenable \cup {"RECONCILING"}
        /\ \/ state \in {run[r].state, "RECONCILING", "BLOCKED"}
           \/ state = "AWAITING_VERIFICATION" /\ run[r].state = "RECONCILING"
        /\ run' = [run EXCEPT ![r] = ChangedRow(@, state)]
  BY LateSteps
<1> DEFINE row == ChangedRow(run[r], state)
<1>2. /\ run \in [Runs -> Rows] /\ run[r] \in Rows
      /\ (run[r].state \in {"VERIFIED", "FAILED_SAFE"}) = (run[r].by # None)
  BY DEF RunOK, RowOK
<1>3. /\ row.state = state /\ row.replays = run[r].replays /\ run' = [run EXCEPT ![r] = row]
      /\ row.by = IF state = run[r].state THEN run[r].by ELSE None
  BY <1>1, <1>2, ChangedFields
<1> HIDE DEF row
<1>4. state # "DELETED" /\ run[r].state # "DELETED"
  BY <1>1 DEF Reopenable
<1>5. CASE state = run[r].state
  <2>1. /\ EvidenceOf(r, row) = EvidenceOf(r, run[r]) /\ AnsweredOf(row) = AnsweredOf(run[r])
        /\ VerdictOf(r, row) = VerdictOf(r, run[r])
    BY <1>3, <1>5 DEF EvidenceOf, AnsweredOf, VerdictOf
  <2> QED
    BY <1>2, <1>3, <1>4, <2>1, SameSeen
<1>6. CASE state \in {"RECONCILING", "BLOCKED"} /\ run[r].state \in Presented
  BY <1>1, <1>6, ReopenSteps
<1>7. CASE state \in {"RECONCILING", "BLOCKED"} /\ run[r].state \in {"RECONCILING", "BLOCKED"}
  <2>1. /\ EvidenceOf(r, row) = EvidenceOf(r, run[r]) /\ AnsweredOf(row) = AnsweredOf(run[r])
        /\ VerdictOf(r, row) = VerdictOf(r, run[r])
    BY <1>2, <1>3, <1>7 DEF EvidenceOf, AnsweredOf, VerdictOf, Presented
  <2> QED
    BY <1>2, <1>3, <1>4, <2>1, SameSeen
<1>8. CASE state = "AWAITING_VERIFICATION" /\ run[r].state = "RECONCILING"
  BY <1>2, <1>3, <1>8, PresentSteps DEF Presented
<1> QED
  BY <1>1, <1>5, <1>6, <1>7, <1>8 DEF Reopenable, Presented

\* Every step is a step of the judgement, or a stutter.
LEMMA JudgementStep == IInv /\ [Next]_vars => [J!JNext]_(J!jvars)
<1> SUFFICES ASSUME IInv, [Next]_vars PROVE [J!JNext]_(J!jvars)
  OBVIOUS
<1>1. RunOK /\ CallOK /\ run \in [Runs -> Rows]
  BY DEF IInv, RunOK
<1>2. UNCHANGED run => UNCHANGED J!jvars
  BY DEF J!jvars
<1>3. CASE CommandSteps
  <2>1. ASSUME NEW r \in Runs, NEW state \in {"EXECUTING", "STOPPED", "BLOCKED"},
               run[r].state \in {"MISSING", "EXECUTING"},
               run' = [run EXCEPT ![r].state = state]
        PROVE  UNCHANGED J!jvars
    <3> DEFINE row == [run[r] EXCEPT !.state = state]
    <3>1. run[r] \in Rows
      BY <1>1
    <3>2. row.state = state /\ row.replays = run[r].replays /\ row.by = run[r].by
      BY <3>1 DEF Rows
    <3>3. run[r].by = None
      BY <1>1, <2>1 DEF RunOK, RowOK
    <3>4. run' = [run EXCEPT ![r] = row]
      BY <2>1
    <3> HIDE DEF row
    <3>5. /\ EvidenceOf(r, row) = EvidenceOf(r, run[r]) /\ AnsweredOf(row) = AnsweredOf(run[r])
          /\ VerdictOf(r, row) = VerdictOf(r, run[r])
      BY <2>1, <3>2, <3>3 DEF EvidenceOf, AnsweredOf, VerdictOf, Presented
    <3> QED
      BY <1>1, <2>1, <3>2, <3>4, <3>5, SameSeen
  <2>2. ASSUME NEW r \in Runs, run[r].state = "EXECUTING",
               run' = [run EXCEPT ![r].state = "AWAITING_VERIFICATION", ![r].head = 1,
                                  ![r].updated = 1]
        PROVE  J!JNext
    <3> DEFINE row == [run[r] EXCEPT !.state = "AWAITING_VERIFICATION", !.head = 1, !.updated = 1]
    <3>1. run[r] \in Rows /\ run[r].by = None
      BY <1>1, <2>2 DEF RunOK, RowOK
    <3>2. row.state = "AWAITING_VERIFICATION" /\ row.replays = run[r].replays /\ row.by = None
      BY <3>1 DEF Rows
    <3>3. run' = [run EXCEPT ![r] = row]
      BY <2>2
    <3> HIDE DEF row
    <3> QED
      BY <1>1, <2>2, <3>1, <3>2, <3>3, PresentSteps DEF Presented
  <2>3. ASSUME NEW r \in Runs, SetSubject(r, branches[checkout]) PROVE UNCHANGED J!jvars
    <3> DEFINE row == [run[r] EXCEPT !.subject = branches[checkout], !.head = @ + 1]
    <3>1. run[r] \in Rows /\ run[r].state = "AWAITING_VERIFICATION"
      BY <1>1, <2>3 DEF SetSubject, Awaits
    <3>2. row.state = run[r].state /\ row.replays = run[r].replays /\ row.by = run[r].by
      BY <3>1 DEF Rows
    <3>3. run' = [run EXCEPT ![r] = row]
      BY <2>3 DEF SetSubject
    <3> HIDE DEF row
    <3>4. /\ EvidenceOf(r, row) = EvidenceOf(r, run[r]) /\ AnsweredOf(row) = AnsweredOf(run[r])
          /\ VerdictOf(r, row) = VerdictOf(r, run[r])
      BY <3>2 DEF EvidenceOf, AnsweredOf, VerdictOf
    <3> QED
      BY <1>1, <3>1, <3>2, <3>3, <3>4, SameSeen
  <2> QED
    BY <1>2, <1>3, <2>1, <2>2, <2>3 DEF CommandSteps
<1>4. CASE Verify
  <2>1. ASSUME NEW p \in Processes, NEW decision \in Decisions, Save(p, decision)
        PROVE  [J!JNext]_(J!jvars)
    <3>1. PICK r \in Runs, document \in Documents :
            /\ Awaits(r) /\ document \notin run[r].replays
            /\ run' = [run EXCEPT ![r] =
                 DecidedRow(@, decision, run[r].replays \cup {document}, document)]
      BY <1>1, <2>1, SaveSteps
    <3>2. run[r].replays \cup {document} \in SUBSET Documents
      BY <1>1 DEF Rows
    <3> QED
      BY <1>1, <3>1, <3>2, AnswerSteps
  <2>2. ASSUME NEW r \in Runs, NEW decision \in Decisions, Attest(r, decision)
        PROVE  [J!JNext]_(J!jvars)
    <3>1. /\ Awaits(r)
          /\ run' = [run EXCEPT ![r] = DecidedRow(@, decision, run[r].replays, Attestation)]
      BY <1>1, <2>2, AttestSteps
    <3>2. run[r].replays \in SUBSET Documents
      BY <1>1 DEF Rows
    <3> QED
      BY <1>1, <3>1, <3>2, AnswerSteps
  <2>3. ASSUME NEW r \in Runs, DeleteRun(r) PROVE J!JNext
    <3>1. run' = [run EXCEPT ![r] = Deleted] /\ run[r].state # "DELETED"
      BY <2>3 DEF DeleteRun, Deletable
    <3>2. /\ EvidenceOf(r, Deleted) = None /\ AnsweredOf(Deleted) = {}
          /\ VerdictOf(r, Deleted) = None /\ Deleted.state = "DELETED"
      BY NoneIsNothing DEF Deleted, Missing, EvidenceOf, AnsweredOf, VerdictOf, Presented
    <3>3. /\ SeenEvidence' = [SeenEvidence EXCEPT ![r] = None]
          /\ SeenAnswered' = [SeenAnswered EXCEPT ![r] = {}]
          /\ SeenVerdict' = [SeenVerdict EXCEPT ![r] = None]
          /\ SeenWithdrawn' = SeenWithdrawn \cup {r}
      <4>1. /\ SeenEvidence' = [SeenEvidence EXCEPT ![r] = EvidenceOf(r, Deleted)]
            /\ SeenAnswered' = [SeenAnswered EXCEPT ![r] = AnsweredOf(Deleted)]
            /\ SeenVerdict' = [SeenVerdict EXCEPT ![r] = VerdictOf(r, Deleted)]
            /\ SeenWithdrawn' = IF Deleted.state = "DELETED" THEN SeenWithdrawn \cup {r}
                                ELSE SeenWithdrawn \ {r}
        BY <1>1, <3>1, SeenOfOne
      <4> QED
        BY <3>2, <4>1
    <3>4. r \notin SeenWithdrawn
      BY <3>1 DEF SeenWithdrawn
    <3>5. J!Withdraw(r)
      BY <3>3, <3>4 DEF J!Withdraw, SeenEvidence, SeenAnswered, SeenVerdict, SeenWithdrawn,
         EvidenceOf, AnsweredOf, VerdictOf, Presented
    <3> QED
      BY <3>5 DEF J!JNext
  <2>4. ASSUME NEW p \in Processes, (\E r \in Judged : BeginHandoff(p, r)) \/ Validate(p) \/ GiveUp(p)
        PROVE  UNCHANGED run
    BY <2>4 DEF BeginHandoff, Validate, GiveUp
  <2>5. ASSUME NEW r \in Runs, LateWorker(r) PROVE [J!JNext]_(J!jvars)
    BY <1>1, <2>5, LateJudgement
  <2> QED
    BY <1>2, <1>4, <2>1, <2>2, <2>3, <2>4, <2>5, BoundsAssumption DEF Verify, VerificationNext
<1> QED
  BY <1>3, <1>4, CommandsOnRun

\* No answered handoff settles a run, and between two sealings it is judged at most
\* once, over both versions of the contract, whatever a late worker does: the store
\* of the command line implements the judgement, in which every run can be reopened.
THEOREM ImplementsTheJudgement == Spec => ImplementsJudgement
BY Invariance, JudgementInit, JudgementStep, PTL DEF Spec, ImplementsJudgement, J!JSpec

=============================================================================
