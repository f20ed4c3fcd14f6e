------------------------------ MODULE LocalRun ------------------------------
(***************************************************************************)
(* One durable local run: the SQLite store of src/store.ts and every       *)
(* command line process that works on it through src/controller.ts.        *)
(*                                                                         *)
(* A worker is one process inside `donestate resume`.  Each of its steps   *)
(* is one store transaction or one read, so another worker, the operator   *)
(* or the verifier can act between any two of them.  A process that ends,  *)
(* by returning, by an exception or by a crash, frees its slot for a new   *)
(* process with a new owner id: the lease it leaves behind belongs to      *)
(* Departed, an owner no worker has, until it expires.                     *)
(***************************************************************************)
EXTENDS Naturals, FiniteSets, FiniteSetsExt

CONSTANTS
  Workers,      \* slots for `donestate resume` processes
  NActions,     \* number of admitted actions; ordinals 1..NActions
  Kind,         \* action -> one of Kinds
  DependsOn,    \* action -> the actions it depends on (acyclic by admission)
  Granted,      \* actions whose authority class the policy grants
  Unkillable,   \* actions whose child runs under an id it cannot be killed from
  MaxAttempts,  \* policy.budgets.maxAttemptsPerAction
  MaxToken,     \* bound of the model on the fencing token
  Departed      \* the owner id of a process that is gone

Actions == 1..NActions
Kinds == {"harness", "command", "validation", "publication"}

ASSUME WorkersAssumption == Departed \notin Workers
ASSUME ActionsAssumption == NActions \in Nat \ {0}
ASSUME KindAssumption == Kind \in [Actions -> Kinds]
ASSUME DependsAssumption == DependsOn \in [Actions -> SUBSET Actions]
ASSUME GrantedAssumption == Granted \subseteq Actions
ASSUME UnkillableAssumption == Unkillable \subseteq Actions
ASSUME BoundsAssumption == MaxAttempts \in Nat \ {0} /\ MaxToken \in Nat

VARIABLES
  runState,  \* donestate_runs.state, "DELETED" once the row is gone
  actions,   \* donestate_actions: action -> [state, attempts]
  lease,     \* donestate_leases: [owner, token, active]
  sealed,    \* verification_snapshot_digest: the table it digests
  late,      \* more than maxDurationMs since the run was created
  pc,        \* where each worker is in resume()
  mem,       \* run.state in the memory of each worker
  seen,      \* the actions array in the memory of each worker
  token,     \* lease.fencingToken in the memory of each worker
  cur,       \* the action of the loop each worker is at
  goal,      \* the transition a worker is about to write
  result,    \* how the worker's child process ended
  op,        \* the operator inside `donestate cancel`: [pc, mem]
  launched,  \* observation: child processes ever started, per action
  settled,   \* observation: the actions that ever settled SUCCEEDED
  failed     \* observation: the actions whose last settlement was a failure

store == <<runState, actions, lease, sealed>>
memory == <<mem, seen, token, cur, goal, result>>
observed == <<launched, settled, failed>>
vars == <<store, late, pc, memory, op, observed>>

-----------------------------------------------------------------------------
(* States.  A FAILED row whose result carries a missing-capability         *)
(* errorCode (ENOENT, EACCES, MISSING_ENV) is UNAVAILABLE here, and one    *)
(* with any other errorCode is ERRORED.                                    *)

PhaseStates == {"EXECUTING", "VALIDATING", "PUBLISHING"}
TerminalStates ==
  {"VERIFIED", "BLOCKED_SAFETY", "AMBIGUOUS_EFFECT", "FAILED_SAFE", "CANCELLED"}
ResumableStates ==
  PhaseStates \cup {"RECEIVED", "ADMITTED", "RECONCILING", "BLOCKED_CAPABILITY"}
RestingStates ==
  TerminalStates \cup
    {"BLOCKED_AUTHORITY", "BLOCKED_CAPABILITY", "AWAITING_VERIFICATION"}
RunStates == ResumableStates \cup RestingStates \cup {"DELETED"}

ActionStates ==
  {"PENDING", "RUNNING", "SUCCEEDED", "FAILED", "UNAVAILABLE", "ERRORED", "AMBIGUOUS"}
FailedStates == {"FAILED", "UNAVAILABLE", "ERRORED"}
ActionRow == [state: ActionStates, attempts: Nat]
Unsealed == [a \in {} |-> "none"]

PhaseFor(a) ==
  CASE Kind[a] = "validation"  -> "VALIDATING"
    [] Kind[a] = "publication" -> "PUBLISHING"
    [] OTHER                   -> "EXECUTING"

WithState(s) == {a \in Actions : actions[a].state = s}
Retryable == {a \in Actions : actions[a].state \in {"UNAVAILABLE", "ERRORED"}}
AllSucceeded == WithState("SUCCEEDED") = Actions
SetAction(a, s) == actions' = [actions EXCEPT ![a].state = s]

-----------------------------------------------------------------------------
(* The store's lease operations. *)

\* assertLease: owner, token and expiry must all match.
HoldsLease(w) == lease = [owner |-> w, token |-> token[w], active |-> TRUE]

\* Mutant: an expired lease is honoured for ever.
MutantLeaseHeldByOther(w) == lease.token > 0 /\ lease.owner # w

LeaseHeldByOther(w) == lease.active /\ lease.owner # w

\* What acquireLease writes when it is not refused; a heartbeat calls it too.
Acquired(w) ==
  IF lease.active /\ lease.owner = w
    THEN lease
    ELSE [owner |-> w, token |-> lease.token + 1, active |-> TRUE]

NoLease == [owner |-> Departed, token |-> 0, active |-> FALSE]

-----------------------------------------------------------------------------
(* Control flow of a worker. *)

At(w, label) == pc[w] = label
Goto(w, label) == pc' = [pc EXCEPT ![w] = label]

BlankTable == [a \in Actions |-> [state |-> "PENDING", attempts |-> 0]]
NoGoal == [to |-> "RECEIVED", next |-> "idle"]

\* What is left of the lease when w is gone.
Orphaned(w) == IF lease.owner = w THEN [lease EXCEPT !.owner = Departed] ELSE lease

\* The process is gone, and with it everything it remembered.
Gone(w) ==
  /\ Goto(w, "idle")
  /\ mem' = [mem EXCEPT ![w] = "RECEIVED"]
  /\ seen' = [seen EXCEPT ![w] = BlankTable]
  /\ token' = [token EXCEPT ![w] = 0]
  /\ cur' = [cur EXCEPT ![w] = 1]
  /\ goal' = [goal EXCEPT ![w] = NoGoal]
  /\ result' = [result EXCEPT ![w] = "none"]

\* The store changed nothing and resume() returned or threw.
Exit(w) ==
  /\ Gone(w)
  /\ lease' = Orphaned(w)
  /\ UNCHANGED <<runState, actions, sealed, late, op, observed>>

\* The next store call of w is transition(run.state, to); next is where it
\* goes afterwards, "idle" for `return this.store.transition(...)`.
Propose(w, to, next) ==
  /\ goal' = [goal EXCEPT ![w] = [to |-> to, next |-> next]]
  /\ Goto(w, "move")

-----------------------------------------------------------------------------
(* resume(): from the first read to the action loop. *)

\* getRun, the early returns and the duration budget.
Resume(w) ==
  /\ At(w, "idle")
  /\ runState \in ResumableStates
  /\ mem' = [mem EXCEPT ![w] = runState]
  /\ IF late THEN Propose(w, "BLOCKED_SAFETY", "idle")
             ELSE Goto(w, "acquire") /\ UNCHANGED goal
  /\ UNCHANGED <<store, late, seen, token, cur, result, op, observed>>

Acquire(w) ==
  /\ At(w, "acquire")
  /\ IF runState = "DELETED" \/ LeaseHeldByOther(w)
       THEN Exit(w)
       ELSE /\ Acquired(w).token <= MaxToken
            /\ lease' = Acquired(w)
            /\ token' = [token EXCEPT ![w] = Acquired(w).token]
            /\ Goto(w, "scan")
            /\ UNCHANGED <<runState, actions, sealed, late, mem, seen, cur, goal,
                           result, op, observed>>

\* Mutant: the attempt budget is off by one.
MutantExhausted(attempts) == attempts > MaxAttempts

\* maxAttemptsPerAction, for a retry and for a start.
Exhausted(attempts) == attempts >= MaxAttempts

\* listActions: an interrupted action, or a failure to retry, or go on.
Scan(w) ==
  LET interrupted == WithState("RUNNING") IN
  /\ At(w, "scan")
  /\ IF \/ runState = "DELETED"
        \/ /\ interrupted = {}
           /\ mem[w] = "BLOCKED_CAPABILITY"
           /\ \/ Retryable = {}
              \/ Exhausted(actions[Min(Retryable)].attempts)
       THEN Exit(w)
       ELSE /\ seen' = [seen EXCEPT ![w] = actions]
            /\ \/ /\ interrupted # {}
                  /\ cur' = [cur EXCEPT ![w] = Min(interrupted)]
                  /\ Goto(w, "mark")
               \/ /\ interrupted = {}
                  /\ mem[w] = "BLOCKED_CAPABILITY"
                  /\ cur' = [cur EXCEPT ![w] = Min(Retryable)]
                  /\ Goto(w, "retry")
               \/ /\ interrupted = {}
                  /\ mem[w] # "BLOCKED_CAPABILITY"
                  /\ Goto(w, "open")
                  /\ UNCHANGED cur
            /\ UNCHANGED <<store, late, mem, token, goal, result, op, observed>>

\* Mutant: recovery schedules an interrupted action again.
MutantMarkAmbiguous(w) ==
  /\ At(w, "mark")
  /\ SetAction(cur[w], "PENDING")
  /\ runState' = "EXECUTING"
  /\ lease' = Orphaned(w)
  /\ Gone(w)
  /\ UNCHANGED <<sealed, late, op, observed>>

\* markActionAmbiguous checks neither the lease nor any state.
MarkAmbiguous(w) ==
  /\ At(w, "mark")
  /\ IF runState = "DELETED"
       THEN Exit(w)
       ELSE /\ SetAction(cur[w], "AMBIGUOUS")
            /\ runState' = "AMBIGUOUS_EFFECT"
            /\ lease' = Orphaned(w)
            /\ Gone(w)
            /\ UNCHANGED <<sealed, late, op, observed>>

\* Mutant: anything that has not succeeded may be retried.
MutantRetryFailed(w) ==
  /\ At(w, "retry")
  /\ HoldsLease(w) /\ actions[cur[w]].state # "SUCCEEDED"
  /\ SetAction(cur[w], "PENDING")
  /\ cur' = [cur EXCEPT ![w] = 1]
  /\ Propose(w, "EXECUTING", "relist")
  /\ UNCHANGED <<runState, lease, sealed, late, mem, seen, token, result, op, observed>>

\* retryFailedAction; the transition out of BLOCKED_CAPABILITY is a second
\* transaction.
RetryFailed(w) ==
  /\ At(w, "retry")
  /\ IF HoldsLease(w) /\ actions[cur[w]].state \in FailedStates
       THEN /\ SetAction(cur[w], "PENDING")
            /\ failed' = failed \ {cur[w]}
            /\ cur' = [cur EXCEPT ![w] = 1]
            /\ Propose(w, "EXECUTING", "relist")
            /\ UNCHANGED <<runState, lease, sealed, late, mem, seen, token, result, op,
                           launched, settled>>
       ELSE Exit(w)

Relist(w) ==
  /\ At(w, "relist")
  /\ seen' = [seen EXCEPT ![w] = actions]
  /\ Goto(w, "open")
  /\ UNCHANGED <<store, late, mem, token, cur, goal, result, op, observed>>

Open(w) ==
  /\ At(w, "open")
  /\ \/ mem[w] = "RECEIVED" /\ Propose(w, "ADMITTED", "open")
     \/ mem[w] = "ADMITTED" /\ Propose(w, "EXECUTING", "loop")
     \/ mem[w] \notin {"RECEIVED", "ADMITTED"} /\ Goto(w, "loop") /\ UNCHANGED goal
  /\ UNCHANGED <<store, late, mem, seen, token, cur, result, op, observed>>

-----------------------------------------------------------------------------
(* Store.transition: compare-and-set on the remembered state, no lease.    *)
(* It returns a second read of the row, which the caller keeps.            *)

Move(w) ==
  /\ At(w, "move")
  /\ IF runState # mem[w]
       THEN Exit(w)
       ELSE /\ runState' = goal[w].to
            /\ IF goal[w].next = "idle"
                 THEN lease' = Orphaned(w) /\ Gone(w)
                 ELSE Goto(w, "reread") /\ UNCHANGED <<lease, memory>>
            /\ UNCHANGED <<actions, sealed, late, op, observed>>

Reread(w) ==
  /\ At(w, "reread")
  /\ IF runState = "DELETED"
       THEN Exit(w)
       ELSE /\ mem' = [mem EXCEPT ![w] =
                         IF goal[w].next = "check" THEN "RECONCILING" ELSE runState]
            /\ Goto(w, goal[w].next)
            /\ goal' = [goal EXCEPT ![w] = NoGoal]
            /\ UNCHANGED <<store, late, seen, token, cur, result, op, observed>>

-----------------------------------------------------------------------------
(* The action loop. *)

\* The action the loop comes to: those seen SUCCEEDED are skipped.
Unfinished(w) == {a \in Actions : a >= cur[w] /\ seen[w][a].state # "SUCCEEDED"}

\* The gates before an action may start.  The workspace inspection and the
\* expiry of the grants are inputs.
Refusal(a, attempts, workspace, expired) ==
  IF \E d \in DependsOn[a] : actions[d].state # "SUCCEEDED" THEN "BLOCKED_SAFETY"
  ELSE IF Kind[a] = "publication" /\ workspace = "no_repository" THEN "BLOCKED_CAPABILITY"
  ELSE IF Kind[a] = "publication" /\ workspace = "over_budget" THEN "BLOCKED_SAFETY"
  ELSE IF a \notin Granted \/ expired THEN "BLOCKED_AUTHORITY"
  ELSE IF Exhausted(attempts) THEN "BLOCKED_SAFETY"
  ELSE "none"

WorkspaceFindings == {"fits", "over_budget", "no_repository"}

Examine(w) ==
  LET a == Min(Unfinished(w)) IN
  /\ At(w, "loop")
  /\ Unfinished(w) # {}
  /\ IF seen[w][a].state \in FailedStates \cup {"AMBIGUOUS"} \/ runState = "DELETED"
       THEN Exit(w)
       ELSE \E workspace \in WorkspaceFindings, expired \in BOOLEAN :
              LET refusal == Refusal(a, seen[w][a].attempts, workspace, expired) IN
              /\ cur' = [cur EXCEPT ![w] = a]
              /\ \/ refusal # "none" /\ Propose(w, refusal, "idle")
                 \/ /\ refusal = "none"
                    /\ mem[w] # PhaseFor(a)
                    /\ Propose(w, PhaseFor(a), "start")
                 \/ /\ refusal = "none"
                    /\ mem[w] = PhaseFor(a)
                    /\ Goto(w, "start")
                    /\ UNCHANGED goal
              /\ UNCHANGED <<store, late, mem, seen, token, result, op, observed>>

\* startAction records the intent under the lease, whatever the run's state.
StartAction(w) ==
  /\ At(w, "start")
  /\ IF HoldsLease(w) /\ actions[cur[w]].state = "PENDING"
       THEN /\ actions' = [actions EXCEPT
                             ![cur[w]] = [state |-> "RUNNING", attempts |-> @.attempts + 1]]
            /\ Goto(w, "launch")
            /\ UNCHANGED <<runState, lease, sealed, late, memory, op, observed>>
       ELSE Exit(w)

\* runProcess: a missing executable or variable, or a failure of spawn itself,
\* means nothing was started.
Launch(w) ==
  /\ At(w, "launch")
  /\ \/ /\ \E r \in {"unavailable", "errored"} : result' = [result EXCEPT ![w] = r]
        /\ Goto(w, "settle")
        /\ UNCHANGED launched
     \/ /\ launched' = [launched EXCEPT ![cur[w]] = @ + 1]
        /\ Goto(w, "run")
        /\ UNCHANGED result
  /\ UNCHANGED <<store, late, mem, seen, token, cur, goal, op, settled, failed>>

\* A child that could not be killed has emitted an error, which outlives it.
ProcessEnds(w) ==
  /\ At(w, "run")
  /\ \E r \in {"succeeded", "failed"} \cup (IF cur[w] \in Unkillable THEN {"errored"} ELSE {}) :
       result' = [result EXCEPT ![w] = r]
  /\ Goto(w, "settle")
  /\ UNCHANGED <<store, late, mem, seen, token, cur, goal, op, observed>>

\* The heartbeat renews the lease, and takes a lapsed one under a new token.
Heartbeat(w) ==
  /\ At(w, "run")
  /\ runState # "DELETED"
  /\ ~ LeaseHeldByOther(w)
  /\ Acquired(w) # lease
  /\ Acquired(w).token <= MaxToken
  /\ lease' = Acquired(w)
  /\ UNCHANGED <<runState, actions, sealed, late, pc, memory, op, observed>>

\* Mutant: the adapter's word is stored as it is.
MutantSettledStateRaw(r) == r

SettledState(r) ==
  CASE r = "succeeded"   -> "SUCCEEDED"
    [] r = "unavailable" -> "UNAVAILABLE"
    [] r = "errored"     -> "ERRORED"
    [] OTHER             -> "FAILED"

\* settleAction under the fencing token of the intent.
SettleAction(w) ==
  /\ At(w, "settle")
  /\ IF HoldsLease(w) /\ actions[cur[w]].state = "RUNNING"
       THEN /\ SetAction(cur[w], SettledState(result[w]))
            /\ settled' = IF result[w] = "succeeded" THEN settled \cup {cur[w]} ELSE settled
            /\ failed' = IF result[w] = "succeeded" THEN failed ELSE failed \cup {cur[w]}
            /\ result' = [result EXCEPT ![w] = "none"]
            /\ Goto(w, "decide")
            /\ UNCHANGED <<runState, lease, sealed, late, mem, seen, token, cur, goal, op,
                           launched>>
       ELSE Exit(w)

\* Where the run stops after an action that is not followed by the next one.
StopState(s) ==
  CASE s \in {"FAILED", "ERRORED"} -> "FAILED_SAFE"
    [] s = "UNAVAILABLE"           -> "BLOCKED_CAPABILITY"
    [] OTHER                       -> "BLOCKED_SAFETY"

\* Mutant: the action counts as done whatever its row says.
MutantDecide(w) ==
  /\ At(w, "decide")
  /\ cur' = [cur EXCEPT ![w] = @ + 1]
  /\ Goto(w, "loop")
  /\ UNCHANGED <<store, late, mem, seen, token, goal, result, op, observed>>

\* settleAction lists the rows again, in a transaction of its own, and resume()
\* decides on the row it finds there, which others may have written since.
Decide(w) ==
  LET found == actions[cur[w]].state IN
  /\ At(w, "decide")
  /\ IF runState = "DELETED"
       THEN Exit(w)
       ELSE /\ \/ /\ found \notin FailedStates /\ ~late
                  /\ cur' = [cur EXCEPT ![w] = @ + 1]
                  /\ Goto(w, "loop")
                  /\ UNCHANGED goal
               \/ /\ found \in FailedStates \/ late
                  /\ Propose(w, StopState(found), "idle")
                  /\ UNCHANGED cur
            /\ UNCHANGED <<store, late, mem, seen, token, result, op, observed>>

-----------------------------------------------------------------------------
(* After the loop: reconcile, seal, hand over to the verifier. *)

\* getRun, and RECONCILING from whatever state was read.
Reconcile(w) ==
  /\ At(w, "loop")
  /\ Unfinished(w) = {}
  /\ IF runState = "DELETED"
       THEN Exit(w)
       ELSE /\ mem' = [mem EXCEPT ![w] = runState]
            /\ IF runState = "RECONCILING"
                 THEN Goto(w, "check") /\ UNCHANGED goal
                 ELSE Propose(w, "RECONCILING", "check")
            /\ UNCHANGED <<store, late, seen, token, cur, result, op, observed>>

\* Mutant: the loop is trusted and the rows are not listed again.
MutantCheckOutcome(w) ==
  /\ At(w, "check")
  /\ seen' = [seen EXCEPT ![w] = actions]
  /\ \/ Propose(w, "BLOCKED_SAFETY", "idle")
     \/ Goto(w, "seal") /\ UNCHANGED goal
  /\ UNCHANGED <<store, late, mem, token, cur, result, op, observed>>

\* listActions and inspectWorkspace against the changed-file budget.
CheckOutcome(w) ==
  /\ At(w, "check")
  /\ seen' = [seen EXCEPT ![w] = actions]
  /\ \/ Propose(w, "BLOCKED_SAFETY", "idle")
     \/ AllSucceeded /\ Goto(w, "seal") /\ UNCHANGED goal
  /\ UNCHANGED <<store, late, mem, token, cur, result, op, observed>>

\* setVerificationSnapshot checks no state and no lease.
Seal(w) ==
  /\ At(w, "seal")
  /\ IF runState = "DELETED"
       THEN Exit(w)
       ELSE /\ sealed' = seen[w]
            /\ Propose(w, "AWAITING_VERIFICATION", "idle")
            /\ UNCHANGED <<runState, actions, lease, late, mem, seen, token, cur, result,
                           op, observed>>

-----------------------------------------------------------------------------
(* The surroundings: crashes, time, the operator and the verifier. *)

Crash(w) == pc[w] # "idle" /\ Exit(w)

LeaseExpires ==
  /\ lease.active
  /\ lease' = [lease EXCEPT !.active = FALSE]
  /\ UNCHANGED <<runState, actions, sealed, late, pc, memory, op, observed>>

DurationExceeded ==
  /\ ~late
  /\ late' = TRUE
  /\ UNCHANGED <<store, pc, memory, op, observed>>

NoOp == [pc |-> "idle", mem |-> "RECEIVED"]

\* cancel(): four separate reads and writes.
CancelRead ==
  /\ op.pc = "idle"
  /\ runState \notin RestingStates \cup {"DELETED"}
  /\ op' = [pc |-> "lease", mem |-> runState]
  /\ UNCHANGED <<store, late, pc, memory, observed>>

CancelCheckLease ==
  /\ op.pc = "lease"
  /\ op' = IF lease.active THEN NoOp ELSE [op EXCEPT !.pc = "actions"]
  /\ UNCHANGED <<store, late, pc, memory, observed>>

CancelCheckActions ==
  /\ op.pc = "actions"
  /\ op' = IF WithState("RUNNING") # {} THEN NoOp ELSE [op EXCEPT !.pc = "commit"]
  /\ UNCHANGED <<store, late, pc, memory, observed>>

CancelCommit ==
  /\ op.pc = "commit"
  /\ op' = NoOp
  /\ runState' = IF runState = op.mem THEN "CANCELLED" ELSE runState
  /\ UNCHANGED <<actions, lease, sealed, late, pc, memory, observed>>

\* deleteRun: one transaction.
DeleteRun ==
  /\ runState \in RestingStates
  /\ ~lease.active
  /\ runState' = "DELETED"
  /\ actions' = BlankTable
  /\ lease' = NoLease
  /\ sealed' = Unsealed
  /\ UNCHANGED <<late, pc, memory, op, observed>>

\* saveAttestation: compare-and-set on AWAITING_VERIFICATION; an uncertain
\* decision leaves the state as it is.
Attest ==
  /\ runState = "AWAITING_VERIFICATION"
  /\ runState' \in {"VERIFIED", "FAILED_SAFE"}
  /\ UNCHANGED <<actions, lease, sealed, late, pc, memory, op, observed>>

-----------------------------------------------------------------------------
Init ==
  /\ runState = "RECEIVED"
  /\ actions = BlankTable
  /\ lease = NoLease
  /\ sealed = Unsealed
  /\ late = FALSE
  /\ pc = [w \in Workers |-> "idle"]
  /\ mem = [w \in Workers |-> "RECEIVED"]
  /\ seen = [w \in Workers |-> BlankTable]
  /\ token = [w \in Workers |-> 0]
  /\ cur = [w \in Workers |-> 1]
  /\ goal = [w \in Workers |-> NoGoal]
  /\ result = [w \in Workers |-> "none"]
  /\ op = NoOp
  /\ launched = [a \in Actions |-> 0]
  /\ settled = {}
  /\ failed = {}

WorkerStep(w) ==
  \/ Acquire(w) \/ Scan(w) \/ MarkAmbiguous(w) \/ RetryFailed(w) \/ Relist(w)
  \/ Open(w) \/ Move(w) \/ Reread(w) \/ Examine(w) \/ StartAction(w) \/ Launch(w)
  \/ ProcessEnds(w) \/ SettleAction(w) \/ Decide(w) \/ Reconcile(w) \/ CheckOutcome(w)
  \/ Seal(w)

Operator ==
  CancelRead \/ CancelCheckLease \/ CancelCheckActions \/ CancelCommit \/ DeleteRun

Next ==
  \/ \E w \in Workers : Resume(w) \/ WorkerStep(w) \/ Heartbeat(w) \/ Crash(w)
  \/ LeaseExpires
  \/ DurationExceeded
  \/ Operator
  \/ Attest

Spec == Init /\ [][Next]_vars

(* A process is not killed at the same step every time; the operator keeps  *)
(* resuming a run that is not at rest; a lease whose owner is gone expires. *)
Fairness ==
  /\ \A w \in Workers : SF_vars(WorkerStep(w))
  /\ WF_vars(\E w \in Workers : Resume(w))
  /\ WF_vars(lease.owner = Departed /\ LeaseExpires)

FairSpec == Spec /\ Fairness

-----------------------------------------------------------------------------
(* Properties. *)

Labels == {"idle", "acquire", "scan", "mark", "retry", "relist", "open", "move", "reread",
           "loop", "start", "launch", "run", "settle", "decide", "check", "seal"}
Goals == [to : RunStates,
          next : {"idle", "relist", "open", "loop", "start", "check"}]

\* Every variable has its type: the rows of the store and what resume() and
\* cancel() keep in memory between two store calls.
TypeOK ==
  /\ runState \in RunStates
  /\ actions \in [Actions -> ActionRow]
  /\ lease \in [owner : Workers \cup {Departed}, token : Nat, active : BOOLEAN]
  /\ sealed \in [Actions -> ActionRow] \cup {Unsealed}
  /\ late \in BOOLEAN
  /\ pc \in [Workers -> Labels]
  /\ mem \in [Workers -> RunStates]
  /\ seen \in [Workers -> [Actions -> ActionRow]]
  /\ token \in [Workers -> Nat]
  /\ cur \in [Workers -> Nat]
  /\ goal \in [Workers -> Goals]
  /\ result \in [Workers -> {"none", "succeeded", "failed", "unavailable", "errored"}]
  /\ op \in [pc : {"idle", "lease", "actions", "commit"}, mem : RunStates]
  /\ launched \in [Actions -> Nat]
  /\ settled \subseteq Actions
  /\ failed \subseteq Actions

\* An effect is never launched twice, whatever workers crash, lose their
\* lease or retry: startAction, settleAction and retryFailedAction together.
\* A child that cannot be killed leaves an errorCode although it was started,
\* and is not spoken of: controller.ts:118 takes it for one that was not.
EffectsNotReplayed == \A a \in Actions \ Unkillable : launched[a] <= 1

\* At most one process is between recording an intent and settling it, even
\* when a lease lapses under a running child and another worker takes over.
Executing == {w \in Workers : pc[w] \in {"launch", "run", "settle"}}
SoleExecutor == \A v, w \in Executing : v = w

\* The loop may go past a: it settled SUCCEEDED, or its row was marked AMBIGUOUS
\* after its failure was settled.
Passed(a) == a \in settled \/ (a \in failed /\ actions[a].state = "AMBIGUOUS")

Ready(b) == DependsOn[b] \subseteq settled /\ \A a \in Actions : a < b => Passed(a)

\* Effects happen in the order of the objective: an action leaves PENDING only
\* after every action it depends on settled SUCCEEDED and every earlier one was
\* settled, SUCCEEDED save for one case: a worker without the lease marks a row
\* AMBIGUOUS (store.ts:782) between the settlement of its failure (store.ts:737)
\* and the list the holder decides on (store.ts:745), so that controller.ts:222
\* does not see the failure.
EffectsInOrder == \A b \in Actions : actions[b].state # "PENDING" => Ready(b)

\* Every row of the table t had succeeded, and is still in the store.
StandsFor(t) ==
  \A a \in Actions :
    /\ t[a].state = "SUCCEEDED"
    /\ actions[a] \in {t[a], [t[a] EXCEPT !.state = "AMBIGUOUS"]}

\* The sealed snapshot digests a table in which every action had succeeded,
\* and the rows of the store still are those rows, save for a row that a
\* worker without the lease has marked AMBIGUOUS since.
SealedIsSuccess == sealed # Unsealed => StandsFor(sealed)

\* No sequence of crashes and capability retries starts an action more often
\* than its attempt budget.
AttemptBudget == \A a \in Actions : actions[a].attempts <= MaxAttempts

\* An ambiguous effect is never settled, retried or started again by anyone.
AmbiguousIsFinal ==
  [][\A a \in WithState("AMBIGUOUS") :
       actions'[a] = actions[a] \/ runState' = "DELETED"]_vars

\* A run that keeps being resumed comes to rest, through any number of
\* crashes, unless a crash left the failure of one of its actions unreported
\* (resume() returns when it finds one, controller.ts:134) or the model ran out
\* of fencing tokens.
RunComesToRest ==
  <>(\/ runState \in RestingStates \cup {"DELETED"}
     \/ \E a \in Actions : actions[a].state \in FailedStates
     \/ lease.token = MaxToken)

=============================================================================
