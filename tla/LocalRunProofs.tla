--------------------------- MODULE LocalRunProofs ---------------------------
(* Theorems about LocalRun, for every number of workers and actions, every  *)
(* order of kinds and dependencies, every budget.                           *)
EXTENDS LocalRun, TLAPS, WellFoundedInduction

-----------------------------------------------------------------------------
(* The least element of a set of naturals. *)

\* Min, which picks the action a list operation finds first, returns the least
\* member of every nonempty set of naturals.
LEMMA MinIsLeast ==
  ASSUME NEW S \in SUBSET Nat, S # {}
  PROVE  Min(S) \in S /\ \A y \in S : Min(S) <= y
<1> DEFINE Less == OpToRel(<, Nat)
<1>1. Less = {ss \in Nat \X Nat : ss[1] < ss[2]}
  BY DEF OpToRel
<1>2. IsWellFoundedOn(Less, Nat)
  BY NatLessThanWellFounded
<1> HIDE DEF Less
<1>3. PICK x \in S : \A y \in S : ~ (<<y, x>> \in Less)
  BY <1>2, WFMin
<1>4. \A y \in S : x <= y
  <2>1. ASSUME NEW y \in S, y < x PROVE FALSE
    <3>1. <<y, x>> \in Less
      BY <1>1, <2>1
    <3> QED
      BY <1>3, <3>1
  <2> QED
    BY <2>1
<1> QED
  BY <1>4 DEF Min

-----------------------------------------------------------------------------
(* The inductive invariant, part by part.                                  *)

\* Where a worker is, or goes once its pending transition is written.
Site(w) == IF pc[w] \in {"move", "reread"} THEN goal[w].next ELSE pc[w]

\* A worker that is about to write an action's row is at an action.
AtAction ==
  \A w \in Workers :
    Site(w) \in {"mark", "retry", "start", "launch", "run", "settle", "decide"} =>
      cur[w] \in Actions

Fresh(w) == lease.owner = w /\ lease.token = token[w]

\* A deleted run stays deleted: nobody remembers DELETED as a state to move
\* from, and its lease row is gone.
DeletedForGood ==
  /\ runState = "DELETED" => lease = NoLease /\ sealed = Unsealed
  /\ \A w \in Workers : mem[w] # "DELETED" /\ goal[w].to # "DELETED"
  /\ op.mem # "DELETED"

\* A token in memory was issued by the store.
TokensIssued == runState # "DELETED" => \A w \in Workers : token[w] <= lease.token

\* A worker that has not entered the loop starts it at the first action.
AtFirst(w) ==
  /\ pc[w] \in {"idle", "acquire", "scan"} \/ Site(w) \in {"relist", "open"} => cur[w] = 1
  /\ pc[w] = "reread" => goal[w].next # "idle"

StartAtFirst == \A w \in Workers : AtFirst(w)

\* What has settled is never taken for anything else in the store...
RowsInOrder ==
  /\ EffectsInOrder
  /\ \A a \in Actions :
       /\ actions[a].state = "SUCCEEDED" => a \in settled
       /\ a \in settled => runState = "DELETED" \/ actions[a].state \in {"SUCCEEDED", "AMBIGUOUS"}
       /\ a \in failed => runState = "DELETED" \/ actions[a].state \in FailedStates \cup {"AMBIGUOUS"}

\* ... or in memory, and a worker only comes to actions whose time has come:
\* before it recorded an intent, as long as its lease is the latest one.
InOrder(w) ==
  /\ \A a \in Actions : seen[w][a].state = "SUCCEEDED" => a \in settled
  /\ Site(w) = "loop" /\ Fresh(w) => \A a \in Actions : a < cur[w] => Passed(a)
  /\ Site(w) = "start" /\ Fresh(w) => Ready(cur[w])
  /\ pc[w] = "decide" /\ Fresh(w) => cur[w] \in settled \cup failed
  /\ Site(w) \in {"mark", "launch", "run", "settle", "decide"} =>
       runState = "DELETED" \/ Ready(cur[w])

WorkersInOrder == \A w \in Workers : InOrder(w)

\* The action in execution has not settled, and its row says RUNNING unless
\* another worker found it interrupted.
Execution ==
  /\ SoleExecutor
  /\ \A w \in Executing :
       /\ cur[w] \notin settled \cup failed
       /\ runState = "DELETED" \/ actions[cur[w]].state \in {"RUNNING", "AMBIGUOUS"}

\* Nothing was launched for an action that may be started again.
Launchable(a) ==
  \/ a \in Unkillable \/ runState = "DELETED"
  \/ actions[a].state \in {"PENDING", "UNAVAILABLE", "ERRORED"} => launched[a] = 0

Unlaunched(w) ==
  /\ \/ pc[w] = "launch"
     \/ pc[w] = "settle" /\ result[w] \in {"unavailable", "errored"}
     => cur[w] \in Unkillable \/ launched[cur[w]] = 0
  /\ pc[w] = "retry" /\ Fresh(w) =>
       actions[cur[w]].state \in {"UNAVAILABLE", "ERRORED", "AMBIGUOUS"}

Launches ==
  /\ EffectsNotReplayed
  /\ \A a \in Actions : Launchable(a)
  /\ \A w \in Workers : Unlaunched(w)

\* The attempts a worker compares with the budget are those of the store, as
\* long as it holds the lease it listed the actions under.
WithinBudget(w) ==
  /\ Site(w) = "start" => seen[w][cur[w]].attempts < MaxAttempts
  /\ Fresh(w) /\ Site(w) \in {"open", "loop", "start"} =>
       \A a \in Actions : a >= cur[w] => actions[a].attempts = seen[w][a].attempts
  /\ Fresh(w) /\ Site(w) \in {"launch", "run", "settle", "decide"} =>
       \A a \in Actions : a > cur[w] => actions[a].attempts = seen[w][a].attempts

Budget == AttemptBudget /\ \A w \in Workers : WithinBudget(w)

\* The table about to be sealed is as good as the sealed one.
Sealing ==
  /\ SealedIsSuccess
  /\ \A w \in Workers : pc[w] = "seal" => runState = "DELETED" \/ StandsFor(seen[w])

IInv ==
  /\ TypeOK /\ AtAction /\ DeletedForGood /\ TokensIssued /\ StartAtFirst
  /\ RowsInOrder /\ WorkersInOrder /\ Execution /\ Launches /\ Budget /\ Sealing

\* A freshly created run is well typed and no worker is at an action.
LEMMA TypeInit == Init => TypeOK /\ AtAction
<1> SUFFICES ASSUME Init PROVE TypeOK /\ AtAction
  OBVIOUS
<1> USE DEF Init
<1>1. runState \in RunStates /\ actions \in [Actions -> ActionRow] /\ sealed = Unsealed
  BY DEF RunStates, ResumableStates, BlankTable, ActionRow, ActionStates
<1>2. lease \in [owner : Workers \cup {Departed}, token : Nat, active : BOOLEAN]
  BY DEF NoLease
<1>3. op \in [pc : {"idle", "lease", "actions", "commit"}, mem : RunStates]
  BY DEF NoOp, RunStates, ResumableStates
<1>4. /\ pc \in [Workers -> Labels]
      /\ mem \in [Workers -> RunStates]
      /\ seen \in [Workers -> [Actions -> ActionRow]]
      /\ goal \in [Workers -> Goals]
  BY DEF Labels, RunStates, ResumableStates, BlankTable, ActionRow, ActionStates, Goals, NoGoal
<1>5. AtAction
  BY DEF AtAction, Site
<1> QED
  BY <1>1, <1>2, <1>3, <1>4, <1>5 DEF TypeOK

\* The worker's memory, and what the store and the operator hold.
MemoryOK ==
  /\ pc \in [Workers -> Labels]
  /\ mem \in [Workers -> RunStates]
  /\ seen \in [Workers -> [Actions -> ActionRow]]
  /\ token \in [Workers -> Nat]
  /\ cur \in [Workers -> Nat]
  /\ goal \in [Workers -> Goals]
  /\ result \in [Workers -> {"none", "succeeded", "failed", "unavailable", "errored"}]

StoreOK ==
  /\ runState \in RunStates
  /\ actions \in [Actions -> ActionRow]
  /\ lease \in [owner : Workers \cup {Departed}, token : Nat, active : BOOLEAN]
  /\ sealed \in [Actions -> ActionRow] \cup {Unsealed}
  /\ late \in BOOLEAN
  /\ op \in [pc : {"idle", "lease", "actions", "commit"}, mem : RunStates]
  /\ launched \in [Actions -> Nat]
  /\ settled \subseteq Actions
  /\ failed \subseteq Actions

\* The states the code names are states of a run.
LEMMA States ==
  /\ "DELETED" \in RunStates /\ ResumableStates \subseteq RunStates /\ RestingStates \subseteq RunStates
  /\ {"RECEIVED", "ADMITTED", "RECONCILING", "BLOCKED_CAPABILITY", "EXECUTING", "VALIDATING",
       "PUBLISHING"} \subseteq RunStates
  /\ {"BLOCKED_SAFETY", "BLOCKED_AUTHORITY", "FAILED_SAFE", "AMBIGUOUS_EFFECT", "CANCELLED",
       "AWAITING_VERIFICATION", "VERIFIED"} \subseteq RunStates
BY DEF RunStates, ResumableStates, PhaseStates, RestingStates, TerminalStates

\* What the steps of every worker are made of.
LEMMA GotoTyped ==
  ASSUME MemoryOK, NEW w \in Workers, NEW label \in Labels, Goto(w, label)
  PROVE  pc' \in [Workers -> Labels]
BY DEF Goto, MemoryOK

\* Remembering a transition to write keeps the memory of the workers typed.
LEMMA ProposeTyped ==
  ASSUME MemoryOK, NEW w \in Workers, NEW to \in RunStates,
         NEW next \in {"idle", "relist", "open", "loop", "start", "check"}, Propose(w, to, next)
  PROVE  goal' \in [Workers -> Goals] /\ pc' \in [Workers -> Labels]
<1>1. [to |-> to, next |-> next] \in Goals /\ "move" \in Labels
  BY DEF Goals, Labels
<1> QED
  BY <1>1, GotoTyped DEF Propose, MemoryOK

\* A process that ends leaves typed memory behind.
LEMMA GoneTyped ==
  ASSUME MemoryOK, NEW w \in Workers, Gone(w)
  PROVE  MemoryOK'
<1>1. BlankTable \in [Actions -> ActionRow]
  BY DEF BlankTable, ActionRow, ActionStates
<1>2. NoGoal \in Goals /\ "RECEIVED" \in RunStates /\ "idle" \in Labels
  BY States DEF NoGoal, Goals, Labels
<1> QED
  BY <1>1, <1>2, GotoTyped DEF Gone, MemoryOK

\* What acquireLease and an ending process write is a lease row.
LEMMA LeaseTyped ==
  ASSUME StoreOK, MemoryOK, NEW w \in Workers
  PROVE  /\ Orphaned(w) \in [owner : Workers \cup {Departed}, token : Nat, active : BOOLEAN]
         /\ Acquired(w) \in [owner : Workers \cup {Departed}, token : Nat, active : BOOLEAN]
BY DEF Orphaned, Acquired, StoreOK

\* Changing the state of one action row keeps the table typed.
LEMMA SetActionTyped ==
  ASSUME StoreOK, NEW a, NEW s \in ActionStates, SetAction(a, s)
  PROVE  actions' \in [Actions -> ActionRow]
BY DEF SetAction, StoreOK, ActionRow

\* A return or an exception of resume() changes no type.
LEMMA ExitTyped ==
  ASSUME StoreOK, MemoryOK, NEW w \in Workers, Exit(w)
  PROVE  StoreOK' /\ MemoryOK'
BY GoneTyped, LeaseTyped DEF Exit, StoreOK, observed

\* The first interrupted, retryable or unfinished action is such an action.
LEMMA LeastTyped ==
  /\ Actions \subseteq Nat
  /\ \A s : WithState(s) # {} =>
       Min(WithState(s)) \in Actions /\ actions[Min(WithState(s))].state = s
  /\ Retryable # {} =>
       Min(Retryable) \in Actions /\ actions[Min(Retryable)].state \in {"UNAVAILABLE", "ERRORED"}
  /\ \A w : Unfinished(w) # {} =>
       /\ Min(Unfinished(w)) \in Actions
       /\ Min(Unfinished(w)) \in Unfinished(w)
       /\ \A a \in Unfinished(w) : Min(Unfinished(w)) <= a
BY MinIsLeast, ActionsAssumption DEF Actions, WithState, Retryable, Unfinished

\* Ordinals are natural numbers.
LEMMA ActionsAreNat == \A a \in Actions : a \in Nat
BY ActionsAssumption DEF Actions

\* Every step of a worker, the operator, the verifier or time keeps the types.
LEMMA TypeStep ==
  ASSUME StoreOK, MemoryOK, AtAction, [Next]_vars
  PROVE  StoreOK' /\ MemoryOK'
<1> USE DEF At, store, memory, observed
<1>1. {"idle", "acquire", "scan", "mark", "retry", "relist", "open", "move", "reread", "loop",
       "start", "launch", "run", "settle", "decide", "check", "seal"} \subseteq Labels
  BY DEF Labels
<1>2. CASE UNCHANGED vars
  BY <1>2 DEF vars, StoreOK, MemoryOK
<1>3. ASSUME NEW w \in Workers, Resume(w) PROVE StoreOK' /\ MemoryOK'
  BY <1>1, <1>3, States, ProposeTyped, GotoTyped DEF Resume, StoreOK, MemoryOK
<1>4. ASSUME NEW w \in Workers, Acquire(w) PROVE StoreOK' /\ MemoryOK'
  <2>1. CASE Exit(w)
    BY <2>1, ExitTyped
  <2>2. CASE ~ Exit(w)
    <3>1. /\ lease' = Acquired(w)
          /\ token' = [token EXCEPT ![w] = Acquired(w).token]
          /\ Goto(w, "scan")
          /\ UNCHANGED <<runState, actions, sealed, late, mem, seen, cur, goal, result, op,
                         launched, settled, failed>>
      BY <1>4, <2>2 DEF Acquire
    <3>2. pc' \in [Workers -> Labels]
      BY <1>1, <3>1, GotoTyped
    <3>3. /\ lease' \in [owner : Workers \cup {Departed}, token : Nat, active : BOOLEAN]
          /\ token' \in [Workers -> Nat]
      BY <3>1, LeaseTyped DEF MemoryOK
    <3> QED
      BY <3>1, <3>2, <3>3 DEF StoreOK, MemoryOK
  <2> QED
    BY <2>1, <2>2
<1>5. ASSUME NEW w \in Workers, Scan(w) PROVE StoreOK' /\ MemoryOK'
  <2>1. CASE Exit(w)
    BY <2>1, ExitTyped
  <2>2. CASE ~ Exit(w)
    <3>1. cur' \in [Workers -> Nat]
      <4>1. \/ cur' = cur
            \/ /\ WithState("RUNNING") # {}
               /\ cur' = [cur EXCEPT ![w] = Min(WithState("RUNNING"))]
            \/ Retryable # {} /\ cur' = [cur EXCEPT ![w] = Min(Retryable)]
        BY <1>5, <2>2 DEF Scan
      <4>2. /\ WithState("RUNNING") # {} => Min(WithState("RUNNING")) \in Nat
            /\ Retryable # {} => Min(Retryable) \in Nat
        BY LeastTyped
      <4>3. ASSUME NEW n \in Nat, cur' = [cur EXCEPT ![w] = n] PROVE cur' \in [Workers -> Nat]
        BY <4>3 DEF MemoryOK
      <4>4. cur \in [Workers -> Nat]
        BY DEF MemoryOK
      <4> QED
        BY <4>1, <4>2, <4>3, <4>4
    <3>2. pc' \in [Workers -> Labels]
      BY <1>1, <1>5, <2>2, GotoTyped DEF Scan
    <3>3. seen' \in [Workers -> [Actions -> ActionRow]]
      BY <1>5, <2>2 DEF Scan, StoreOK, MemoryOK
    <3> QED
      BY <1>5, <2>2, <3>1, <3>2, <3>3 DEF Scan, StoreOK, MemoryOK
  <2> QED
    BY <2>1, <2>2
<1>6. ASSUME NEW w \in Workers, MarkAmbiguous(w) PROVE StoreOK' /\ MemoryOK'
  BY <1>6, States, SetActionTyped, ExitTyped, GoneTyped, LeaseTyped
     DEF MarkAmbiguous, StoreOK, ActionStates
<1>7. ASSUME NEW w \in Workers, RetryFailed(w) PROVE StoreOK' /\ MemoryOK'
  <2>1. CASE Exit(w)
    BY <2>1, ExitTyped
  <2>2. CASE ~ Exit(w)
    <3>1. actions' \in [Actions -> ActionRow]
      BY <1>7, <2>2, SetActionTyped DEF RetryFailed, ActionStates
    <3>2. goal' \in [Workers -> Goals] /\ pc' \in [Workers -> Labels]
      BY <1>7, <2>2, States, ProposeTyped DEF RetryFailed
    <3> QED
      BY SMTT(30), <1>7, <2>2, <3>1, <3>2 DEF RetryFailed, StoreOK, MemoryOK
  <2> QED
    BY <2>1, <2>2
<1>8. ASSUME NEW w \in Workers, Relist(w) PROVE StoreOK' /\ MemoryOK'
  BY <1>1, <1>8, GotoTyped DEF Relist, StoreOK, MemoryOK
<1>9. ASSUME NEW w \in Workers, Open(w) PROVE StoreOK' /\ MemoryOK'
  BY <1>1, <1>9, States, GotoTyped, ProposeTyped DEF Open, StoreOK, MemoryOK
<1>10. ASSUME NEW w \in Workers, Move(w) PROVE StoreOK' /\ MemoryOK'
  BY <1>1, <1>10, GotoTyped, GoneTyped, LeaseTyped, ExitTyped DEF Move, StoreOK, MemoryOK, Goals
<1>11. ASSUME NEW w \in Workers, Reread(w) PROVE StoreOK' /\ MemoryOK'
  <2>1. CASE Exit(w)
    BY <2>1, ExitTyped
  <2>2. CASE ~ Exit(w)
    <3>1. NoGoal \in Goals /\ goal[w].next \in Labels
      BY <1>1, States DEF NoGoal, Goals, MemoryOK
    <3>2. pc' \in [Workers -> Labels]
      BY <1>11, <2>2, <3>1, GotoTyped DEF Reread
    <3>3. mem' \in [Workers -> RunStates]
      BY <1>11, <2>2, States DEF Reread, StoreOK, MemoryOK
    <3>4. UNCHANGED <<store, late, seen, token, cur, result, op, observed>>
      BY <1>11, <2>2 DEF Reread
    <3>5. goal' \in [Workers -> Goals]
      BY <1>11, <2>2, <3>1 DEF Reread, MemoryOK
    <3>6. StoreOK'
      BY <3>4 DEF StoreOK
    <3> QED
      BY <3>2, <3>3, <3>4, <3>5, <3>6 DEF MemoryOK
  <2> QED
    BY <2>1, <2>2
<1>12. ASSUME NEW w \in Workers, Examine(w) PROVE StoreOK' /\ MemoryOK'
  <2>1. CASE Exit(w)
    BY <2>1, ExitTyped
  <2>2. CASE ~ Exit(w)
    <3> DEFINE a == Min(Unfinished(w))
    <3>1. cur' = [cur EXCEPT ![w] = a] /\ a \in Nat
      <4>1. Unfinished(w) # {} /\ cur' = [cur EXCEPT ![w] = a]
        BY <1>12, <2>2 DEF Examine
      <4> QED
        BY <4>1, LeastTyped
    <3>2. PhaseFor(a) \in RunStates
      BY States DEF PhaseFor
    <3>3. \A workspace, expired :
            LET refusal == Refusal(a, seen[w][a].attempts, workspace, expired)
            IN  refusal \in RunStates \cup {"none"}
      BY States DEF Refusal
    <3>4. goal' \in [Workers -> Goals] /\ pc' \in [Workers -> Labels]
      BY <1>1, <1>12, <2>2, <3>2, <3>3, GotoTyped, ProposeTyped DEF Examine, MemoryOK
    <3> QED
      BY <1>12, <2>2, <3>1, <3>4 DEF Examine, StoreOK, MemoryOK
  <2> QED
    BY <2>1, <2>2
<1>13. ASSUME NEW w \in Workers, StartAction(w) PROVE StoreOK' /\ MemoryOK'
  <2>1. CASE Exit(w)
    BY <2>1, ExitTyped
  <2>2. CASE ~ Exit(w)
    <3>1. actions' \in [Actions -> ActionRow]
      BY <1>13, <2>2 DEF StartAction, StoreOK, ActionRow, ActionStates
    <3> QED
      BY <1>1, <1>13, <2>2, <3>1, GotoTyped DEF StartAction, StoreOK, MemoryOK
  <2> QED
    BY <2>1, <2>2
<1>14. ASSUME NEW w \in Workers, Launch(w) PROVE StoreOK' /\ MemoryOK'
  <2>1. pc' \in [Workers -> Labels]
    BY <1>1, <1>14, GotoTyped DEF Launch
  <2>2. launched' \in [Actions -> Nat]
    BY <1>14 DEF Launch, StoreOK
  <2>3. result' \in [Workers -> {"none", "succeeded", "failed", "unavailable", "errored"}]
    BY <1>14 DEF Launch, MemoryOK
  <2> QED
    BY <1>14, <2>1, <2>2, <2>3 DEF Launch, StoreOK, MemoryOK
<1>15. ASSUME NEW w \in Workers, ProcessEnds(w) PROVE StoreOK' /\ MemoryOK'
  BY <1>1, <1>15, GotoTyped DEF ProcessEnds, StoreOK, MemoryOK
<1>16. ASSUME NEW w \in Workers, Heartbeat(w) PROVE StoreOK' /\ MemoryOK'
  BY <1>16, LeaseTyped DEF Heartbeat, StoreOK, MemoryOK
<1>17. ASSUME NEW w \in Workers, SettleAction(w) PROVE StoreOK' /\ MemoryOK'
  <2>1. CASE Exit(w)
    BY <2>1, ExitTyped
  <2>2. CASE ~ Exit(w)
    <3>1. actions' \in [Actions -> ActionRow]
      <4>1. SettledState(result[w]) \in ActionStates
        BY DEF SettledState, ActionStates
      <4> QED
        BY <1>17, <2>2, <4>1, SetActionTyped DEF SettleAction
    <3>2. settled' \subseteq Actions /\ failed' \subseteq Actions
      BY <1>17, <2>2 DEF SettleAction, StoreOK, AtAction, Site
    <3>3. pc' \in [Workers -> Labels]
      BY <1>1, <1>17, <2>2, GotoTyped DEF SettleAction
    <3> QED
      BY <1>17, <2>2, <3>1, <3>2, <3>3 DEF SettleAction, StoreOK, MemoryOK
  <2> QED
    BY <2>1, <2>2
<1>18. ASSUME NEW w \in Workers, Reconcile(w) PROVE StoreOK' /\ MemoryOK'
  <2>1. CASE Exit(w)
    BY <2>1, ExitTyped
  <2>2. CASE ~ Exit(w)
    <3>1. goal' \in [Workers -> Goals] /\ pc' \in [Workers -> Labels]
      BY <1>1, <1>18, <2>2, States, GotoTyped, ProposeTyped DEF Reconcile, MemoryOK
    <3> QED
      <4>1. mem' \in [Workers -> RunStates]
        BY <1>18, <2>2 DEF Reconcile, StoreOK, MemoryOK
      <4> QED
        BY <1>18, <2>2, <3>1, <4>1 DEF Reconcile, StoreOK, MemoryOK
  <2> QED
    BY <2>1, <2>2
<1>19. ASSUME NEW w \in Workers, CheckOutcome(w) PROVE StoreOK' /\ MemoryOK'
  BY <1>1, <1>19, States, GotoTyped, ProposeTyped DEF CheckOutcome, StoreOK, MemoryOK
<1>20. ASSUME NEW w \in Workers, Seal(w) PROVE StoreOK' /\ MemoryOK'
  BY <1>20, States, ExitTyped, ProposeTyped DEF Seal, StoreOK, MemoryOK
<1>21. ASSUME NEW w \in Workers, Crash(w) PROVE StoreOK' /\ MemoryOK'
  BY <1>21, ExitTyped DEF Crash
<1>22. CASE LeaseExpires \/ DurationExceeded
  BY <1>22 DEF LeaseExpires, DurationExceeded, StoreOK, MemoryOK
<1>23. CASE Operator
  <2>1. CASE CancelRead \/ CancelCheckLease \/ CancelCheckActions \/ CancelCommit
    <3>1. NoOp \in [pc : {"idle", "lease", "actions", "commit"}, mem : RunStates]
      BY States DEF NoOp
    <3>2. op' \in [pc : {"idle", "lease", "actions", "commit"}, mem : RunStates]
      BY <2>1, <3>1 DEF CancelRead, CancelCheckLease, CancelCheckActions, CancelCommit, StoreOK
    <3> QED
      BY <2>1, <3>2, States
         DEF CancelRead, CancelCheckLease, CancelCheckActions, CancelCommit, StoreOK, MemoryOK
  <2>2. CASE DeleteRun
    <3>1. BlankTable \in [Actions -> ActionRow]
      BY DEF BlankTable, ActionRow, ActionStates
    <3>2. NoLease \in [owner : Workers \cup {Departed}, token : Nat, active : BOOLEAN]
      BY DEF NoLease
    <3> QED
      BY <2>2, <3>1, <3>2, States DEF DeleteRun, StoreOK, MemoryOK
  <2> QED
    BY <1>23, <2>1, <2>2 DEF Operator
<1>24. CASE Attest
  BY <1>24, States DEF Attest, StoreOK, MemoryOK
<1>25. ASSUME NEW w \in Workers, Decide(w) PROVE StoreOK' /\ MemoryOK'
  <2>1. CASE Exit(w)
    BY <2>1, ExitTyped
  <2>2. CASE ~ Exit(w)
    <3>1. cur' \in [Workers -> Nat]
      BY <1>25, <2>2 DEF Decide, MemoryOK
    <3>2. \A t : StopState(t) \in RunStates
      BY States DEF StopState
    <3>3. goal' \in [Workers -> Goals] /\ pc' \in [Workers -> Labels]
      BY <1>1, <1>25, <2>2, <3>2, GotoTyped, ProposeTyped DEF Decide, MemoryOK
    <3> QED
      BY <1>25, <2>2, <3>1, <3>3 DEF Decide, StoreOK, MemoryOK
  <2> QED
    BY <2>1, <2>2
<1> QED
  BY <1>2, <1>3, <1>4, <1>5, <1>6, <1>7, <1>8, <1>9, <1>10, <1>11, <1>12, <1>13, <1>14, <1>15,
     <1>16, <1>17, <1>18, <1>19, <1>20, <1>21, <1>22, <1>23, <1>24, <1>25 DEF Next, WorkerStep

\* Every step keeps workers that are about to write a row at an action.
LEMMA AtActionStep ==
  ASSUME StoreOK, MemoryOK, AtAction, [Next]_vars
  PROVE  AtAction'
<1> USE DEF At, Goto, Propose, Gone, Exit, NoGoal, store, memory, observed, AtAction, Site, MemoryOK
<1>1. ASSUME NEW w \in Workers, Exit(w) PROVE AtAction'
  BY <1>1
<1>2. CASE UNCHANGED vars
  BY <1>2 DEF vars
<1>3. ASSUME NEW w \in Workers, Resume(w) PROVE AtAction'
  BY <1>3 DEF Resume
<1>4. ASSUME NEW w \in Workers, Acquire(w) PROVE AtAction'
  BY <1>1, <1>4 DEF Acquire
<1>5. ASSUME NEW w \in Workers, Scan(w) PROVE AtAction'
  BY <1>1, <1>5, LeastTyped DEF Scan
<1>6. ASSUME NEW w \in Workers, MarkAmbiguous(w) PROVE AtAction'
  BY <1>1, <1>6 DEF MarkAmbiguous
<1>7. ASSUME NEW w \in Workers, RetryFailed(w) PROVE AtAction'
  BY <1>1, <1>7 DEF RetryFailed
<1>8. ASSUME NEW w \in Workers, Relist(w) PROVE AtAction'
  BY <1>8 DEF Relist
<1>9. ASSUME NEW w \in Workers, Open(w) PROVE AtAction'
  BY <1>9 DEF Open
<1>10. ASSUME NEW w \in Workers, Move(w) PROVE AtAction'
  BY <1>1, <1>10 DEF Move
<1>11. ASSUME NEW w \in Workers, Reread(w) PROVE AtAction'
  BY <1>1, <1>11 DEF Reread, Goals
<1>12. ASSUME NEW w \in Workers, Examine(w) PROVE AtAction'
  BY <1>1, <1>12, LeastTyped DEF Examine
<1>13. ASSUME NEW w \in Workers, StartAction(w) PROVE AtAction'
  BY <1>1, <1>13 DEF StartAction
<1>14. ASSUME NEW w \in Workers, Launch(w) PROVE AtAction'
  BY <1>14 DEF Launch
<1>15. ASSUME NEW w \in Workers, ProcessEnds(w) PROVE AtAction'
  BY <1>15 DEF ProcessEnds
<1>16. ASSUME NEW w \in Workers, Heartbeat(w) PROVE AtAction'
  BY <1>16 DEF Heartbeat
<1>17. ASSUME NEW w \in Workers, SettleAction(w) PROVE AtAction'
  BY SMTT(30), <1>1, <1>17 DEF SettleAction
<1>18. ASSUME NEW w \in Workers, Reconcile(w) PROVE AtAction'
  <2>1. CASE Exit(w)
    BY <1>1, <2>1
  <2>2. CASE ~ Exit(w)
    <3>1. cur' = cur /\ \A u \in Workers : u # w => pc'[u] = pc[u] /\ goal'[u] = goal[u]
      BY <1>18, <2>2 DEF Reconcile
    <3>2. pc'[w] = "check" \/ (pc'[w] = "move" /\ goal'[w].next = "check")
      BY <1>18, <2>2 DEF Reconcile
    <3> QED
      BY <3>1, <3>2
  <2> QED
    BY <2>1, <2>2
<1>19. ASSUME NEW w \in Workers, CheckOutcome(w) PROVE AtAction'
  <2>1. cur' = cur /\ \A u \in Workers : u # w => pc'[u] = pc[u] /\ goal'[u] = goal[u]
    BY <1>19 DEF CheckOutcome
  <2>2. pc'[w] = "seal" \/ (pc'[w] = "move" /\ goal'[w].next = "idle")
    BY <1>19 DEF CheckOutcome
  <2> QED
    BY <2>1, <2>2
<1>20. ASSUME NEW w \in Workers, Seal(w) PROVE AtAction'
  BY SMTT(30), <1>1, <1>20 DEF Seal
<1>21. ASSUME NEW w \in Workers, Crash(w) PROVE AtAction'
  BY <1>1, <1>21 DEF Crash
<1>22. CASE LeaseExpires \/ DurationExceeded \/ Operator \/ Attest
  BY <1>22 DEF LeaseExpires, DurationExceeded, Operator, CancelRead, CancelCheckLease,
               CancelCheckActions, CancelCommit, DeleteRun, Attest
<1>23. ASSUME NEW w \in Workers, Decide(w) PROVE AtAction'
  BY <1>1, <1>23 DEF Decide
<1> QED
  BY <1>2, <1>3, <1>4, <1>5, <1>6, <1>7, <1>8, <1>9, <1>10, <1>11, <1>12, <1>13, <1>14, <1>15,
     <1>16, <1>17, <1>18, <1>19, <1>20, <1>21, <1>22, <1>23 DEF Next, WorkerStep

\* The fields of an empty goal.
LEMMA NoGoalFields == NoGoal.to = "RECEIVED" /\ NoGoal.next = "idle"
BY DEF NoGoal

\* A lease without a worker, and one that is gone, are nobody's to leave behind.
LEMMA OrphanedFields ==
  ASSUME StoreOK, NEW w \in Workers
  PROVE  /\ Orphaned(w).token = lease.token
         /\ Orphaned(w).owner # w
         /\ \A u \in Workers : u # w => (Orphaned(w).owner = u <=> lease.owner = u)
         /\ lease = NoLease => Orphaned(w) = NoLease
<1>1. CASE lease.owner = w
  BY <1>1, WorkersAssumption DEF Orphaned, NoLease, StoreOK
<1>2. CASE lease.owner # w
  BY <1>2 DEF Orphaned
<1> QED
  BY <1>1, <1>2

\* Neither a gate nor a phase deletes a run.
LEMMA RefusalStates ==
  ASSUME NEW a, NEW attempts, NEW workspace, NEW expired
  PROVE  /\ Refusal(a, attempts, workspace, expired) # "DELETED"
         /\ PhaseFor(a) # "DELETED"
BY DEF Refusal, PhaseFor

\* No step brings a deleted run back.
LEMMA DeletedForGoodStep ==
  ASSUME StoreOK, MemoryOK, DeletedForGood, [Next]_vars
  PROVE  DeletedForGood'
<1> USE DEF At, store, memory, observed, MemoryOK, DeletedForGood
<1>1. ASSUME NEW w \in Workers, Exit(w) PROVE DeletedForGood'
  BY <1>1, NoGoalFields, OrphanedFields DEF Exit, Gone, Goto
<1>2. CASE UNCHANGED vars
  BY <1>2 DEF vars
<1>3. ASSUME NEW w \in Workers, Resume(w) PROVE DeletedForGood'
  BY <1>3 DEF Resume, Propose, Goto, ResumableStates, PhaseStates
<1>4. ASSUME NEW w \in Workers, Acquire(w) PROVE DeletedForGood'
  <2>1. CASE Exit(w)
    BY <1>1, <2>1
  <2>2. CASE ~ Exit(w)
    BY <1>4, <2>2, WorkersAssumption DEF Acquire, Goto, Acquired
  <2> QED
    BY <2>1, <2>2
<1>5. ASSUME NEW w \in Workers, Scan(w) PROVE DeletedForGood'
  <2>1. CASE Exit(w)
    BY <1>1, <2>1
  <2>2. CASE ~ Exit(w)
    BY <1>5, <2>2 DEF Scan, Goto
  <2> QED
    BY <2>1, <2>2
<1>6. ASSUME NEW w \in Workers, MarkAmbiguous(w) PROVE DeletedForGood'
  <2>1. CASE Exit(w)
    BY <1>1, <2>1
  <2>2. CASE ~ Exit(w)
    BY <1>6, <2>2, NoGoalFields DEF MarkAmbiguous, Gone, Goto
  <2> QED
    BY <2>1, <2>2
<1>7. ASSUME NEW w \in Workers, RetryFailed(w) PROVE DeletedForGood'
  <2>1. CASE Exit(w)
    BY <1>1, <2>1
  <2>2. CASE ~ Exit(w)
    BY <1>7, <2>2 DEF RetryFailed, Propose, Goto
  <2> QED
    BY <2>1, <2>2
<1>8. ASSUME NEW w \in Workers, Relist(w) PROVE DeletedForGood'
  BY <1>8 DEF Relist, Goto
<1>9. ASSUME NEW w \in Workers, Open(w) PROVE DeletedForGood'
  BY <1>9 DEF Open, Propose, Goto
<1>10. ASSUME NEW w \in Workers, Move(w) PROVE DeletedForGood'
  <2>1. CASE Exit(w)
    BY <1>1, <2>1
  <2>2. CASE ~ Exit(w)
    BY SMTT(30), <1>10, <2>2, NoGoalFields DEF Move, Gone, Goto
  <2> QED
    BY <2>1, <2>2
<1>11. ASSUME NEW w \in Workers, Reread(w) PROVE DeletedForGood'
  <2>1. CASE Exit(w)
    BY <1>1, <2>1
  <2>2. CASE ~ Exit(w)
    BY <1>11, <2>2, NoGoalFields DEF Reread, Goto
  <2> QED
    BY <2>1, <2>2
<1>12. ASSUME NEW w \in Workers, Examine(w) PROVE DeletedForGood'
  <2>1. CASE Exit(w)
    BY <1>1, <2>1
  <2>2. CASE ~ Exit(w)
    <3>1. \/ goal' = goal
          \/ \E to, next : to # "DELETED" /\ goal' = [goal EXCEPT ![w] = [to |-> to, next |-> next]]
      BY <1>12, <2>2, RefusalStates DEF Examine, Propose
    <3>2. UNCHANGED <<runState, lease, sealed, mem, op>>
      BY <1>12, <2>2 DEF Examine
    <3> QED
      BY <3>1, <3>2
  <2> QED
    BY <2>1, <2>2
<1>13. ASSUME NEW w \in Workers, StartAction(w) PROVE DeletedForGood'
  <2>1. CASE Exit(w)
    BY <1>1, <2>1
  <2>2. CASE ~ Exit(w)
    BY <1>13, <2>2 DEF StartAction, Goto
  <2> QED
    BY <2>1, <2>2
<1>14. ASSUME NEW w \in Workers, Launch(w) PROVE DeletedForGood'
  BY <1>14 DEF Launch, Goto
<1>15. ASSUME NEW w \in Workers, ProcessEnds(w) PROVE DeletedForGood'
  BY <1>15 DEF ProcessEnds, Goto
<1>16. ASSUME NEW w \in Workers, Heartbeat(w) PROVE DeletedForGood'
  BY <1>16 DEF Heartbeat, Acquired
<1>17. ASSUME NEW w \in Workers, SettleAction(w) PROVE DeletedForGood'
  <2>1. CASE Exit(w)
    BY <1>1, <2>1
  <2>2. CASE ~ Exit(w)
    BY <1>17, <2>2 DEF SettleAction, Goto
  <2> QED
    BY <2>1, <2>2
<1>18. ASSUME NEW w \in Workers, Reconcile(w) PROVE DeletedForGood'
  <2>1. CASE Exit(w)
    BY <1>1, <2>1
  <2>2. CASE ~ Exit(w)
    BY <1>18, <2>2 DEF Reconcile, Propose, Goto
  <2> QED
    BY <2>1, <2>2
<1>19. ASSUME NEW w \in Workers, CheckOutcome(w) PROVE DeletedForGood'
  BY SMTT(30), <1>19 DEF CheckOutcome, Propose, Goto
<1>20. ASSUME NEW w \in Workers, Seal(w) PROVE DeletedForGood'
  <2>1. CASE Exit(w)
    BY <1>1, <2>1
  <2>2. CASE ~ Exit(w)
    BY <1>20, <2>2 DEF Seal, Propose, Goto
  <2> QED
    BY <2>1, <2>2
<1>21. ASSUME NEW w \in Workers, Crash(w) PROVE DeletedForGood'
  BY <1>1, <1>21 DEF Crash
<1>22. CASE LeaseExpires \/ DurationExceeded \/ Attest
  BY <1>22 DEF LeaseExpires, DurationExceeded, Attest, NoLease, StoreOK
<1>23. CASE Operator
  BY <1>23 DEF Operator, CancelRead, CancelCheckLease, CancelCheckActions, CancelCommit, DeleteRun, StoreOK, NoOp, RestingStates, TerminalStates
<1>24. ASSUME NEW w \in Workers, Decide(w) PROVE DeletedForGood'
  <2>1. CASE Exit(w)
    BY <1>1, <2>1
  <2>2. CASE ~ Exit(w)
    BY <1>24, <2>2 DEF Decide, Propose, Goto, StopState
  <2> QED
    BY <2>1, <2>2
<1> QED
  BY <1>2, <1>3, <1>4, <1>5, <1>6, <1>7, <1>8, <1>9, <1>10, <1>11, <1>12, <1>13, <1>14, <1>15, <1>16, <1>17, <1>18, <1>19, <1>20, <1>21, <1>22, <1>23, <1>24 DEF Next, WorkerStep

\* No step puts a token in memory that acquireLease did not issue.
LEMMA TokensIssuedStep ==
  ASSUME StoreOK, MemoryOK, DeletedForGood, TokensIssued, [Next]_vars
  PROVE  TokensIssued'
<1> USE DEF At, store, memory, observed, MemoryOK, TokensIssued
<1>1. ASSUME NEW w \in Workers, Exit(w) PROVE TokensIssued'
  BY <1>1, OrphanedFields DEF Exit, Gone, Goto, StoreOK
<1>2. CASE UNCHANGED vars
  BY <1>2 DEF vars
<1>3. ASSUME NEW w \in Workers, Resume(w) PROVE TokensIssued'
  BY <1>3 DEF Resume, Propose, Goto
<1>4. ASSUME NEW w \in Workers, Acquire(w) PROVE TokensIssued'
  <2>1. CASE Exit(w)
    BY <1>1, <2>1
  <2>2. CASE ~ Exit(w)
    <3>1. /\ runState # "DELETED" /\ runState' = runState
          /\ lease' = Acquired(w)
          /\ token' = [token EXCEPT ![w] = Acquired(w).token]
      BY <1>4, <2>2 DEF Acquire
    <3>2. lease.token \in Nat /\ \A u \in Workers : token[u] \in Nat /\ token[u] <= lease.token
      BY <3>1 DEF StoreOK
    <3>3. Acquired(w).token = lease.token \/ Acquired(w).token = lease.token + 1
      BY DEF Acquired
    <3>4. \A u \in Workers : token'[u] = token[u] \/ token'[u] = Acquired(w).token
      BY <3>1
    <3> QED
      BY <3>1, <3>2, <3>3, <3>4
  <2> QED
    BY <2>1, <2>2
<1>5. ASSUME NEW w \in Workers, Scan(w) PROVE TokensIssued'
  <2>1. CASE Exit(w)
    BY <1>1, <2>1
  <2>2. CASE ~ Exit(w)
    BY <1>5, <2>2 DEF Scan, Goto
  <2> QED
    BY <2>1, <2>2
<1>6. ASSUME NEW w \in Workers, MarkAmbiguous(w) PROVE TokensIssued'
  <2>1. CASE Exit(w)
    BY <1>1, <2>1
  <2>2. CASE ~ Exit(w)
    <3>1. runState # "DELETED" /\ lease' = Orphaned(w) /\ token' = [token EXCEPT ![w] = 0]
      BY <1>6, <2>2 DEF MarkAmbiguous, Gone
    <3> QED
      BY <3>1, OrphanedFields DEF StoreOK
  <2> QED
    BY <2>1, <2>2
<1>7. ASSUME NEW w \in Workers, RetryFailed(w) PROVE TokensIssued'
  <2>1. CASE Exit(w)
    BY <1>1, <2>1
  <2>2. CASE ~ Exit(w)
    BY <1>7, <2>2 DEF RetryFailed, Propose, Goto
  <2> QED
    BY <2>1, <2>2
<1>8. ASSUME NEW w \in Workers, Relist(w) PROVE TokensIssued'
  BY <1>8 DEF Relist, Goto
<1>9. ASSUME NEW w \in Workers, Open(w) PROVE TokensIssued'
  BY <1>9 DEF Open, Propose, Goto
<1>10. ASSUME NEW w \in Workers, Move(w) PROVE TokensIssued'
  <2>1. CASE Exit(w)
    BY <1>1, <2>1
  <2>2. CASE ~ Exit(w)
    BY <1>10, <2>2, OrphanedFields DEF Move, Gone, Goto, StoreOK, DeletedForGood
  <2> QED
    BY <2>1, <2>2
<1>11. ASSUME NEW w \in Workers, Reread(w) PROVE TokensIssued'
  <2>1. CASE Exit(w)
    BY <1>1, <2>1
  <2>2. CASE ~ Exit(w)
    BY <1>11, <2>2 DEF Reread, Goto
  <2> QED
    BY <2>1, <2>2
<1>12. ASSUME NEW w \in Workers, Examine(w) PROVE TokensIssued'
  <2>1. CASE Exit(w)
    BY <1>1, <2>1
  <2>2. CASE ~ Exit(w)
    BY <1>12, <2>2 DEF Examine, Propose, Goto
  <2> QED
    BY <2>1, <2>2
<1>13. ASSUME NEW w \in Workers, StartAction(w) PROVE TokensIssued'
  <2>1. CASE Exit(w)
    BY <1>1, <2>1
  <2>2. CASE ~ Exit(w)
    BY <1>13, <2>2 DEF StartAction, Goto
  <2> QED
    BY <2>1, <2>2
<1>14. ASSUME NEW w \in Workers, Launch(w) PROVE TokensIssued'
  BY <1>14 DEF Launch, Goto
<1>15. ASSUME NEW w \in Workers, ProcessEnds(w) PROVE TokensIssued'
  BY <1>15 DEF ProcessEnds, Goto
<1>16. ASSUME NEW w \in Workers, Heartbeat(w) PROVE TokensIssued'
  BY <1>16 DEF Heartbeat, Acquired, StoreOK
<1>17. ASSUME NEW w \in Workers, SettleAction(w) PROVE TokensIssued'
  <2>1. CASE Exit(w)
    BY <1>1, <2>1
  <2>2. CASE ~ Exit(w)
    BY <1>17, <2>2 DEF SettleAction, Goto
  <2> QED
    BY <2>1, <2>2
<1>18. ASSUME NEW w \in Workers, Reconcile(w) PROVE TokensIssued'
  <2>1. CASE Exit(w)
    BY <1>1, <2>1
  <2>2. CASE ~ Exit(w)
    BY <1>18, <2>2 DEF Reconcile, Propose, Goto
  <2> QED
    BY <2>1, <2>2
<1>19. ASSUME NEW w \in Workers, CheckOutcome(w) PROVE TokensIssued'
  BY <1>19 DEF CheckOutcome, Propose, Goto
<1>20. ASSUME NEW w \in Workers, Seal(w) PROVE TokensIssued'
  <2>1. CASE Exit(w)
    BY <1>1, <2>1
  <2>2. CASE ~ Exit(w)
    BY <1>20, <2>2 DEF Seal, Propose, Goto
  <2> QED
    BY <2>1, <2>2
<1>21. ASSUME NEW w \in Workers, Crash(w) PROVE TokensIssued'
  BY <1>1, <1>21 DEF Crash
<1>22. CASE LeaseExpires \/ DurationExceeded \/ Attest
  BY <1>22 DEF LeaseExpires, DurationExceeded, Attest, StoreOK
<1>23. CASE Operator
  BY <1>23 DEF Operator, CancelRead, CancelCheckLease, CancelCheckActions, CancelCommit, DeleteRun, DeletedForGood, NoOp
<1>24. ASSUME NEW w \in Workers, Decide(w) PROVE TokensIssued'
  <2>1. CASE Exit(w)
    BY <1>1, <2>1
  <2>2. CASE ~ Exit(w)
    BY <1>24, <2>2 DEF Decide, Propose, Goto
  <2> QED
    BY <2>1, <2>2
<1> QED
  BY <1>2, <1>3, <1>4, <1>5, <1>6, <1>7, <1>8, <1>9, <1>10, <1>11, <1>12, <1>13, <1>14, <1>15, <1>16, <1>17, <1>18, <1>19, <1>20, <1>21, <1>22, <1>23, <1>24 DEF Next, WorkerStep

\* The steps of a worker, and what they leave alone in the other workers.
Acts(w) == Resume(w) \/ WorkerStep(w) \/ Heartbeat(w) \/ Crash(w)

Same(u) ==
  /\ pc'[u] = pc[u] /\ mem'[u] = mem[u] /\ seen'[u] = seen[u] /\ token'[u] = token[u]
  /\ cur'[u] = cur[u] /\ goal'[u] = goal[u] /\ result'[u] = result[u]

\* A step of one process leaves the memory of every other alone.
LEMMA OthersSame ==
  ASSUME MemoryOK, NEW w \in Workers, Acts(w)
  PROVE  \A u \in Workers : u # w => Same(u)
<1> USE DEF MemoryOK, memory, Same
<1>1. CASE Exit(w)
  BY <1>1 DEF Exit, Gone, Goto
<1>2. CASE Resume(w)
  BY <1>2 DEF Resume, Propose, Goto
<1>3. CASE Acquire(w) /\ ~ Exit(w)
  BY <1>3 DEF Acquire, Goto
<1>4. CASE Scan(w) /\ ~ Exit(w)
  BY <1>4 DEF Scan, Goto
<1>5. CASE MarkAmbiguous(w) /\ ~ Exit(w)
  BY <1>5 DEF MarkAmbiguous, Gone, Goto
<1>6. CASE RetryFailed(w) /\ ~ Exit(w)
  BY <1>6 DEF RetryFailed, Propose, Goto
<1>7. CASE Relist(w)
  BY <1>7 DEF Relist, Goto
<1>8. CASE Open(w)
  BY <1>8 DEF Open, Propose, Goto
<1>9. CASE Move(w) /\ ~ Exit(w)
  BY <1>9 DEF Move, Gone, Goto
<1>10. CASE Reread(w) /\ ~ Exit(w)
  BY <1>10 DEF Reread, Goto
<1>11. CASE Examine(w) /\ ~ Exit(w)
  BY <1>11 DEF Examine, Propose, Goto
<1>12. CASE StartAction(w) /\ ~ Exit(w)
  BY <1>12 DEF StartAction, Goto
<1>13. CASE Launch(w)
  BY <1>13 DEF Launch, Goto
<1>14. CASE ProcessEnds(w)
  BY <1>14 DEF ProcessEnds, Goto
<1>15. CASE Heartbeat(w)
  BY <1>15 DEF Heartbeat
<1>16. CASE SettleAction(w) /\ ~ Exit(w)
  BY <1>16 DEF SettleAction, Goto
<1>17. CASE Reconcile(w) /\ ~ Exit(w)
  BY <1>17 DEF Reconcile, Propose, Goto
<1>18. CASE CheckOutcome(w)
  BY <1>18 DEF CheckOutcome, Propose, Goto
<1>19. CASE Seal(w) /\ ~ Exit(w)
  BY <1>19 DEF Seal, Propose, Goto
<1>20. CASE Decide(w) /\ ~ Exit(w)
  BY <1>20 DEF Decide, Propose, Goto
<1> QED
  BY <1>1, <1>2, <1>3, <1>4, <1>5, <1>6, <1>7, <1>8, <1>9, <1>10, <1>11, <1>12, <1>13, <1>14, <1>15, <1>16, <1>17, <1>18, <1>19, <1>20 DEF Acts, WorkerStep, Crash

\* The steps that change a row of the actions.
Marks(w) ==
  /\ At(w, "mark") /\ runState # "DELETED" /\ runState' = "AMBIGUOUS_EFFECT"
  /\ SetAction(cur[w], "AMBIGUOUS") /\ Gone(w)

Retries(w) ==
  /\ At(w, "retry") /\ HoldsLease(w) /\ actions[cur[w]].state \in FailedStates
  /\ SetAction(cur[w], "PENDING") /\ runState' = runState
  /\ settled' = settled /\ failed' = failed \ {cur[w]}

Starts(w) ==
  /\ At(w, "start") /\ HoldsLease(w) /\ actions[cur[w]].state = "PENDING"
  /\ actions' = [actions EXCEPT
                   ![cur[w]] = [state |-> "RUNNING", attempts |-> @.attempts + 1]]
  /\ runState' = runState

Settles(w) ==
  /\ At(w, "settle") /\ HoldsLease(w) /\ actions[cur[w]].state = "RUNNING"
  /\ SetAction(cur[w], SettledState(result[w])) /\ runState' = runState
  /\ settled' = IF result[w] = "succeeded" THEN settled \cup {cur[w]} ELSE settled
  /\ failed' = IF result[w] = "succeeded" THEN failed ELSE failed \cup {cur[w]}

\* The only writes of a process to the action table: mark, retry, start, settle.
LEMMA WorkerRows ==
  ASSUME NEW w \in Workers, Acts(w)
  PROVE  \/ UNCHANGED <<actions, settled, failed>>
         \/ (Marks(w) \/ Starts(w)) /\ UNCHANGED <<settled, failed>>
         \/ Retries(w)
         \/ Settles(w)
<1> USE DEF store, observed, memory
<1>1. CASE Exit(w)
  BY <1>1 DEF Exit, Gone, Goto
<1>2. CASE Resume(w)
  BY <1>2 DEF Resume, Propose, Goto
<1>3. CASE Acquire(w) /\ ~ Exit(w)
  BY <1>3 DEF Acquire, Goto
<1>4. CASE Scan(w) /\ ~ Exit(w)
  BY <1>4 DEF Scan, Goto
<1>5. CASE MarkAmbiguous(w) /\ ~ Exit(w)
  BY <1>5 DEF MarkAmbiguous, Gone, Goto, Marks
<1>6. CASE RetryFailed(w) /\ ~ Exit(w)
  BY <1>6 DEF RetryFailed, Propose, Goto, Retries
<1>7. CASE Relist(w)
  BY <1>7 DEF Relist, Goto
<1>8. CASE Open(w)
  BY <1>8 DEF Open, Propose, Goto
<1>9. CASE Move(w) /\ ~ Exit(w)
  BY <1>9 DEF Move, Gone, Goto
<1>10. CASE Reread(w) /\ ~ Exit(w)
  BY <1>10 DEF Reread, Goto
<1>11. CASE Examine(w) /\ ~ Exit(w)
  BY <1>11 DEF Examine, Propose, Goto
<1>12. CASE StartAction(w) /\ ~ Exit(w)
  BY <1>12 DEF StartAction, Goto, Starts
<1>13. CASE Launch(w)
  BY <1>13 DEF Launch, Goto
<1>14. CASE ProcessEnds(w)
  BY <1>14 DEF ProcessEnds, Goto
<1>15. CASE Heartbeat(w)
  BY <1>15 DEF Heartbeat
<1>16. CASE SettleAction(w) /\ ~ Exit(w)
  BY <1>16 DEF SettleAction, Goto, Settles
<1>17. CASE Reconcile(w) /\ ~ Exit(w)
  BY <1>17 DEF Reconcile, Propose, Goto
<1>18. CASE CheckOutcome(w)
  BY <1>18 DEF CheckOutcome, Propose, Goto
<1>19. CASE Seal(w) /\ ~ Exit(w)
  BY <1>19 DEF Seal, Propose, Goto
<1>20. CASE Decide(w) /\ ~ Exit(w)
  BY <1>20 DEF Decide, Propose, Goto
<1> QED
  BY <1>1, <1>2, <1>3, <1>4, <1>5, <1>6, <1>7, <1>8, <1>9, <1>10, <1>11, <1>12, <1>13, <1>14, <1>15, <1>16, <1>17, <1>18, <1>19, <1>20 DEF Acts, WorkerStep, Crash


\* The operator, the verifier and time change no memory, and no row except by
\* deletion.
LEMMA OtherSteps ==
  ASSUME [Next]_vars, \A w \in Workers : ~ Acts(w)
  PROVE  /\ UNCHANGED memory /\ pc' = pc /\ UNCHANGED observed
         /\ UNCHANGED actions \/ DeleteRun
BY DEF Acts, Next, vars, store, memory, observed, LeaseExpires, DurationExceeded, Operator, CancelRead,
       CancelCheckLease, CancelCheckActions, CancelCommit, DeleteRun, Attest

\* A deleted run is never written again.
LEMMA StaysDeleted ==
  ASSUME DeletedForGood, [Next]_vars
  PROVE  runState = "DELETED" => runState' = "DELETED"
<1> USE DEF DeletedForGood
<1>1. ASSUME NEW w \in Workers, Acts(w), runState = "DELETED" PROVE runState' = "DELETED"
  <2> USE <1>1 DEF store
  <2>1. CASE Exit(w)
    BY <2>1 DEF Exit
  <2>2. CASE Resume(w)
    BY <2>2 DEF Resume
  <2>3. CASE Acquire(w) /\ ~ Exit(w)
    BY <2>3 DEF Acquire
  <2>4. CASE Scan(w) /\ ~ Exit(w)
    BY <2>4 DEF Scan
  <2>5. CASE MarkAmbiguous(w) /\ ~ Exit(w)
    BY <2>5 DEF MarkAmbiguous
  <2>6. CASE RetryFailed(w) /\ ~ Exit(w)
    BY <2>6 DEF RetryFailed
  <2>7. CASE Relist(w)
    BY <2>7 DEF Relist
  <2>8. CASE Open(w)
    BY <2>8 DEF Open
  <2>9. CASE Move(w) /\ ~ Exit(w)
    BY <2>9 DEF Move
  <2>10. CASE Reread(w) /\ ~ Exit(w)
    BY <2>10 DEF Reread
  <2>11. CASE Examine(w) /\ ~ Exit(w)
    BY <2>11 DEF Examine
  <2>12. CASE StartAction(w) /\ ~ Exit(w)
    BY <2>12 DEF StartAction
  <2>13. CASE Launch(w)
    BY <2>13 DEF Launch
  <2>14. CASE ProcessEnds(w)
    BY <2>14 DEF ProcessEnds
  <2>15. CASE Heartbeat(w)
    BY <2>15 DEF Heartbeat
  <2>16. CASE SettleAction(w) /\ ~ Exit(w)
    BY <2>16 DEF SettleAction
  <2>17. CASE Reconcile(w) /\ ~ Exit(w)
    BY <2>17 DEF Reconcile
  <2>18. CASE CheckOutcome(w)
    BY <2>18 DEF CheckOutcome
  <2>19. CASE Seal(w) /\ ~ Exit(w)
    BY <2>19 DEF Seal
  <2>20. CASE Decide(w) /\ ~ Exit(w)
    BY <2>20 DEF Decide
  <2> QED
    BY <2>1, <2>2, <2>3, <2>4, <2>5, <2>6, <2>7, <2>8, <2>9, <2>10, <2>11, <2>12, <2>13, <2>14, <2>15, <2>16, <2>17, <2>18, <2>19, <2>20 DEF Acts, WorkerStep, Crash
<1>2. CASE \A w \in Workers : ~ Acts(w)
  BY <1>2 DEF Acts, Next, vars, store, LeaseExpires, DurationExceeded, Operator, CancelRead,
              CancelCheckLease, CancelCheckActions, CancelCommit, DeleteRun, Attest
<1> QED
  BY <1>1, <1>2

\* A step of w keeps w at the first action until its loop begins.
LEMMA AtFirstActs ==
  ASSUME NEW w \in Workers, MemoryOK, AtFirst(w), Acts(w)
  PROVE  AtFirst(w)'
<1> USE DEF At, MemoryOK, Site, AtFirst, store, memory
<1>1. CASE Exit(w)
  BY <1>1, NoGoalFields DEF Exit, Gone, Goto
<1>2. CASE Resume(w)
  BY <1>2 DEF Resume, Propose, Goto
<1>3. CASE Acquire(w) /\ ~ Exit(w)
  BY <1>3 DEF Acquire, Goto
<1>4. CASE Scan(w) /\ ~ Exit(w)
  BY <1>4 DEF Scan, Goto
<1>5. CASE MarkAmbiguous(w) /\ ~ Exit(w)
  BY <1>5, NoGoalFields DEF MarkAmbiguous, Gone, Goto
<1>6. CASE RetryFailed(w) /\ ~ Exit(w)
  BY <1>6 DEF RetryFailed, Propose, Goto
<1>7. CASE Relist(w)
  BY <1>7 DEF Relist, Goto
<1>8. CASE Open(w)
  BY <1>8 DEF Open, Propose, Goto
<1>9. CASE Move(w) /\ ~ Exit(w)
  BY <1>9, NoGoalFields DEF Move, Gone, Goto
<1>10. CASE Reread(w) /\ ~ Exit(w)
  BY <1>10, NoGoalFields DEF Reread, Goto, Goals
<1>11. CASE Examine(w) /\ ~ Exit(w)
  BY <1>11 DEF Examine, Propose, Goto
<1>12. CASE StartAction(w) /\ ~ Exit(w)
  BY <1>12 DEF StartAction, Goto
<1>13. CASE Launch(w)
  BY <1>13 DEF Launch, Goto
<1>14. CASE ProcessEnds(w)
  BY <1>14 DEF ProcessEnds, Goto
<1>15. CASE Heartbeat(w)
  BY <1>15 DEF Heartbeat
<1>16. CASE SettleAction(w) /\ ~ Exit(w)
  BY <1>16 DEF SettleAction, Goto
<1>17. CASE Reconcile(w) /\ ~ Exit(w)
  BY <1>17 DEF Reconcile, Propose, Goto
<1>18. CASE CheckOutcome(w)
  BY <1>18 DEF CheckOutcome, Propose, Goto
<1>19. CASE Seal(w) /\ ~ Exit(w)
  BY <1>19 DEF Seal, Propose, Goto
<1>20. CASE Decide(w) /\ ~ Exit(w)
  BY <1>20 DEF Decide, Propose, Goto
<1> QED
  BY <1>1, <1>2, <1>3, <1>4, <1>5, <1>6, <1>7, <1>8, <1>9, <1>10, <1>11, <1>12, <1>13, <1>14, <1>15, <1>16, <1>17, <1>18, <1>19, <1>20 DEF Acts, WorkerStep, Crash

\* Every step keeps every loop beginning at the first action.
LEMMA StartAtFirstStep ==
  ASSUME MemoryOK, StartAtFirst, [Next]_vars
  PROVE  StartAtFirst'
<1>1. ASSUME NEW w \in Workers, Acts(w) PROVE StartAtFirst'
  <2>1. AtFirst(w)'
    BY <1>1, AtFirstActs DEF StartAtFirst
  <2>2. ASSUME NEW u \in Workers, u # w PROVE AtFirst(u)'
    BY <1>1, <2>2, OthersSame DEF StartAtFirst, AtFirst, Site, Same
  <2> QED
    BY <2>1, <2>2 DEF StartAtFirst
<1>2. CASE \A w \in Workers : ~ Acts(w)
  BY <1>2, OtherSteps DEF StartAtFirst, AtFirst, Site, memory
<1> QED
  BY <1>1, <1>2

-----------------------------------------------------------------------------
(* Leases: who may be fresh after a step. *)

\* What a step of w can do to the lease and to the token it remembers.
LEMMA LeaseActs ==
  ASSUME NEW w \in Workers, MemoryOK, Acts(w)
  PROVE  \/ lease' = lease /\ token'[w] = token[w]
         \/ lease' = Orphaned(w)
         \/ lease' = Acquired(w) /\ pc'[w] = "scan"
         \/ lease' = Acquired(w) /\ lease' # lease /\ token'[w] = token[w] /\ runState # "DELETED"
<1> USE DEF At, MemoryOK, store, memory, observed
<1>1. CASE Exit(w)
  BY <1>1 DEF Exit, Gone, Goto
<1>2. CASE Resume(w)
  BY <1>2 DEF Resume, Propose, Goto
<1>3. CASE Acquire(w) /\ ~ Exit(w)
  BY <1>3 DEF Acquire, Goto
<1>4. CASE Scan(w) /\ ~ Exit(w)
  BY <1>4 DEF Scan, Goto
<1>5. CASE MarkAmbiguous(w) /\ ~ Exit(w)
  BY <1>5 DEF MarkAmbiguous, Gone, Goto
<1>6. CASE RetryFailed(w) /\ ~ Exit(w)
  BY <1>6 DEF RetryFailed, Propose, Goto
<1>7. CASE Relist(w)
  BY <1>7 DEF Relist, Goto
<1>8. CASE Open(w)
  BY <1>8 DEF Open, Propose, Goto
<1>9. CASE Move(w) /\ ~ Exit(w)
  BY <1>9 DEF Move, Gone, Goto
<1>10. CASE Reread(w) /\ ~ Exit(w)
  BY <1>10 DEF Reread, Goto
<1>11. CASE Examine(w) /\ ~ Exit(w)
  BY <1>11 DEF Examine, Propose, Goto
<1>12. CASE StartAction(w) /\ ~ Exit(w)
  BY <1>12 DEF StartAction, Goto
<1>13. CASE Launch(w)
  BY <1>13 DEF Launch, Goto
<1>14. CASE ProcessEnds(w)
  BY <1>14 DEF ProcessEnds, Goto
<1>15. CASE Heartbeat(w)
  BY <1>15 DEF Heartbeat
<1>16. CASE SettleAction(w) /\ ~ Exit(w)
  BY <1>16 DEF SettleAction, Goto
<1>17. CASE Reconcile(w) /\ ~ Exit(w)
  BY <1>17 DEF Reconcile, Propose, Goto
<1>18. CASE CheckOutcome(w)
  BY <1>18 DEF CheckOutcome, Propose, Goto
<1>19. CASE Seal(w) /\ ~ Exit(w)
  BY <1>19 DEF Seal, Propose, Goto
<1>20. CASE Decide(w) /\ ~ Exit(w)
  BY <1>20 DEF Decide, Propose, Goto
<1> QED
  BY <1>1, <1>2, <1>3, <1>4, <1>5, <1>6, <1>7, <1>8, <1>9, <1>10, <1>11, <1>12, <1>13, <1>14, <1>15, <1>16, <1>17, <1>18, <1>19, <1>20 DEF Acts, WorkerStep, Crash

\* A process cannot hand the lease to another.
LEMMA FreshKept ==
  ASSUME StoreOK, MemoryOK, NEW w \in Workers, Acts(w), NEW u \in Workers, u # w, Fresh(u)'
  PROVE  Fresh(u)
<1>1. token'[u] = token[u]
  BY OthersSame DEF Same
<1>2. lease'.owner = u /\ lease'.token = token[u]
  BY <1>1 DEF Fresh
<1>3. CASE lease' = Acquired(w)
  BY <1>2, <1>3 DEF Acquired, Fresh
<1>4. CASE lease' = Orphaned(w)
  BY <1>2, <1>4, OrphanedFields DEF Fresh
<1> QED
  BY <1>2, <1>3, <1>4, LeaseActs DEF Fresh

\* A process that holds the latest lease got it in this step or before it.
LEMMA FreshSelf ==
  ASSUME StoreOK, MemoryOK, TokensIssued, NEW w \in Workers, Acts(w), Fresh(w)'
  PROVE  pc'[w] = "scan" \/ (Fresh(w) /\ lease' = lease)
<1>1. lease'.owner = w /\ lease'.token = token'[w]
  BY DEF Fresh
<1>2. ASSUME lease' = Acquired(w), lease' # lease, token'[w] = token[w], runState # "DELETED"
      PROVE  FALSE
  BY <1>1, <1>2 DEF Acquired, TokensIssued, StoreOK, MemoryOK
<1>3. ASSUME lease' = Orphaned(w) PROVE FALSE
  BY <1>1, <1>3, OrphanedFields
<1>4. CASE lease' = lease /\ token'[w] = token[w]
  BY <1>1, <1>4 DEF Fresh
<1>5. \/ lease' = lease /\ token'[w] = token[w]
      \/ lease' = Orphaned(w)
      \/ pc'[w] = "scan"
      \/ lease' = Acquired(w) /\ lease' # lease /\ token'[w] = token[w] /\ runState # "DELETED"
  BY LeaseActs
<1> QED
  BY <1>2, <1>3, <1>4, <1>5

\* The fenced row changes exclude each other.
LEMMA OneFresh ==
  ASSUME NEW w \in Workers, HoldsLease(w), NEW u \in Workers, Fresh(u)
  PROVE  u = w
BY DEF HoldsLease, Fresh

\* No step outside the processes gives a lease to anyone.
LEMMA FreshOtherSteps ==
  ASSUME StoreOK, \A w \in Workers : ~ Acts(w), [Next]_vars, NEW u \in Workers, Fresh(u)'
  PROVE  Fresh(u) /\ ~ DeleteRun
<1>1. ~ DeleteRun
  BY WorkersAssumption DEF DeleteRun, NoLease, Fresh
<1>2. token' = token
  BY OtherSteps DEF memory
<1>3. lease' = lease \/ LeaseExpires
  BY <1>1 DEF Acts, Next, vars, store, DurationExceeded, Operator, CancelRead, CancelCheckLease,
              CancelCheckActions, CancelCommit, Attest
<1>4. Fresh(u)
  BY <1>2, <1>3 DEF LeaseExpires, Fresh, StoreOK
<1> QED
  BY <1>1, <1>4

-----------------------------------------------------------------------------
(* The order of the objective. *)

\* Settled actions stay settled.
LEMMA SettledGrows ==
  ASSUME [Next]_vars
  PROVE  settled \subseteq settled'
BY WorkerRows, OtherSteps DEF Retries, Settles, observed

\* Who holds a lease works on a run that exists.
LEMMA NotDeletedUnderLease ==
  ASSUME DeletedForGood, NEW w \in Workers, HoldsLease(w)
  PROVE  runState # "DELETED"
BY DEF DeletedForGood, HoldsLease, NoLease

\* An action the loop may go past stays one until the run is deleted: an
\* ambiguous row is neither retried, started nor settled.
LEMMA PassedKept ==
  ASSUME StoreOK, [Next]_vars, ~ DeleteRun, NEW a \in Actions, Passed(a)
  PROVE  Passed(a)'
<1> USE DEF Passed
<1>1. settled \subseteq settled'
  BY SettledGrows
<1>2. CASE UNCHANGED <<actions, settled, failed>>
  BY <1>2
<1>3. ASSUME NEW w \in Workers, Marks(w), UNCHANGED <<settled, failed>> PROVE Passed(a)'
  BY <1>3 DEF Marks, SetAction, StoreOK, ActionRow
<1>4. ASSUME NEW w \in Workers, Starts(w), UNCHANGED <<settled, failed>> PROVE Passed(a)'
  BY <1>4 DEF Starts, StoreOK, ActionRow
<1>5. ASSUME NEW w \in Workers, Retries(w) PROVE Passed(a)'
  BY <1>1, <1>5 DEF Retries, SetAction, StoreOK, ActionRow, FailedStates
<1>6. ASSUME NEW w \in Workers, Settles(w) PROVE Passed(a)'
  BY <1>1, <1>6 DEF Settles, SetAction, StoreOK, ActionRow
<1> QED
  BY <1>2, <1>3, <1>4, <1>5, <1>6, WorkerRows, OtherSteps DEF observed

\* An action whose time has come stays one until the run is deleted.
LEMMA ReadyKept ==
  ASSUME StoreOK, [Next]_vars, ~ DeleteRun, NEW b \in Actions, Ready(b)
  PROVE  Ready(b)'
<1>1. \A a \in Actions : a < b => Passed(a)'
  BY PassedKept DEF Ready
<1> QED
  BY <1>1, SettledGrows DEF Ready

\* Every step keeps the rows of the store in the order of the objective.
LEMMA RowsInOrderStep ==
  ASSUME StoreOK, AtAction, DeletedForGood, RowsInOrder, WorkersInOrder, [Next]_vars
  PROVE  RowsInOrder'
<1> USE DEF RowsInOrder, EffectsInOrder
<1>1. runState = "DELETED" => runState' = "DELETED"
  BY StaysDeleted
<1>2. ASSUME ~ DeleteRun PROVE \A a \in Actions : Ready(a) => Ready(a)'
  BY <1>2, ReadyKept
<1>3. CASE UNCHANGED <<actions, settled, failed>> /\ ~ DeleteRun
  BY <1>1, <1>2, <1>3
<1>4. ASSUME NEW w \in Workers, Marks(w), UNCHANGED <<settled, failed>>, ~ DeleteRun
      PROVE  RowsInOrder'
  <2>1. cur[w] \in Actions /\ Ready(cur[w])
    BY <1>4 DEF AtAction, WorkersInOrder, InOrder, Marks, At, Site
  <2> QED
    BY <1>1, <1>2, <1>4, <2>1 DEF Marks, SetAction, StoreOK, ActionRow, FailedStates
<1>5. ASSUME NEW w \in Workers, Retries(w), ~ DeleteRun PROVE RowsInOrder'
  BY <1>1, <1>2, <1>5, NotDeletedUnderLease DEF Retries, SetAction, StoreOK, ActionRow, FailedStates
<1>6. ASSUME NEW w \in Workers, Starts(w), UNCHANGED <<settled, failed>>, ~ DeleteRun
      PROVE  RowsInOrder'
  <2>1. cur[w] \in Actions /\ Ready(cur[w])
    BY <1>6 DEF AtAction, WorkersInOrder, InOrder, Starts, At, Site, HoldsLease, Fresh
  <2> QED
    BY <1>1, <1>2, <1>6, <2>1, NotDeletedUnderLease DEF Starts, StoreOK, ActionRow, FailedStates
<1>7. ASSUME NEW w \in Workers, Settles(w), ~ DeleteRun PROVE RowsInOrder'
  <2>1. cur[w] \in Actions /\ Ready(cur[w]) /\ runState # "DELETED"
    BY <1>7, NotDeletedUnderLease
       DEF AtAction, WorkersInOrder, InOrder, Settles, At, Site
  <2>2. IF result[w] = "succeeded" THEN SettledState(result[w]) = "SUCCEEDED"
                                   ELSE SettledState(result[w]) \in FailedStates
    BY DEF SettledState, FailedStates
  <2>3. EffectsInOrder'
    BY <1>2, <1>7, <2>1 DEF Settles, SetAction, StoreOK, ActionRow
  <2>4. CASE result[w] = "succeeded"
    BY <1>1, <1>7, <2>1, <2>2, <2>3, <2>4 DEF Settles, SetAction, StoreOK, ActionRow, FailedStates
  <2>5. CASE result[w] # "succeeded"
    BY <1>1, <1>7, <2>1, <2>2, <2>3, <2>5 DEF Settles, SetAction, StoreOK, ActionRow, FailedStates
  <2> QED
    BY <2>4, <2>5
<1>8. CASE DeleteRun
  BY <1>8 DEF DeleteRun, BlankTable, observed
<1> QED
  BY <1>3, <1>4, <1>5, <1>6, <1>7, <1>8, WorkerRows, OtherSteps DEF observed

\* Where the action a worker is at comes from: the loop begins at the first
\* action, goes on from a settled one, and skips what it saw SUCCEEDED.
Written == {"mark", "launch", "run", "settle", "decide"}

Continues(w) ==
  /\ pc[w] = "decide" /\ cur'[w] = cur[w] + 1
  /\ actions[cur[w]].state \notin FailedStates

Chooses(w) ==
  /\ Site(w) = "loop" /\ Unfinished(w) # {} /\ cur'[w] = Min(Unfinished(w))
  /\ \A d \in DependsOn[cur'[w]] : actions[d].state = "SUCCEEDED"

Interrupts(w) ==
  /\ runState # "DELETED" /\ WithState("RUNNING") # {} /\ cur'[w] = Min(WithState("RUNNING"))

\* A step of w brings it to an action in one of these ways only.
LEMMA OrderActs ==
  ASSUME NEW w \in Workers, MemoryOK, AtFirst(w), Acts(w)
  PROVE  /\ seen'[w] \in {seen[w], actions, BlankTable}
         /\ Site(w)' = "loop" =>
              (Site(w) = "loop" /\ cur'[w] = cur[w]) \/ cur'[w] = 1 \/ Continues(w)
         /\ Site(w)' = "start" => (Site(w) = "start" /\ cur'[w] = cur[w]) \/ Chooses(w)
         /\ pc'[w] = "decide" => Settles(w) /\ cur'[w] = cur[w]
         /\ Site(w)' \in Written =>
              (cur'[w] = cur[w] /\ (Site(w) \in Written \/ Starts(w))) \/ Interrupts(w)
<1> USE DEF At, MemoryOK, Site, AtFirst, Written, store, memory, observed
<1>1. CASE Exit(w)
  BY <1>1, NoGoalFields DEF Exit, Gone, Goto
<1>2. CASE Resume(w)
  BY <1>2 DEF Resume, Propose, Goto
<1>3. CASE Acquire(w) /\ ~ Exit(w)
  BY <1>3 DEF Acquire, Goto
<1>4. CASE Scan(w) /\ ~ Exit(w)
  BY <1>4 DEF Scan, Goto, Interrupts
<1>5. CASE MarkAmbiguous(w) /\ ~ Exit(w)
  BY <1>5, NoGoalFields DEF MarkAmbiguous, Gone, Goto
<1>6. CASE RetryFailed(w) /\ ~ Exit(w)
  BY <1>6 DEF RetryFailed, Propose, Goto
<1>7. CASE Relist(w)
  BY <1>7 DEF Relist, Goto
<1>8. CASE Open(w)
  BY <1>8 DEF Open, Propose, Goto
<1>9. CASE Move(w) /\ ~ Exit(w)
  BY <1>9, NoGoalFields DEF Move, Gone, Goto
<1>10. CASE Reread(w) /\ ~ Exit(w)
  BY <1>10, NoGoalFields DEF Reread, Goto, Goals
<1>11. CASE Examine(w) /\ ~ Exit(w)
  <2> DEFINE b == Min(Unfinished(w))
  <2>1. pc[w] = "loop" /\ cur' = [cur EXCEPT ![w] = b] /\ seen' = seen /\ Unfinished(w) # {}
    BY <1>11 DEF Examine
  <2>2. \/ /\ \A d \in DependsOn[b] : actions[d].state = "SUCCEEDED"
           /\ \/ pc' = [pc EXCEPT ![w] = "start"] /\ goal' = goal
              \/ \E to : /\ pc' = [pc EXCEPT ![w] = "move"]
                         /\ goal' = [goal EXCEPT ![w] = [to |-> to, next |-> "start"]]
        \/ \E to : /\ pc' = [pc EXCEPT ![w] = "move"]
                   /\ goal' = [goal EXCEPT ![w] = [to |-> to, next |-> "idle"]]
    BY <1>11 DEF Examine, Propose, Goto, Refusal
  <2> QED
    BY <2>1, <2>2 DEF Chooses
<1>12. CASE StartAction(w) /\ ~ Exit(w)
  BY <1>12 DEF StartAction, Goto, Starts
<1>13. CASE Launch(w)
  BY <1>13 DEF Launch, Goto
<1>14. CASE ProcessEnds(w)
  BY <1>14 DEF ProcessEnds, Goto
<1>15. CASE Heartbeat(w)
  BY <1>15 DEF Heartbeat
<1>16. CASE SettleAction(w) /\ ~ Exit(w)
  BY <1>16 DEF SettleAction, Goto, Settles
<1>17. CASE Reconcile(w) /\ ~ Exit(w)
  BY <1>17 DEF Reconcile, Propose, Goto
<1>18. CASE CheckOutcome(w)
  BY <1>18 DEF CheckOutcome, Propose, Goto
<1>19. CASE Seal(w) /\ ~ Exit(w)
  BY <1>19 DEF Seal, Propose, Goto
<1>20. CASE Decide(w) /\ ~ Exit(w)
  BY <1>20 DEF Decide, Propose, Goto, Continues
<1> QED
  BY <1>1, <1>2, <1>3, <1>4, <1>5, <1>6, <1>7, <1>8, <1>9, <1>10, <1>11, <1>12, <1>13, <1>14, <1>15, <1>16, <1>17, <1>18, <1>19, <1>20 DEF Acts, WorkerStep, Crash

\* A step of w keeps w behind what has settled.
LEMMA InOrderActs ==
  ASSUME NEW w \in Workers, StoreOK, MemoryOK, AtAction, DeletedForGood, TokensIssued, StartAtFirst,
         RowsInOrder, InOrder(w), Acts(w), [Next]_vars
  PROVE  InOrder(w)'
<1>1. AtFirst(w)
  BY DEF StartAtFirst
<1>2. runState' # "DELETED" => runState # "DELETED" /\ ~ DeleteRun
  BY StaysDeleted DEF DeleteRun
<1>3. Fresh(w)' => runState' # "DELETED" /\ (Fresh(w) \/ pc'[w] = "scan")
  BY DeletedForGoodStep, FreshSelf, WorkersAssumption DEF Fresh, DeletedForGood, NoLease
<1>4. ASSUME NEW a \in Actions, seen'[w][a].state = "SUCCEEDED" PROVE a \in settled'
  BY <1>1, <1>4, OrderActs, SettledGrows DEF InOrder, RowsInOrder, BlankTable
<1>5. ASSUME Site(w)' = "loop", Fresh(w)', NEW a \in Actions, a < cur'[w] PROVE Passed(a)'
  <2>1. Fresh(w) /\ ~ DeleteRun /\ runState # "DELETED"
    BY <1>2, <1>3, <1>5 DEF Site
  <2>2. CASE Site(w) = "loop" /\ cur'[w] = cur[w]
    BY <1>5, <2>1, <2>2, PassedKept DEF InOrder
  <2>3. CASE cur'[w] = 1
    BY <1>5, <2>3, ActionsAssumption DEF Actions
  <2>4. CASE Continues(w)
    <3>1. cur[w] \in Actions /\ Ready(cur[w]) /\ cur[w] \in settled \cup failed
      BY <2>1, <2>4 DEF Continues, InOrder, Site, AtAction
    <3>2. Passed(cur[w])
      BY <2>1, <2>4, <3>1 DEF Continues, RowsInOrder, Passed
    <3>3. a < cur[w] \/ a = cur[w]
      BY <1>5, <2>4, <3>1, ActionsAreNat DEF Continues
    <3>4. Passed(a)
      BY <3>1, <3>2, <3>3 DEF Ready
    <3> QED
      BY <2>1, <3>4, PassedKept
  <2> QED
    BY <1>1, <1>5, <2>2, <2>3, <2>4, OrderActs
<1>6. ASSUME Site(w)' = "start", Fresh(w)', NEW b \in Actions, b = cur'[w] PROVE Ready(b)'
  <2>1. Fresh(w) /\ ~ DeleteRun
    BY <1>2, <1>3, <1>6 DEF Site
  <2>2. CASE Site(w) = "start" /\ cur'[w] = cur[w]
    BY <1>6, <2>1, <2>2, ReadyKept DEF InOrder
  <2>3. CASE Chooses(w)
    <3>1. \A a \in Actions : a < b => Passed(a)
      <4>1. ASSUME NEW a \in Actions, a < b, a >= cur[w] PROVE a \in settled
        <5>1. a \in Nat /\ b \in Nat /\ \A c \in Unfinished(w) : b <= c
          BY <1>6, <2>3, LeastTyped DEF Chooses
        <5>2. a \notin Unfinished(w)
          BY <4>1, <5>1
        <5> QED
          BY <4>1, <5>2 DEF Unfinished, InOrder
      <4>2. ASSUME NEW a \in Actions, ~ (a >= cur[w]) PROVE Passed(a)
        BY <2>1, <2>3, <4>2, LeastTyped DEF Chooses, InOrder, MemoryOK
      <4> QED
        BY <4>1, <4>2 DEF Passed
    <3>2. Ready(b)
      BY <1>6, <2>3, <3>1, DependsAssumption DEF Chooses, RowsInOrder, Ready
    <3> QED
      BY <2>1, <3>2, ReadyKept
  <2> QED
    BY <1>1, <1>6, <2>2, <2>3, OrderActs
<1>7. ASSUME pc'[w] = "decide" PROVE cur'[w] \in settled' \cup failed'
  BY <1>1, <1>7, OrderActs DEF Settles
<1>8. ASSUME Site(w)' \in Written, runState' # "DELETED", NEW b \in Actions, b = cur'[w]
      PROVE  Ready(b)'
  <2>1. runState # "DELETED" /\ ~ DeleteRun
    BY <1>2, <1>8
  <2>2. CASE cur'[w] = cur[w] /\ Site(w) \in Written
    BY <1>8, <2>1, <2>2, ReadyKept DEF InOrder, Written
  <2>3. CASE cur'[w] = cur[w] /\ Starts(w)
    BY <1>8, <2>1, <2>3, ReadyKept DEF InOrder, Starts, At, Site, HoldsLease, Fresh
  <2>4. CASE Interrupts(w)
    <3>1. Ready(b)
      BY <1>8, <2>4, LeastTyped DEF Interrupts, RowsInOrder, EffectsInOrder
    <3> QED
      BY <2>1, <3>1, ReadyKept
  <2> QED
    BY <1>1, <1>8, <2>2, <2>3, <2>4, OrderActs
<1>9. Site(w)' \in Written \cup {"start"} => cur'[w] \in Actions
  BY AtActionStep DEF AtAction, Site, Written
<1> QED
  BY <1>4, <1>5, <1>6, <1>7, <1>8, <1>9 DEF InOrder, Written, Ready

\* What another worker does keeps u behind what has settled.
LEMMA InOrderOthers ==
  ASSUME StoreOK, MemoryOK, AtAction, DeletedForGood, NEW u \in Workers, InOrder(u), [Next]_vars,
         Same(u), Fresh(u)' => Fresh(u), \A w \in Workers : Acts(w) => w # u
  PROVE  InOrder(u)'
<1>1. runState' # "DELETED" => runState # "DELETED" /\ ~ DeleteRun
  BY StaysDeleted DEF DeleteRun
<1>2. Fresh(u)' => runState' # "DELETED"
  BY DeletedForGoodStep, WorkersAssumption DEF Fresh, DeletedForGood, NoLease
<1>3. Site(u)' = Site(u)
  BY DEF Site, Same
<1>4. ASSUME NEW a \in Actions, Passed(a), runState' # "DELETED" PROVE Passed(a)'
  BY <1>1, <1>4, PassedKept
<1>5. ASSUME NEW b \in Actions, Ready(b), runState' # "DELETED" PROVE Ready(b)'
  BY <1>1, <1>5, ReadyKept
<1>6. ASSUME pc[u] = "decide", Fresh(u), cur[u] \in settled \cup failed
      PROVE  cur[u] \in settled' \cup failed'
  <2>1. ASSUME NEW w \in Workers, Retries(w) PROVE FALSE
    BY <1>6, <2>1, OneFresh DEF Retries, At
  <2> QED
    BY <1>6, <2>1, WorkerRows, OtherSteps, SettledGrows DEF Settles, observed
<1>7. Site(u) \in {"start", "mark", "launch", "run", "settle", "decide"} => cur[u] \in Actions
  BY DEF AtAction
<1>8. \A a \in Actions : seen'[u][a].state = "SUCCEEDED" => a \in settled'
  BY SettledGrows DEF InOrder, Same
<1>9. Site(u)' = "loop" /\ Fresh(u)' => \A a \in Actions : a < cur'[u] => Passed(a)'
  BY <1>2, <1>3, <1>4 DEF InOrder, Same
<1>10. ASSUME NEW b \in Actions, b = cur'[u]
       PROVE  /\ Site(u)' = "start" /\ Fresh(u)' => Ready(b)'
              /\ Site(u)' \in {"mark", "launch", "run", "settle", "decide"} =>
                   runState' = "DELETED" \/ Ready(b)'
  BY <1>1, <1>2, <1>3, <1>5, <1>10 DEF InOrder, Same
<1>11. pc'[u] = "decide" /\ Fresh(u)' => cur'[u] \in settled' \cup failed'
  BY <1>6 DEF InOrder, Same
<1>12. Site(u)' \in {"start", "mark", "launch", "run", "settle", "decide"} => cur'[u] \in Actions
  BY <1>3, <1>7 DEF Same
<1> QED
  BY <1>8, <1>9, <1>10, <1>11, <1>12 DEF InOrder, Ready

\* Every step keeps every worker behind what has settled.
LEMMA WorkersInOrderStep ==
  ASSUME StoreOK, MemoryOK, AtAction, DeletedForGood, TokensIssued, StartAtFirst, RowsInOrder,
         WorkersInOrder, [Next]_vars
  PROVE  WorkersInOrder'
<1>1. ASSUME NEW u \in Workers PROVE InOrder(u)'
  <2>1. InOrder(u)
    BY DEF WorkersInOrder
  <2>2. CASE Acts(u)
    BY <2>1, <2>2, InOrderActs
  <2>3. ASSUME NEW w \in Workers, Acts(w), w # u, ~ Acts(u) PROVE InOrder(u)'
    BY <2>1, <2>3, OthersSame, FreshKept, InOrderOthers
  <2>4. CASE \A w \in Workers : ~ Acts(w)
    <3>1. Same(u)
      BY <2>4, OtherSteps DEF Same, memory
    <3> QED
      BY <2>1, <2>4, <3>1, FreshOtherSteps, InOrderOthers
  <2> QED
    BY <2>2, <2>3, <2>4
<1> QED
  BY <1>1 DEF WorkersInOrder

-----------------------------------------------------------------------------
(* One executor at a time. *)

\* How a process comes to be, and stays, between an intent and its settlement.
LEMMA ExecutionActs ==
  ASSUME NEW w \in Workers, MemoryOK, Acts(w)
  PROVE  \/ pc'[w] \notin {"launch", "run", "settle"}
         \/ /\ Starts(w) /\ cur' = cur /\ pc'[w] = "launch"
         \/ /\ pc[w] \in {"launch", "run"} /\ cur' = cur
            /\ UNCHANGED <<actions, settled, failed, runState>>
<1> USE DEF At, MemoryOK, store, memory, observed
<1>1. CASE Exit(w)
  BY <1>1 DEF Exit, Gone, Goto
<1>2. CASE Resume(w)
  BY <1>2 DEF Resume, Propose, Goto
<1>3. CASE Acquire(w) /\ ~ Exit(w)
  BY <1>3 DEF Acquire, Goto
<1>4. CASE Scan(w) /\ ~ Exit(w)
  BY <1>4 DEF Scan, Goto
<1>5. CASE MarkAmbiguous(w) /\ ~ Exit(w)
  BY <1>5 DEF MarkAmbiguous, Gone, Goto
<1>6. CASE RetryFailed(w) /\ ~ Exit(w)
  BY <1>6 DEF RetryFailed, Propose, Goto
<1>7. CASE Relist(w)
  BY <1>7 DEF Relist, Goto
<1>8. CASE Open(w)
  BY <1>8 DEF Open, Propose, Goto
<1>9. CASE Move(w) /\ ~ Exit(w)
  BY <1>9 DEF Move, Gone, Goto
<1>10. CASE Reread(w) /\ ~ Exit(w)
  BY <1>10 DEF Reread, Goto, Goals
<1>11. CASE Examine(w) /\ ~ Exit(w)
  BY <1>11 DEF Examine, Propose, Goto
<1>12. CASE StartAction(w) /\ ~ Exit(w)
  BY <1>12 DEF StartAction, Goto, Starts
<1>13. CASE Launch(w)
  BY <1>13 DEF Launch, Goto
<1>14. CASE ProcessEnds(w)
  BY <1>14 DEF ProcessEnds, Goto
<1>15. CASE Heartbeat(w)
  BY <1>15 DEF Heartbeat
<1>16. CASE SettleAction(w) /\ ~ Exit(w)
  BY <1>16 DEF SettleAction, Goto
<1>17. CASE Reconcile(w) /\ ~ Exit(w)
  BY <1>17 DEF Reconcile, Propose, Goto
<1>18. CASE CheckOutcome(w)
  BY <1>18 DEF CheckOutcome, Propose, Goto
<1>19. CASE Seal(w) /\ ~ Exit(w)
  BY <1>19 DEF Seal, Propose, Goto
<1>20. CASE Decide(w) /\ ~ Exit(w)
  BY <1>20 DEF Decide, Propose, Goto
<1> QED
  BY <1>1, <1>2, <1>3, <1>4, <1>5, <1>6, <1>7, <1>8, <1>9, <1>10, <1>11, <1>12, <1>13, <1>14, <1>15, <1>16, <1>17, <1>18, <1>19, <1>20 DEF Acts, WorkerStep, Crash

\* An intent is recorded only when nobody else is between one and its settlement.
LEMMA NoOtherExecutor ==
  ASSUME MemoryOK, AtAction, DeletedForGood, RowsInOrder, WorkersInOrder, Execution,
         NEW w \in Workers, Starts(w), NEW u \in Executing
  PROVE  FALSE
<1> DEFINE a == cur[w]
           b == cur[u]
<1>1. /\ a \in Actions /\ b \in Actions /\ Ready(a)
  BY NotDeletedUnderLease
     DEF AtAction, WorkersInOrder, InOrder, Site, At, Starts, Executing, HoldsLease, Fresh
<1>2. runState # "DELETED" /\ actions[a].state = "PENDING"
  BY NotDeletedUnderLease DEF Starts
<1>3. b \notin settled \cup failed /\ actions[b].state \in {"RUNNING", "AMBIGUOUS"}
  BY <1>2 DEF Execution
<1>4. ~ (b < a)
  BY <1>1, <1>3 DEF Ready, Passed
<1>5. a # b
  BY <1>2, <1>3
<1>6. ~ (a < b)
  <2>1. a \notin settled
    BY <1>1, <1>2 DEF RowsInOrder
  <2>2. Ready(b)
    BY <1>1, <1>3 DEF RowsInOrder, EffectsInOrder
  <2> QED
    BY <1>1, <1>2, <2>1, <2>2 DEF Ready, Passed
<1>7. a \in Nat /\ b \in Nat
  BY <1>1, LeastTyped
<1> HIDE DEF a, b
<1> QED
  BY <1>4, <1>5, <1>6, <1>7

\* Every step keeps the process in execution the only one.
LEMMA ExecutionStep ==
  ASSUME StoreOK, MemoryOK, AtAction, DeletedForGood, RowsInOrder, WorkersInOrder, Execution,
         [Next]_vars
  PROVE  Execution'
<1>1. runState = "DELETED" => runState' = "DELETED"
  BY StaysDeleted
<1>2. ASSUME NEW w \in Workers, Acts(w) PROVE Execution'
  <2>1. CASE Starts(w) /\ UNCHANGED <<settled, failed>> /\ cur' = cur /\ pc'[w] = "launch"
    <3>1. Executing' \subseteq {w}
      BY <1>2, <2>1, NoOtherExecutor, OthersSame DEF Executing, Same
    <3>2. cur[w] \in Actions /\ cur[w] \notin settled \cup failed
      BY <2>1, NotDeletedUnderLease DEF Starts, AtAction, Site, At, RowsInOrder, FailedStates
    <3>3. actions'[cur[w]].state = "RUNNING"
      BY <2>1, <3>2 DEF Starts, StoreOK
    <3> QED
      BY <2>1, <3>1, <3>2, <3>3 DEF Execution, SoleExecutor
  <2>2. CASE /\ pc[w] \in {"launch", "run"} /\ cur' = cur
             /\ UNCHANGED <<actions, settled, failed, runState>>
    <3>1. Executing' \subseteq Executing
      BY <1>2, <2>2, OthersSame DEF Executing, Same
    <3> QED
      BY <1>1, <2>2, <3>1 DEF Execution, SoleExecutor
  <2>3. CASE pc'[w] \notin {"launch", "run", "settle"}
    <3>1. \A u \in Executing' : u # w /\ u \in Executing /\ cur'[u] = cur[u] /\ cur[u] \in Actions
      BY <1>2, <2>3, OthersSame DEF Executing, Same, AtAction, Site
    <3>2. CASE UNCHANGED <<actions, settled, failed>>
      BY <1>1, <3>1, <3>2 DEF Execution, SoleExecutor
    <3>3. CASE Marks(w) /\ UNCHANGED <<settled, failed>>
      BY <1>1, <3>1, <3>3 DEF Execution, SoleExecutor, Marks, SetAction, StoreOK, ActionRow
    <3>4. CASE Retries(w)
      BY <1>1, <3>1, <3>4, NotDeletedUnderLease
         DEF Execution, SoleExecutor, Retries, SetAction, StoreOK, ActionRow, FailedStates
    <3>5. CASE Starts(w)
      BY <3>1, <3>5, NoOtherExecutor DEF Execution, SoleExecutor
    <3>6. CASE Settles(w)
      <4>1. w \in Executing
        BY <3>6 DEF Settles, At, Executing
      <4> QED
        BY <3>1, <4>1 DEF Execution, SoleExecutor
    <3> QED
      BY <1>2, <3>2, <3>3, <3>4, <3>5, <3>6, WorkerRows
  <2> QED
    BY <1>2, <2>1, <2>2, <2>3, ExecutionActs, WorkerRows DEF Retries, Starts, Settles, At
<1>3. CASE \A w \in Workers : ~ Acts(w)
  <2>1. Executing' = Executing /\ cur' = cur /\ UNCHANGED <<settled, failed>>
    BY <1>3, OtherSteps DEF Executing, memory, observed
  <2>2. CASE UNCHANGED actions
    BY <1>1, <2>1, <2>2 DEF Execution, SoleExecutor
  <2>3. CASE DeleteRun
    BY <2>1, <2>3 DEF Execution, SoleExecutor, DeleteRun
  <2> QED
    BY <1>3, <2>2, <2>3, OtherSteps
<1> QED
  BY <1>2, <1>3

-----------------------------------------------------------------------------
(* Launches. *)

\* A child process is started at one point of resume() only.
LEMMA LaunchActs ==
  ASSUME NEW w \in Workers, MemoryOK, Acts(w)
  PROVE  \/ launched' = launched
         \/ /\ pc[w] = "launch" /\ pc'[w] = "run" /\ cur' = cur
            /\ launched' = [launched EXCEPT ![cur[w]] = @ + 1]
            /\ UNCHANGED <<actions, settled, failed, runState>>
<1> USE DEF At, MemoryOK, store, memory, observed
<1>1. CASE Exit(w)
  BY <1>1 DEF Exit, Gone, Goto
<1>2. CASE Resume(w)
  BY <1>2 DEF Resume, Propose, Goto
<1>3. CASE Acquire(w) /\ ~ Exit(w)
  BY <1>3 DEF Acquire, Goto
<1>4. CASE Scan(w) /\ ~ Exit(w)
  BY <1>4 DEF Scan, Goto
<1>5. CASE MarkAmbiguous(w) /\ ~ Exit(w)
  BY <1>5 DEF MarkAmbiguous, Gone, Goto
<1>6. CASE RetryFailed(w) /\ ~ Exit(w)
  BY <1>6 DEF RetryFailed, Propose, Goto
<1>7. CASE Relist(w)
  BY <1>7 DEF Relist, Goto
<1>8. CASE Open(w)
  BY <1>8 DEF Open, Propose, Goto
<1>9. CASE Move(w) /\ ~ Exit(w)
  BY <1>9 DEF Move, Gone, Goto
<1>10. CASE Reread(w) /\ ~ Exit(w)
  BY <1>10 DEF Reread, Goto
<1>11. CASE Examine(w) /\ ~ Exit(w)
  BY <1>11 DEF Examine, Propose, Goto
<1>12. CASE StartAction(w) /\ ~ Exit(w)
  BY <1>12 DEF StartAction, Goto
<1>13. CASE Launch(w)
  BY <1>13 DEF Launch, Goto
<1>14. CASE ProcessEnds(w)
  BY <1>14 DEF ProcessEnds, Goto
<1>15. CASE Heartbeat(w)
  BY <1>15 DEF Heartbeat
<1>16. CASE SettleAction(w) /\ ~ Exit(w)
  BY <1>16 DEF SettleAction, Goto
<1>17. CASE Reconcile(w) /\ ~ Exit(w)
  BY <1>17 DEF Reconcile, Propose, Goto
<1>18. CASE CheckOutcome(w)
  BY <1>18 DEF CheckOutcome, Propose, Goto
<1>19. CASE Seal(w) /\ ~ Exit(w)
  BY <1>19 DEF Seal, Propose, Goto
<1>20. CASE Decide(w) /\ ~ Exit(w)
  BY <1>20 DEF Decide, Propose, Goto
<1> QED
  BY <1>1, <1>2, <1>3, <1>4, <1>5, <1>6, <1>7, <1>8, <1>9, <1>10, <1>11, <1>12, <1>13, <1>14, <1>15, <1>16, <1>17, <1>18, <1>19, <1>20 DEF Acts, WorkerStep, Crash

\* A step of w keeps unlaunched what w may still launch.
LEMMA UnlaunchedActs ==
  ASSUME NEW w \in Workers, StoreOK, MemoryOK, AtAction, DeletedForGood, Execution, Launches, Acts(w)
  PROVE  Unlaunched(w)'
<1> USE DEF At, MemoryOK, store, memory, observed, Unlaunched
<1>1. CASE Exit(w)
  BY <1>1 DEF Exit, Gone, Goto
<1>2. CASE Resume(w)
  BY <1>2 DEF Resume, Propose, Goto
<1>3. CASE Acquire(w) /\ ~ Exit(w)
  BY <1>3 DEF Acquire, Goto
<1>4. CASE Scan(w) /\ ~ Exit(w)
  BY <1>4, LeastTyped DEF Scan, Goto
<1>5. CASE MarkAmbiguous(w) /\ ~ Exit(w)
  BY <1>5 DEF MarkAmbiguous, Gone, Goto
<1>6. CASE RetryFailed(w) /\ ~ Exit(w)
  BY <1>6 DEF RetryFailed, Propose, Goto
<1>7. CASE Relist(w)
  BY <1>7 DEF Relist, Goto
<1>8. CASE Open(w)
  BY <1>8 DEF Open, Propose, Goto
<1>9. CASE Move(w) /\ ~ Exit(w)
  BY <1>9 DEF Move, Gone, Goto
<1>10. CASE Reread(w) /\ ~ Exit(w)
  BY <1>10 DEF Reread, Goto, Goals
<1>11. CASE Examine(w) /\ ~ Exit(w)
  BY <1>11 DEF Examine, Propose, Goto
<1>12. CASE StartAction(w) /\ ~ Exit(w)
  <2>1. /\ pc' = [pc EXCEPT ![w] = "launch"] /\ cur' = cur /\ launched' = launched
        /\ HoldsLease(w) /\ actions[cur[w]].state = "PENDING" /\ pc[w] = "start"
    BY <1>12 DEF StartAction, Goto
  <2>2. cur[w] \in Unkillable \/ launched[cur[w]] = 0
    <3>1. cur[w] \in Actions
      BY <2>1 DEF AtAction, Site
    <3> QED
      BY <2>1, <3>1, NotDeletedUnderLease DEF Launches, Launchable
  <2> QED
    BY <2>1, <2>2
<1>13. CASE Launch(w)
  BY <1>13 DEF Launch, Goto, AtAction, Site, Launches, Unlaunched
<1>14. CASE ProcessEnds(w)
  BY <1>14 DEF ProcessEnds, Goto
<1>15. CASE Heartbeat(w)
  BY <1>15 DEF Heartbeat
<1>16. CASE SettleAction(w) /\ ~ Exit(w)
  BY <1>16 DEF SettleAction, Goto
<1>17. CASE Reconcile(w) /\ ~ Exit(w)
  BY <1>17 DEF Reconcile, Propose, Goto
<1>18. CASE CheckOutcome(w)
  BY <1>18 DEF CheckOutcome, Propose, Goto
<1>19. CASE Seal(w) /\ ~ Exit(w)
  BY <1>19 DEF Seal, Propose, Goto
<1>20. CASE Decide(w) /\ ~ Exit(w)
  BY <1>20 DEF Decide, Propose, Goto
<1> QED
  BY <1>1, <1>2, <1>3, <1>4, <1>5, <1>6, <1>7, <1>8, <1>9, <1>10, <1>11, <1>12, <1>13, <1>14, <1>15, <1>16, <1>17, <1>18, <1>19, <1>20 DEF Acts, WorkerStep, Crash

\* A row that is or becomes startable is one for which nothing was launched.
LEMMA RowsLaunchable ==
  ASSUME StoreOK, MemoryOK, AtAction, DeletedForGood, Launches, Execution, [Next]_vars,
         launched' = launched
  PROVE  \A a \in Actions : Launchable(a)'
<1> USE DEF Launchable
<1>1. runState = "DELETED" => runState' = "DELETED"
  BY StaysDeleted
<1>2. CASE UNCHANGED actions
  BY <1>1, <1>2 DEF Launches
<1>3. ASSUME NEW w \in Workers, Marks(w) PROVE \A a \in Actions : Launchable(a)'
  BY <1>1, <1>3 DEF Launches, Marks, SetAction, StoreOK, ActionRow
<1>4. ASSUME NEW w \in Workers, Retries(w) PROVE \A a \in Actions : Launchable(a)'
  <2>1. cur[w] \in Actions /\ Fresh(w)
    BY <1>4 DEF Retries, At, AtAction, Site, HoldsLease, Fresh
  <2>2. cur[w] \in Unkillable \/ launched[cur[w]] = 0
    BY <1>4, <2>1, NotDeletedUnderLease DEF Launches, Launchable, Unlaunched, Retries, At, FailedStates
  <2> QED
    BY <1>1, <1>4, <2>1, <2>2 DEF Launches, Retries, SetAction, StoreOK, ActionRow
<1>5. ASSUME NEW w \in Workers, Starts(w) PROVE \A a \in Actions : Launchable(a)'
  BY <1>1, <1>5 DEF Launches, Starts, StoreOK, ActionRow
<1>6. ASSUME NEW w \in Workers, Settles(w) PROVE \A a \in Actions : Launchable(a)'
  <2>1. /\ SettledState(result[w]) # "PENDING"
        /\ SettledState(result[w]) \in {"UNAVAILABLE", "ERRORED"} =>
             cur[w] \in Unkillable \/ launched[cur[w]] = 0
    BY <1>6 DEF SettledState, Launches, Unlaunched, Settles, At
  <2> QED
    BY <1>1, <1>6, <2>1 DEF Launches, Settles, SetAction, StoreOK, ActionRow
<1>7. CASE DeleteRun
  BY <1>7 DEF DeleteRun
<1> QED
  BY <1>2, <1>3, <1>4, <1>5, <1>6, <1>7, WorkerRows, OtherSteps

\* The rows of other workers' actions.
LEMMA UnlaunchedOthers ==
  ASSUME StoreOK, MemoryOK, AtAction, DeletedForGood, Launches, Execution, [Next]_vars,
         NEW u \in Workers, Same(u), Fresh(u)' => Fresh(u), launched' = launched,
         \A w \in Workers : Acts(w) => w # u
  PROVE  Unlaunched(u)'
<1>1. Unlaunched(u)
  BY DEF Launches
<1>2. ASSUME pc[u] = "retry", Fresh(u)'
      PROVE  actions'[cur[u]].state \in {"UNAVAILABLE", "ERRORED", "AMBIGUOUS"}
  <2>1. /\ Fresh(u) /\ cur[u] \in Actions
        /\ actions[cur[u]].state \in {"UNAVAILABLE", "ERRORED", "AMBIGUOUS"}
    BY <1>1, <1>2 DEF Unlaunched, AtAction, Site
  <2>2. CASE UNCHANGED actions
    BY <2>1, <2>2
  <2>3. ASSUME NEW w \in Workers, Marks(w) PROVE actions'[cur[u]].state \in {"UNAVAILABLE", "ERRORED", "AMBIGUOUS"}
    BY <2>1, <2>3 DEF Marks, SetAction, StoreOK, ActionRow
  <2>4. ASSUME NEW w \in Workers, w # u, HoldsLease(w) PROVE FALSE
    BY <2>1, <2>4, OneFresh
  <2>5. ~ DeleteRun
    BY <1>2, WorkersAssumption DEF DeleteRun, NoLease, Fresh
  <2> QED
    BY <2>2, <2>3, <2>4, <2>5, WorkerRows, OtherSteps DEF Retries, Starts, Settles
<1> QED
  BY <1>1, <1>2 DEF Unlaunched, Same

\* Every step keeps launches single.
LEMMA LaunchesStep ==
  ASSUME StoreOK, MemoryOK, AtAction, DeletedForGood, Launches, Execution, [Next]_vars
  PROVE  Launches'
<1>1. runState = "DELETED" => runState' = "DELETED"
  BY StaysDeleted
<1>2. CASE launched' = launched
  <2>1. EffectsNotReplayed' /\ \A a \in Actions : Launchable(a)'
    BY <1>2, RowsLaunchable DEF Launches, EffectsNotReplayed
  <2>2. ASSUME NEW u \in Workers PROVE Unlaunched(u)'
    <3>1. CASE Acts(u)
      BY <3>1, UnlaunchedActs
    <3>2. ASSUME NEW w \in Workers, Acts(w), w # u, ~ Acts(u) PROVE Unlaunched(u)'
      BY <1>2, <3>2, OthersSame, FreshKept, UnlaunchedOthers
    <3>3. CASE \A w \in Workers : ~ Acts(w)
      <4>1. Same(u)
        BY <3>3, OtherSteps DEF Same, memory
      <4> QED
        BY <1>2, <3>3, <4>1, FreshOtherSteps, UnlaunchedOthers
    <3> QED
      BY <3>1, <3>2, <3>3
  <2> QED
    BY <2>1, <2>2 DEF Launches
<1>3. ASSUME NEW w \in Workers, Acts(w), pc[w] = "launch", pc'[w] = "run", cur' = cur,
             launched' = [launched EXCEPT ![cur[w]] = @ + 1],
             UNCHANGED <<actions, settled, failed, runState>>
      PROVE  Launches'
  <2>1. /\ w \in Executing /\ cur[w] \in Actions
        /\ cur[w] \in Unkillable \/ launched[cur[w]] = 0
        /\ runState = "DELETED" \/ actions[cur[w]].state \in {"RUNNING", "AMBIGUOUS"}
    BY <1>3 DEF Executing, AtAction, Site, Launches, Unlaunched, Execution
  <2>2. EffectsNotReplayed'
    BY <1>3, <2>1 DEF EffectsNotReplayed, Launches, StoreOK
  <2>3. \A a \in Actions : Launchable(a)'
    BY <1>3, <2>1 DEF Launches, Launchable, StoreOK
  <2>4. Unlaunched(w)'
    BY <1>3, UnlaunchedActs
  <2>5. ASSUME NEW u \in Workers, u # w PROVE Unlaunched(u)'
    <3>1. u \notin Executing
      BY <2>1, <2>5 DEF Execution, SoleExecutor
    <3>2. Same(u) /\ (Fresh(u)' => Fresh(u))
      BY <1>3, <2>5, OthersSame, FreshKept
    <3>3. Unlaunched(u)
      BY DEF Launches
    <3> QED
      BY <1>3, <3>1, <3>2, <3>3 DEF Unlaunched, Same, Executing
  <2> QED
    BY <2>2, <2>3, <2>4, <2>5 DEF Launches
<1> QED
  BY <1>2, <1>3, LaunchActs, OtherSteps DEF observed

-----------------------------------------------------------------------------
(* The attempt budget. *)

\* Attempts change in one place only.
LEMMA AttemptsKept ==
  ASSUME StoreOK, NEW w \in Workers, Acts(w), ~ Starts(w), NEW a \in Actions
  PROVE  actions'[a].attempts = actions[a].attempts
<1>1. CASE UNCHANGED actions
  BY <1>1
<1>2. ASSUME NEW s, SetAction(cur[w], s) PROVE actions'[a].attempts = actions[a].attempts
  BY <1>2 DEF SetAction, StoreOK, ActionRow
<1> QED
  BY <1>1, <1>2, WorkerRows DEF Marks, Retries, Settles

\* A step of w keeps the attempts w remembers those of the store while w holds
\* the latest lease.
LEMMA WithinBudgetActs ==
  ASSUME NEW w \in Workers, StoreOK, MemoryOK, AtAction, TokensIssued, WithinBudget(w), Fresh(w)' => pc'[w] = "scan" \/ (Fresh(w) /\ lease' = lease), Acts(w)
  PROVE  WithinBudget(w)'
<1> USE DEF At, MemoryOK, Site, WithinBudget
<1>1. CASE Exit(w)
  BY <1>1, NoGoalFields DEF Exit, Gone, Goto
<1>2. CASE Resume(w)
  BY <1>2 DEF Resume, Propose, Goto, memory, observed, store
<1>3. CASE Acquire(w) /\ ~ Exit(w)
  BY <1>3 DEF Acquire, Goto, memory, observed, store
<1>4. CASE Scan(w) /\ ~ Exit(w)
  BY <1>4 DEF Scan, Goto, memory, observed, store
<1>5. CASE MarkAmbiguous(w) /\ ~ Exit(w)
  BY <1>5, NoGoalFields DEF MarkAmbiguous, Gone, Goto, memory, observed, store
<1>6. CASE RetryFailed(w) /\ ~ Exit(w)
  BY <1>6 DEF RetryFailed, Propose, Goto, memory, observed, store
<1>7. CASE Relist(w)
  BY <1>7 DEF Relist, Goto, memory, observed, store
<1>8. CASE Open(w)
  BY <1>8 DEF Open, Propose, Goto, memory, observed, store
<1>9. CASE Move(w) /\ ~ Exit(w)
  BY <1>9, NoGoalFields DEF Move, Gone, Goto, memory, observed, store
<1>10. CASE Reread(w) /\ ~ Exit(w)
  BY <1>10, NoGoalFields DEF Reread, Goto, memory, observed, store
<1>11. CASE Examine(w) /\ ~ Exit(w)
  <2> DEFINE b == Min(Unfinished(w))
  <2>1. /\ pc[w] = "loop" /\ cur' = [cur EXCEPT ![w] = b] /\ seen' = seen /\ token' = token
        /\ UNCHANGED <<actions, lease>> /\ Unfinished(w) # {}
    BY <1>11 DEF Examine, store
  <2>2. \/ /\ seen[w][b].attempts < MaxAttempts
           /\ \/ pc' = [pc EXCEPT ![w] = "start"] /\ goal' = goal
              \/ \E to : /\ pc' = [pc EXCEPT ![w] = "move"]
                         /\ goal' = [goal EXCEPT ![w] = [to |-> to, next |-> "start"]]
        \/ \E to : /\ pc' = [pc EXCEPT ![w] = "move"]
                   /\ goal' = [goal EXCEPT ![w] = [to |-> to, next |-> "idle"]]
    <3>1. b \in Actions /\ seen[w][b].attempts \in Nat
      BY <2>1, LeastTyped DEF ActionRow
    <3>2. \A workspace, expired :
            Refusal(b, seen[w][b].attempts, workspace, expired) = "none" => seen[w][b].attempts < MaxAttempts
      BY <3>1, BoundsAssumption DEF Refusal, Exhausted
    <3>3. \E workspace, expired :
            LET refusal == Refusal(b, seen[w][b].attempts, workspace, expired) IN
            \/ Propose(w, refusal, "idle")
            \/ refusal = "none" /\ Propose(w, PhaseFor(b), "start")
            \/ refusal = "none" /\ Goto(w, "start") /\ goal' = goal
      BY <1>11 DEF Examine
    <3> QED
      BY <3>2, <3>3 DEF Propose, Goto
  <2>3. b \in Actions /\ b >= cur[w]
    <3>1. b \in Actions /\ b \in Unfinished(w)
      BY <2>1, LeastTyped
    <3> HIDE DEF b
    <3> QED
      BY <3>1 DEF Unfinished
  <2>4. \A a \in Actions : a >= b => a >= cur[w]
    <3> HIDE DEF b
    <3> QED
      BY <2>3, ActionsAreNat
  <2>5. Fresh(w)' => \A a \in Actions : a >= cur[w] => actions[a].attempts = seen[w][a].attempts
    BY <2>1, <2>2
  <2> HIDE DEF b
  <2> QED
    BY <2>1, <2>2, <2>3, <2>4, <2>5
<1>12. CASE StartAction(w) /\ ~ Exit(w)
  <2>1. /\ pc[w] = "start" /\ pc' = [pc EXCEPT ![w] = "launch"] /\ UNCHANGED <<memory, lease>>
        /\ actions' = [actions EXCEPT
                         ![cur[w]] = [state |-> "RUNNING", attempts |-> @.attempts + 1]]
    BY <1>12 DEF StartAction, Goto
  <2>2. \A a \in Actions : a > cur[w] => a >= cur[w] /\ a # cur[w]
    BY ActionsAreNat
  <2>3. \A a \in Actions : a > cur[w] => actions'[a] = actions[a]
    BY <2>1, <2>2 DEF StoreOK
  <2>4. Fresh(w)' => \A a \in Actions : a >= cur[w] => actions[a].attempts = seen[w][a].attempts
    BY <2>1
  <2> QED
    BY <2>1, <2>2, <2>3, <2>4 DEF memory
<1>13. CASE Launch(w)
  BY <1>13 DEF Launch, Goto, memory, observed, store
<1>14. CASE ProcessEnds(w)
  BY <1>14 DEF ProcessEnds, Goto, memory, observed, store
<1>15. CASE Heartbeat(w)
  BY <1>15 DEF Heartbeat, memory, observed, store
<1>16. CASE SettleAction(w) /\ ~ Exit(w)
  <2>1. /\ pc[w] = "settle" /\ pc' = [pc EXCEPT ![w] = "decide"]
        /\ UNCHANGED <<seen, token, lease, cur, goal>>
        /\ SetAction(cur[w], SettledState(result[w]))
    BY <1>16 DEF SettleAction, Goto
  <2>2. \A a \in Actions : actions'[a].attempts = actions[a].attempts
    BY <2>1 DEF SetAction, StoreOK, ActionRow
  <2>3. Fresh(w)' => \A a \in Actions : a > cur[w] => actions[a].attempts = seen[w][a].attempts
    BY <2>1
  <2> QED
    BY <2>1, <2>2, <2>3
<1>17. CASE Reconcile(w) /\ ~ Exit(w)
  BY <1>17 DEF Reconcile, Propose, Goto, memory, observed, store
<1>18. CASE CheckOutcome(w)
  BY <1>18 DEF CheckOutcome, Propose, Goto, memory, observed, store
<1>19. CASE Seal(w) /\ ~ Exit(w)
  BY <1>19 DEF Seal, Propose, Goto, memory, observed, store
<1>20. CASE Decide(w) /\ ~ Exit(w)
  <2>1. /\ pc[w] = "decide" /\ UNCHANGED <<actions, lease, seen, token>>
        /\ \/ /\ pc' = [pc EXCEPT ![w] = "loop"] /\ goal' = goal
              /\ cur' = [cur EXCEPT ![w] = cur[w] + 1]
           \/ \E to : /\ pc' = [pc EXCEPT ![w] = "move"]
                      /\ goal' = [goal EXCEPT ![w] = [to |-> to, next |-> "idle"]]
    BY <1>20 DEF Decide, Propose, Goto, store
  <2>2. \A a \in Actions : a >= cur[w] + 1 => a > cur[w]
    BY ActionsAreNat
  <2>3. Fresh(w)' => \A a \in Actions : a > cur[w] => actions[a].attempts = seen[w][a].attempts
    BY <2>1
  <2> QED
    BY <2>1, <2>2, <2>3
<1> QED
  BY <1>1, <1>2, <1>3, <1>4, <1>5, <1>6, <1>7, <1>8, <1>9, <1>10, <1>11, <1>12, <1>13, <1>14, <1>15, <1>16, <1>17, <1>18, <1>19, <1>20 DEF Acts, WorkerStep, Crash

\* What another worker does cannot make a fresh worker's rows stale.
LEMMA WithinBudgetOthers ==
  ASSUME StoreOK, MemoryOK, NEW w \in Workers, Acts(w), NEW u \in Workers, u # w, WithinBudget(u)
  PROVE  WithinBudget(u)'
<1>1. Same(u) /\ (Fresh(u)' => Fresh(u))
  BY OthersSame, FreshKept
<1>2. ASSUME Fresh(u)', NEW a \in Actions PROVE actions'[a].attempts = actions[a].attempts
  BY <1>1, <1>2, AttemptsKept, OneFresh DEF Starts
<1> QED
  BY <1>1, <1>2 DEF WithinBudget, Site, Same

\* Every step keeps every action within its attempt budget.
LEMMA BudgetStep ==
  ASSUME StoreOK, MemoryOK, AtAction, TokensIssued, Budget, [Next]_vars
  PROVE  Budget'
<1>1. ASSUME NEW w \in Workers, Acts(w) PROVE Budget'
  <2>1. WithinBudget(w)'
    BY <1>1, FreshSelf, WithinBudgetActs DEF Budget
  <2>2. ASSUME NEW u \in Workers, u # w PROVE WithinBudget(u)'
    BY <1>1, <2>2, WithinBudgetOthers DEF Budget
  <2>3. CASE ~ Starts(w)
    BY <1>1, <2>1, <2>2, <2>3, AttemptsKept DEF Budget, AttemptBudget
  <2>4. CASE Starts(w)
    <3>1. /\ Fresh(w) /\ Site(w) = "start" /\ cur[w] \in Actions /\ cur[w] \in Nat
      BY <2>4, LeastTyped DEF Starts, HoldsLease, Fresh, At, Site, AtAction
    <3>2. actions[cur[w]].attempts < MaxAttempts
      BY <3>1 DEF Budget, WithinBudget
    <3>3. AttemptBudget'
      BY <2>4, <3>1, <3>2, BoundsAssumption DEF Starts, Budget, AttemptBudget, StoreOK, ActionRow
    <3> QED
      BY <2>1, <2>2, <3>3 DEF Budget
  <2> QED
    BY <2>3, <2>4
<1>2. CASE \A w \in Workers : ~ Acts(w)
  <2>1. ASSUME NEW u \in Workers PROVE WithinBudget(u)'
    <3>1. Same(u)
      BY <1>2, OtherSteps DEF Same, memory
    <3>2. Fresh(u)' => Fresh(u) /\ UNCHANGED actions
      BY <1>2, FreshOtherSteps, OtherSteps
    <3>3. WithinBudget(u)
      BY DEF Budget
    <3> QED
      BY <3>1, <3>2, <3>3 DEF WithinBudget, Site, Same
  <2>2. AttemptBudget'
    BY <1>2, OtherSteps, BoundsAssumption DEF Budget, AttemptBudget, DeleteRun, BlankTable
  <2> QED
    BY <2>1, <2>2 DEF Budget
<1> QED
  BY <1>1, <1>2

-----------------------------------------------------------------------------
(* The sealed snapshot. *)

\* Marking an ambiguous row ambiguous changes nothing.
LEMMA AlreadyAmbiguous ==
  \A r \in ActionRow : r.state = "AMBIGUOUS" => [r EXCEPT !.state = "AMBIGUOUS"] = r
BY DEF ActionRow

\* A table of successes outlives every step but the deletion of the run.
LEMMA StandsForKept ==
  ASSUME StoreOK, [Next]_vars, ~ DeleteRun, NEW t \in [Actions -> ActionRow], StandsFor(t)
  PROVE  StandsFor(t)'
<1>1. \A a \in Actions : actions[a].state \in {"SUCCEEDED", "AMBIGUOUS"}
  BY DEF StandsFor, ActionRow
<1>2. CASE UNCHANGED actions
  BY <1>2 DEF StandsFor
<1>3. ASSUME NEW w \in Workers, Marks(w) PROVE StandsFor(t)'
  <2>1. ASSUME NEW a \in Actions
        PROVE  actions'[a] \in {actions[a], [actions[a] EXCEPT !.state = "AMBIGUOUS"]}
    BY <1>3 DEF Marks, SetAction, StoreOK
  <2>2. ASSUME NEW a \in Actions
        PROVE  actions'[a] \in {t[a], [t[a] EXCEPT !.state = "AMBIGUOUS"]}
    <3>1. actions[a] = t[a] \/ actions[a] = [t[a] EXCEPT !.state = "AMBIGUOUS"]
      BY DEF StandsFor
    <3>2. CASE actions[a] = t[a]
      BY <2>1, <3>2
    <3>3. CASE actions[a] = [t[a] EXCEPT !.state = "AMBIGUOUS"]
      <4>1. [actions[a] EXCEPT !.state = "AMBIGUOUS"] = actions[a]
        BY <3>3, AlreadyAmbiguous DEF StoreOK, ActionRow
      <4> QED
        BY <2>1, <3>3, <4>1
    <3> QED
      BY <3>1, <3>2, <3>3
  <2> QED
    BY <2>2 DEF StandsFor
<1>4. ASSUME NEW w \in Workers, Retries(w) \/ Starts(w) \/ Settles(w), cur[w] \in Actions PROVE FALSE
  BY <1>1, <1>4 DEF Retries, Starts, Settles, FailedStates
<1>5. ASSUME NEW w \in Workers, Retries(w) \/ Starts(w) \/ Settles(w), cur[w] \notin Actions
      PROVE  UNCHANGED actions
  BY <1>5 DEF Retries, Starts, Settles, SetAction, StoreOK
<1> QED
  BY <1>2, <1>3, <1>4, <1>5, WorkerRows, OtherSteps

\* The snapshot is sealed over the table a worker just found all SUCCEEDED.
LEMMA SealActs ==
  ASSUME NEW w \in Workers, MemoryOK, Acts(w)
  PROVE  /\ \/ sealed' = sealed
            \/ sealed' = seen[w] /\ pc[w] = "seal" /\ runState # "DELETED"
         /\ pc'[w] = "seal" => seen'[w] = actions /\ AllSucceeded /\ UNCHANGED actions
<1> USE DEF At, MemoryOK, store, memory, observed
<1>1. CASE Exit(w)
  BY <1>1 DEF Exit, Gone, Goto
<1>2. CASE Resume(w)
  BY <1>2 DEF Resume, Propose, Goto
<1>3. CASE Acquire(w) /\ ~ Exit(w)
  BY <1>3 DEF Acquire, Goto
<1>4. CASE Scan(w) /\ ~ Exit(w)
  BY <1>4 DEF Scan, Goto
<1>5. CASE MarkAmbiguous(w) /\ ~ Exit(w)
  BY <1>5 DEF MarkAmbiguous, Gone, Goto
<1>6. CASE RetryFailed(w) /\ ~ Exit(w)
  BY <1>6 DEF RetryFailed, Propose, Goto
<1>7. CASE Relist(w)
  BY <1>7 DEF Relist, Goto
<1>8. CASE Open(w)
  BY <1>8 DEF Open, Propose, Goto
<1>9. CASE Move(w) /\ ~ Exit(w)
  BY <1>9 DEF Move, Gone, Goto
<1>10. CASE Reread(w) /\ ~ Exit(w)
  BY <1>10 DEF Reread, Goto, Goals
<1>11. CASE Examine(w) /\ ~ Exit(w)
  BY <1>11 DEF Examine, Propose, Goto
<1>12. CASE StartAction(w) /\ ~ Exit(w)
  BY <1>12 DEF StartAction, Goto
<1>13. CASE Launch(w)
  BY <1>13 DEF Launch, Goto
<1>14. CASE ProcessEnds(w)
  BY <1>14 DEF ProcessEnds, Goto
<1>15. CASE Heartbeat(w)
  BY <1>15 DEF Heartbeat
<1>16. CASE SettleAction(w) /\ ~ Exit(w)
  BY <1>16 DEF SettleAction, Goto
<1>17. CASE Reconcile(w) /\ ~ Exit(w)
  BY <1>17 DEF Reconcile, Propose, Goto
<1>18. CASE CheckOutcome(w)
  BY <1>18 DEF CheckOutcome, Propose, Goto
<1>19. CASE Seal(w) /\ ~ Exit(w)
  BY <1>19 DEF Seal, Propose, Goto
<1>20. CASE Decide(w) /\ ~ Exit(w)
  BY <1>20 DEF Decide, Propose, Goto
<1> QED
  BY <1>1, <1>2, <1>3, <1>4, <1>5, <1>6, <1>7, <1>8, <1>9, <1>10, <1>11, <1>12, <1>13, <1>14, <1>15, <1>16, <1>17, <1>18, <1>19, <1>20 DEF Acts, WorkerStep, Crash

\* Every step keeps the sealed table standing.
LEMMA SealingStep ==
  ASSUME StoreOK, MemoryOK, DeletedForGood, Sealing, [Next]_vars
  PROVE  Sealing'
<1>1. runState = "DELETED" => runState' = "DELETED"
  BY StaysDeleted
<1>2. ASSUME ~ DeleteRun, NEW t \in [Actions -> ActionRow], StandsFor(t), NEW a \in Actions
      PROVE  t[a].state = "SUCCEEDED" /\ actions'[a] \in {t[a], [t[a] EXCEPT !.state = "AMBIGUOUS"]}
  BY <1>2, StandsForKept DEF StandsFor
<1>3. ASSUME ~ DeleteRun, NEW u \in Workers, pc[u] = "seal", runState # "DELETED"
      PROVE  \A a \in Actions :
               /\ seen[u][a].state = "SUCCEEDED"
               /\ actions'[a] \in {seen[u][a], [seen[u][a] EXCEPT !.state = "AMBIGUOUS"]}
  BY <1>2, <1>3 DEF Sealing, MemoryOK
<1>4. ASSUME ~ DeleteRun, sealed' = sealed PROVE SealedIsSuccess'
  BY <1>2, <1>4 DEF Sealing, SealedIsSuccess, StandsFor, StoreOK
<1>5. ASSUME ~ DeleteRun, NEW u \in Workers, pc[u] = "seal", pc'[u] = pc[u], seen'[u] = seen[u]
      PROVE  runState' = "DELETED" \/ StandsFor(seen[u])'
  BY <1>1, <1>3, <1>5 DEF StandsFor
<1>6. ASSUME NEW w \in Workers, Acts(w), ~ DeleteRun PROVE Sealing'
  <2>1. SealedIsSuccess'
    <3>1. CASE sealed' = seen[w] /\ pc[w] = "seal" /\ runState # "DELETED"
      BY <1>3, <1>6, <3>1 DEF SealedIsSuccess, StandsFor
    <3> QED
      BY <1>4, <1>6, <3>1, SealActs
  <2>2. ASSUME NEW u \in Workers, u # w, pc'[u] = "seal"
        PROVE  runState' = "DELETED" \/ StandsFor(seen[u])'
    BY <1>5, <1>6, <2>2, OthersSame DEF Same
  <2>3. ASSUME pc'[w] = "seal" PROVE StandsFor(seen[w])'
    BY <1>6, <2>3, SealActs DEF AllSucceeded, WithState, StandsFor
  <2> QED
    BY <2>1, <2>2, <2>3 DEF Sealing
<1>7. CASE DeleteRun
  BY <1>7 DEF DeleteRun, Sealing, SealedIsSuccess
<1>8. CASE (\A w \in Workers : ~ Acts(w)) /\ ~ DeleteRun
  <2>1. pc' = pc /\ seen' = seen
    BY <1>8, OtherSteps DEF memory
  <2>2. sealed' = sealed
    BY <1>8 DEF Acts, Next, vars, store, LeaseExpires, DurationExceeded, Operator, CancelRead,
                CancelCheckLease, CancelCheckActions, CancelCommit, Attest
  <2>3. \A u \in Workers : pc'[u] = "seal" => runState' = "DELETED" \/ StandsFor(seen[u])'
    BY <1>5, <1>8, <2>1
  <2> QED
    BY <1>4, <1>8, <2>2, <2>3 DEF Sealing
<1> QED
  BY <1>6, <1>7, <1>8

\* No step but the deletion of the run changes an ambiguous row.
LEMMA AmbiguousKept ==
  ASSUME StoreOK, [Next]_vars, NEW a \in WithState("AMBIGUOUS")
  PROVE  actions'[a] = actions[a] \/ runState' = "DELETED"
<1>1. a \in Actions /\ actions[a] \in ActionRow /\ actions[a].state = "AMBIGUOUS"
  BY DEF WithState, StoreOK
<1>2. ASSUME NEW w \in Workers, Marks(w) PROVE actions'[a] = actions[a]
  <2>1. [actions[a] EXCEPT !.state = "AMBIGUOUS"] = actions[a]
    BY <1>1, AlreadyAmbiguous
  <2> QED
    BY <1>1, <1>2, <2>1 DEF Marks, SetAction, StoreOK
<1>3. ASSUME NEW w \in Workers, Retries(w) \/ Starts(w) \/ Settles(w)
      PROVE  actions'[a] = actions[a]
  BY <1>1, <1>3 DEF Retries, Starts, Settles, SetAction, StoreOK, FailedStates
<1> QED
  BY <1>2, <1>3, WorkerRows, OtherSteps DEF DeleteRun

-----------------------------------------------------------------------------
(* The invariant holds initially and is kept by every step. *)

\* The type invariant is that of the store and that of the memory.
LEMMA TypeParts == TypeOK <=> StoreOK /\ MemoryOK
BY DEF TypeOK, StoreOK, MemoryOK

\* The inductive invariant holds of a freshly created run.
LEMMA InvariantInit == Init => IInv
<1> SUFFICES ASSUME Init PROVE IInv
  OBVIOUS
<1> USE DEF Init
<1>1. TypeOK /\ AtAction
  BY TypeInit
<1>2. DeletedForGood /\ TokensIssued /\ StartAtFirst
  BY NoGoalFields DEF DeletedForGood, TokensIssued, StartAtFirst, AtFirst, Site, NoOp, NoLease
<1>3. RowsInOrder
  BY DEF RowsInOrder, EffectsInOrder, BlankTable
<1>4. WorkersInOrder
  BY DEF WorkersInOrder, InOrder, Site, BlankTable
<1>5. Execution
  BY DEF Execution, SoleExecutor, Executing
<1>6. Launches
  BY DEF Launches, EffectsNotReplayed, Launchable, Unlaunched
<1>7. Budget
  BY BoundsAssumption DEF Budget, AttemptBudget, WithinBudget, Site, BlankTable
<1>8. Sealing
  BY DEF Sealing, SealedIsSuccess
<1> QED
  BY <1>1, <1>2, <1>3, <1>4, <1>5, <1>6, <1>7, <1>8 DEF IInv

\* The inductive invariant is preserved by every step.
LEMMA InvariantStep == IInv /\ [Next]_vars => IInv'
<1> SUFFICES ASSUME IInv, [Next]_vars PROVE IInv'
  OBVIOUS
<1> USE DEF IInv
<1>1. StoreOK /\ MemoryOK
  BY TypeParts
<1>2. TypeOK'
  <2>1. StoreOK' /\ MemoryOK'
    BY <1>1, TypeStep
  <2> QED
    BY <2>1 DEF TypeOK, StoreOK, MemoryOK
<1>3. AtAction'
  BY <1>1, AtActionStep
<1>4. DeletedForGood' /\ TokensIssued'
  BY <1>1, DeletedForGoodStep, TokensIssuedStep
<1>5. StartAtFirst'
  BY <1>1, StartAtFirstStep
<1>6. RowsInOrder' /\ WorkersInOrder'
  BY <1>1, RowsInOrderStep, WorkersInOrderStep
<1>7. Execution'
  BY <1>1, ExecutionStep
<1>8. Launches'
  BY <1>1, LaunchesStep
<1>9. Budget'
  BY <1>1, BudgetStep
<1>10. Sealing'
  BY <1>1, SealingStep
<1> QED
  BY <1>2, <1>3, <1>4, <1>5, <1>6, <1>7, <1>8, <1>9, <1>10

\* The inductive invariant holds in every state of every run.
THEOREM Invariance == Spec => []IInv
BY InvariantInit, InvariantStep, PTL DEF Spec

\* Every variable always has its type.
THEOREM TypeCorrect == Spec => []TypeOK
<1>1. IInv => TypeOK
  BY DEF IInv
<1> QED
  BY <1>1, Invariance, PTL

\* No effect of a run is launched twice, for any number of workers, actions,
\* crashes and lapsed leases.
THEOREM NoReplay == Spec => []EffectsNotReplayed
<1>1. IInv => EffectsNotReplayed
  BY DEF IInv, Launches
<1> QED
  BY <1>1, Invariance, PTL

\* No two processes are between the intent of an effect and its settlement.
THEOREM OneExecutor == Spec => []SoleExecutor
<1>1. IInv => SoleExecutor
  BY DEF IInv, Execution
<1> QED
  BY <1>1, Invariance, PTL

\* Effects follow the order and the dependencies of the objective: what an
\* action depends on settled SUCCEEDED before it leaves PENDING, and so did every
\* earlier action, save one whose settled failure was marked AMBIGUOUS.
THEOREM OrderKept == Spec => []EffectsInOrder
<1>1. IInv => EffectsInOrder
  BY DEF IInv, RowsInOrder
<1> QED
  BY <1>1, Invariance, PTL

\* The snapshot handed to the verifier digests successes only.
THEOREM SealSound == Spec => []SealedIsSuccess
<1>1. IInv => SealedIsSuccess
  BY DEF IInv, Sealing
<1> QED
  BY <1>1, Invariance, PTL

\* No action exceeds its attempt budget.
THEOREM BudgetKept == Spec => []AttemptBudget
<1>1. IInv => AttemptBudget
  BY DEF IInv, Budget
<1> QED
  BY <1>1, Invariance, PTL

\* An ambiguous action keeps its row until the run is deleted.
THEOREM AmbiguityKept == Spec => AmbiguousIsFinal
<1>1. IInv /\ [Next]_vars =>
        [\A a \in WithState("AMBIGUOUS") : actions'[a] = actions[a] \/ runState' = "DELETED"]_vars
  <2> SUFFICES ASSUME IInv, [Next]_vars, NEW a \in WithState("AMBIGUOUS")
               PROVE  actions'[a] = actions[a] \/ runState' = "DELETED"
    OBVIOUS
  <2> QED
    BY TypeParts, AmbiguousKept DEF IInv
<1> QED
  BY <1>1, Invariance, PTL DEF Spec, AmbiguousIsFinal

=============================================================================
