--------------------------- MODULE HostedRunProofs ---------------------------
(* Theorems about HostedRun, for every set of objectives and of requests and *)
(* every number of faults and answers.                                       *)
EXTENDS HostedRun, TLAPS, FiniteSetTheorems, SequenceTheorems, WellFoundedInduction

-----------------------------------------------------------------------------
(* The inductive invariant, part by part.                                  *)

Refusals ==
  {"FAILED_SAFE", "BLOCKED_CAPABILITY", "BLOCKED_SAFETY", "AMBIGUOUS_EFFECT", "error"}

\* The waits of executeObjective, by the checkpoint that it began with.
Launching == {"access", "clone", "first-head", "base-head", "control-files", "launch"}
Polling == {"receipt", "receipt-head"}
Committed == {"commit-head", "refs", "push", "find", "create", "find-again"}
Executing == {"command", "probe"} \cup Committed

Labels ==
  {"idle", "acquire", "acquired", "unwind", "catch", "finish", "verify", "cleanup",
   "release"} \cup Launching \cup Polling \cup Executing

\* The handler is somewhere, and knows how it ends and where it goes next.
HandlerOK ==
  /\ pc \in Labels
  /\ fate \in Refusals \cup {"none", "idle", "release", "completed"}
  /\ pc = "catch" => fate \in Refusals
  /\ pc = "unwind" => fate \in Refusals \cup {"completed"}
  /\ pc \in {"finish", "verify", "cleanup"} => fate \in {"idle", "release"}
  /\ pc \in Launching => held = "none"
  /\ pc \in Polling => held = "pending"
  /\ pc \in Executing => held = "succeeded"

Answers == [nonce : Nat, decision : {"verified", "failed", "uncertain"}]

\* What a request submits was signed by the verifier.
VerifierOK ==
  /\ answers \subseteq Answers
  /\ submit \in [Requests -> answers \cup {NoSubmission}]

\* The actions that may have an intent without an outcome at each wait.
Busy ==
  CASE pc \in {"acquire", "acquired"} -> IF held = "pending" THEN {"implement"} ELSE {}
    [] pc \in {"access", "first-head", "base-head", "control-files", "probe", "commit-head",
               "refs"} -> {}
    [] pc = "clone" -> {"clone"}
    [] pc \in {"launch", "receipt", "receipt-head"} -> {"implement"}
    [] pc = "command" -> Commands
    [] pc = "push" -> {"push-branch"}
    [] pc \in {"find", "create", "find-again"} -> {"open-pull-request"}
    [] OTHER -> ActionIds

Running == {a \in ActionIds : rows[a] = "RUNNING"}

\* There is at most one intent without an outcome, and it is that of the wait.
OneIntent ==
  /\ Running \subseteq Busy
  /\ \A a, b \in Running : a = b

\* The checkpoint in the store, and the one in memory, agree with the row.
Checkpointed ==
  /\ Deleted => rows = NoRows /\ checkpoint = "none"
  /\ checkpoint = "pending" => rows["implement"] = "RUNNING"
  /\ checkpoint = "succeeded" => rows["implement"] = "SUCCEEDED"
  /\ held = "succeeded" => Deleted \/ rows["implement"] = "SUCCEEDED"

\* What was never intended was never requested.
Launches ==
  /\ EffectsNotReplayed
  /\ \A a \in ActionIds : rows[a] = "ABSENT" => Deleted \/ launched[a] = 0
  /\ pc = "find" =>
       /\ launched["open-pull-request"] = 0
       /\ Deleted \/ rows["open-pull-request"] # "ABSENT"

\* What is at GitHub comes from the intents in the table.
AtGitHub ==
  /\ "push-branch" \in inflight \/ branch # "none" => Deleted \/ rows["push-branch"] # "ABSENT"
  /\ rows["open-pull-request"] = "SUCCEEDED" => pull = "ours"
  /\ pc \in {"find", "create", "find-again"} =>
       branch = "ours" /\ objective.publication = "pull_request"

\* The command that the validation of the objective ends with has succeeded.
Validated ==
  objective.automatic \/
    \A i \in DOMAIN objective.validation :
      i = Len(objective.validation) => rows[objective.validation[i]] = "SUCCEEDED"

\* Publication follows the commit, which follows the validation.
InOrder ==
  /\ pc \in Committed => Deleted \/ (rows["create-commit"] = "SUCCEEDED" /\ Validated)
  /\ launched["push-branch"] > 0 => Deleted \/ Validated

\* The branch and the pull request of the objective are there and recorded.
Published ==
  /\ {"implement", "create-commit", "push-branch"} \subseteq Started(rows)
  /\ recorded = objective.publication
  /\ branch = "ours"
  /\ objective.publication = "pull_request" => pull = "ours"

\* The execution is over, and was not refused.
Concluded ==
  \/ pc = "unwind" /\ fate = "completed"
  \/ pc = "finish"
  \/ runState \in {"RECONCILING", "AWAITING_VERIFICATION", "VERIFIED"}

Judged == \E i \in DOMAIN verdicts : verdicts[i].decision # "uncertain"

\* The handler of a run that was handed over touches nothing of it, and a run
\* that was judged is not handed over again.
Reconciled ==
  /\ Concluded => Deleted \/ Published
  /\ runState = "RECONCILING" => pc \in {"idle", "finish"}
  /\ runState \in {"AWAITING_VERIFICATION", "VERIFIED"} =>
       /\ pc \in {"idle", "verify", "release"}
       /\ sealed = [rows |-> rows, published |-> recorded]
       /\ \A a \in ActionIds : rows[a] \in {"ABSENT", "SUCCEEDED"}

VerdictsOK ==
  /\ verdicts \in Seq(Answers)
  /\ \A i \in DOMAIN verdicts : verdicts[i].nonce \in replays
  /\ Judged =>
       runState \in TerminalStates \cup {"DELETED"} /\ pc \in {"idle", "verify", "release"}

IInv ==
  /\ TypeOK /\ HandlerOK /\ VerifierOK /\ OneIntent /\ Checkpointed /\ Launches
  /\ AtGitHub /\ InOrder /\ Reconciled /\ VerdictsOK

-----------------------------------------------------------------------------
(* The ids of the actions.                                                 *)

\* The ids that the code names, and those of an objective, are ids of actions,
\* and no command publishes.
LEMMA Ids ==
  /\ Operations \subseteq ActionIds /\ Commands \subseteq ActionIds
  /\ {"clone", "implement", "prepare-publication-credentials", "push-branch",
       "open-pull-request", "diff-check", "create-commit"} \subseteq ActionIds
  /\ {"diff-check", "create-commit"} \subseteq Commands
  /\ Operations \cap Commands = {}
  /\ "push-branch" \notin Commands /\ "open-pull-request" \notin Commands
BY ObjectivesAssumption DEF ActionIds, Operations, Commands

\* What an objective names are commands.
LEMMA CommandsOfObjective ==
  ASSUME NEW o \in Objectives
  PROVE  /\ o.validation \in Seq(Commands) /\ o.closing \in Seq(Commands)
         /\ o.publication \in {"branch", "pull_request"} /\ o.automatic \in BOOLEAN
<1>1. Range(o.validation) \cup Range(o.closing) \subseteq Commands
  BY DEF Commands
<1>2. ASSUME NEW s \in Seq(STRING), Range(s) \subseteq Commands PROVE s \in Seq(Commands)
  <2>1. \A i \in 1 .. Len(s) : s[i] \in Commands
    BY <1>2, LenProperties DEF Range
  <2> QED
    BY <1>2, <2>1, IsASeq
<1> QED
  BY <1>1, <1>2, ObjectivesAssumption

\* A nonempty set of naturals has a least member.
LEMMA Least ==
  ASSUME NEW S \in SUBSET Nat, S # {}
  PROVE  \E x \in S : \A y \in S : x <= y
<1> DEFINE Less == OpToRel(<, Nat)
<1>1. Less = {ss \in Nat \X Nat : ss[1] < ss[2]}
  BY DEF OpToRel
<1>2. IsWellFoundedOn(Less, Nat)
  BY NatLessThanWellFounded
<1> HIDE DEF Less
<1>3. PICK x \in S : \A y \in S : ~ (<<y, x>> \in Less)
  BY <1>2, WFMin
<1>4. \A y \in S : ~ (y < x)
  BY <1>1, <1>3
<1> QED
  BY <1>4

\* First returns a command of the sequence that has not succeeded.
LEMMA FirstUnsettled ==
  ASSUME NEW s \in Seq(Commands), Unsettled(s) # {}
  PROVE  First(s) \in Commands /\ rows[First(s)] # "SUCCEEDED"
<1>1. Unsettled(s) \subseteq Nat /\ Unsettled(s) \subseteq DOMAIN s
  BY LenProperties DEF Unsettled
<1>2. \E i \in Unsettled(s) : \A j \in Unsettled(s) : i <= j
  BY <1>1, Least
<1>3. \E i \in Unsettled(s) : First(s) = s[i]
  BY <1>2 DEF First
<1> QED
  BY <1>1, <1>3, ElementOfSeq, LenProperties DEF Unsettled

\* What is selected are commands, and for a profile that names its ecosystem
\* the last of them is the last of the profile.
LEMMA SelectedCommands ==
  ASSUME objective \in Objectives, NEW chosen \in Selected
  PROVE  /\ chosen \in Seq(Commands)
         /\ ~objective.automatic /\ objective.validation # <<>> =>
              \E i \in DOMAIN chosen :
                chosen[i] = objective.validation[Len(objective.validation)]
<1> DEFINE v == objective.validation
<1>1. v \in Seq(Commands) /\ objective.automatic \in BOOLEAN
  BY CommandsOfObjective
<1>2. PICK i \in 1 .. Len(v) + 1 :
        /\ chosen = SubSeq(v, i, Len(v))
        /\ ~objective.automatic /\ v # <<>> => i \in 1 .. Len(v)
  <2>1. PICK i \in 1 .. Len(v) + IF objective.automatic \/ v = <<>> THEN 1 ELSE 0 :
          chosen = SubSeq(v, i, Len(v))
    BY Zenon DEF Selected
  <2> HIDE DEF v
  <2>2. Len(v) \in Nat
    BY <1>1, LenProperties
  <2>3. i \in 1 .. Len(v) + 1
    BY <2>1, <2>2
  <2>4. ~objective.automatic /\ v # <<>> => i \in 1 .. Len(v)
    BY <2>1, <2>2
  <2> QED
    BY <2>1, <2>3, <2>4
<1> HIDE DEF v
<1>3. chosen \in Seq(Commands)
  BY <1>1, <1>2, SubSeqProperties, EmptySeq, LenProperties
<1>4. ASSUME i \in 1 .. Len(v) PROVE \E n \in DOMAIN chosen : chosen[n] = v[Len(v)]
  <2>1. Len(chosen) = Len(v) - i + 1 /\ \A n \in 1 .. Len(v) - i + 1 : chosen[n] = v[i + n - 1]
    BY <1>1, <1>2, <1>4, SubSeqProperties, LenProperties
  <2>2. Len(v) - i + 1 \in DOMAIN chosen /\ i + (Len(v) - i + 1) - 1 = Len(v)
    BY <1>1, <1>3, <1>4, <2>1, LenProperties
  <2> QED
    BY <1>1, <1>4, <2>1, <2>2, LenProperties
<1> QED
  BY <1>2, <1>3, <1>4 DEF v

-----------------------------------------------------------------------------
(* What lets an action begin, and what a run becomes.                      *)

\* startAction lets an action go on only while the run is there and the row of
\* the action is absent or a success.
LEMMA StartRefused ==
  ASSUME NEW a
  PROVE  /\ StartRefusal(a) \in Refusals \cup {"none"}
         /\ StartRefusal(a) = "none" => ~Deleted /\ rows[a] \in {"ABSENT", "SUCCEEDED"}
BY DEF StartRefusal, Refusals

CommandBegins == \E a \in Commands : ~Deleted /\ rows[a] = "ABSENT" /\ Begin(a, "command")
Refused == UNCHANGED <<rows, launched>> /\ \E f \in Refusals : Unwind(f)

\* runAction begins a command that is absent, or throws.
LEMMA RunActionSteps ==
  ASSUME NEW a \in Commands, RunAction(a), rows[a] # "SUCCEEDED" \/ RunRefusal(a) # "none"
  PROVE  CommandBegins \/ Refused
<1>1. RunRefusal(a) \in Refusals \cup {"none"}
  BY StartRefused DEF RunRefusal, Refusals
<1>2. CASE RunRefusal(a) = "none"
  <2>1. ~Deleted /\ rows[a] = "ABSENT"
    BY <1>2, StartRefused DEF RunRefusal
  <2>2. Begin(a, "command")
    BY <1>2 DEF RunAction
  <2> QED
    BY <2>1, <2>2 DEF CommandBegins
<1>3. CASE RunRefusal(a) # "none"
  BY <1>1, <1>3 DEF RunAction, Refused
<1> QED
  BY <1>2, <1>3

AcquiredFrame ==
  UNCHANGED <<checkpoint, recorded, sealed, replays, cancelPc, verifier, world, verdicts, faults>>

\* executeObjective begins in one of three ways, by the checkpoint.
LEMMA AcquiredSteps ==
  ASSUME Acquired
  PROVE  /\ pc = "acquired"
         /\ \/ /\ held = "none"
               /\ Refuse("FAILED_SAFE") \/ Await("access")
               /\ UNCHANGED <<runState, head, rows, launched>>
            \/ /\ held = "pending"
               /\ Await("receipt")
               /\ UNCHANGED <<runState, head, rows, launched>>
            \/ /\ held = "succeeded"
               /\ \/ runState = "EXECUTING" /\ TransitionTo("VALIDATING")
                  \/ UNCHANGED <<runState, head>>
               /\ \/ Await("probe") /\ UNCHANGED <<rows, launched>>
                  \/ CommandBegins \/ Refused
         /\ AcquiredFrame
<1>1. "diff-check" \in Commands
  BY Ids
<1>2. RunAction("diff-check") /\ (rows["diff-check"] # "SUCCEEDED" \/ RunRefusal("diff-check") # "none")
        => CommandBegins \/ Refused
  BY <1>1, RunActionSteps
<1> QED
  BY <1>2 DEF Acquired, At, AcquiredFrame

ProbeFrame ==
  UNCHANGED <<runState, head, checkpoint, recorded, sealed, replays, cancelPc, verifier, world,
              verdicts, faults>>

\* After the probe a command begins, unless all have succeeded: then the commit
\* is there, and the validation of the objective is over.
LEMMA ProbeSteps ==
  ASSUME Probe, objective \in Objectives
  PROVE  /\ pc = "probe"
         /\ \/ Refused \/ CommandBegins
            \/ /\ rows["create-commit"] = "SUCCEEDED" /\ Validated
               /\ Await("commit-head") /\ UNCHANGED <<rows, launched>>
         /\ ProbeFrame
<1>1. CASE (\E f \in {"FAILED_SAFE", "BLOCKED_SAFETY", "error"} : Unwind(f)) /\ UNCHANGED <<rows, launched>>
  BY <1>1 DEF Probe, At, ProbeFrame, Refused, Refusals
<1>2. ASSUME NEW chosen \in Selected,
             LET next == IF Unsettled(chosen) # {} THEN First(chosen) ELSE "create-commit" IN
             IF rows[next] = "SUCCEEDED" /\ RunRefusal(next) = "none"
               THEN Await("commit-head") /\ UNCHANGED <<rows, launched>>
               ELSE RunAction(next)
      PROVE  \/ Refused \/ CommandBegins
             \/ /\ rows["create-commit"] = "SUCCEEDED" /\ Validated
                /\ Await("commit-head") /\ UNCHANGED <<rows, launched>>
  <2>1. CASE Unsettled(chosen) # {}
    <3>1. First(chosen) \in Commands /\ rows[First(chosen)] # "SUCCEEDED"
      BY <2>1, FirstUnsettled, SelectedCommands
    <3>2. RunAction(First(chosen))
      BY <1>2, <2>1, <3>1
    <3> QED
      BY <3>1, <3>2, RunActionSteps
  <2>2. CASE Unsettled(chosen) = {}
    <3>1. Validated
      <4>1. chosen \in Seq(Commands) /\ \A i \in DOMAIN chosen : rows[chosen[i]] = "SUCCEEDED"
        BY <2>2, SelectedCommands DEF Unsettled
      <4>2. ASSUME NEW i \in DOMAIN objective.validation, i = Len(objective.validation),
                   ~objective.automatic
            PROVE  rows[objective.validation[i]] = "SUCCEEDED"
        <5>1. objective.validation \in Seq(Commands)
          BY CommandsOfObjective
        <5>2. objective.validation # <<>>
          BY <4>2, <5>1, LenProperties
        <5> QED
          BY <4>1, <4>2, <5>2, SelectedCommands
      <4> QED
        BY <4>2 DEF Validated
    <3>2. "create-commit" \in Commands
      BY Ids
    <3>3. CASE rows["create-commit"] = "SUCCEEDED" /\ RunRefusal("create-commit") = "none"
      BY <1>2, <2>2, <3>1, <3>3
    <3>4. CASE ~(rows["create-commit"] = "SUCCEEDED" /\ RunRefusal("create-commit") = "none")
      <4>1. RunAction("create-commit")
        BY <1>2, <2>2, <3>4
      <4> QED
        BY <3>2, <3>4, <4>1, RunActionSteps
    <3> QED
      BY <3>3, <3>4
  <2> QED
    BY <2>1, <2>2
<1> QED
  BY <1>1, <1>2 DEF Probe, At, ProbeFrame

CommitFrame ==
  UNCHANGED <<checkpoint, recorded, sealed, replays, cancelPc, verifier, world, verdicts, faults>>

\* After the commit was inspected a closing command begins, or the publication.
LEMMA CommitHeadSteps ==
  ASSUME CommitHead, objective \in Objectives
  PROVE  /\ pc = "commit-head"
         /\ \/ (Refused \/ CommandBegins) /\ UNCHANGED <<runState, head>>
            \/ EnterPublishing /\ UNCHANGED <<rows, launched>>
         /\ CommitFrame
<1> DEFINE closing == objective.closing
<1>1. closing \in Seq(Commands)
  BY CommandsOfObjective
<1>2. RunAction(First(closing)) /\ Unsettled(closing) # {} => CommandBegins \/ Refused
  BY <1>1, FirstUnsettled, RunActionSteps
<1>3. RunRefusal(closing[1]) \in Refusals \cup {"none"}
  BY StartRefused DEF RunRefusal, Refusals
<1> QED
  BY <1>2, <1>3 DEF CommitHead, At, CommitFrame, Refused, Refusals

\* A decision leaves a verdict or the run awaiting another one.
LEMMA Decided ==
  ASSUME NEW d \in {"verified", "failed", "uncertain"}
  PROVE  /\ d = "verified" => DecidedState(d) = "VERIFIED"
         /\ d = "failed" => DecidedState(d) = "FAILED_SAFE"
         /\ d = "uncertain" => DecidedState(d) = "AWAITING_VERIFICATION"
BY Zenon DEF DecidedState

\* The states that the steps name are states of a run.
LEMMA States ==
  /\ {"RECEIVED", "QUEUED", "EXECUTING", "VALIDATING", "PUBLISHING", "RECONCILING",
      "AWAITING_VERIFICATION", "VERIFIED", "FAILED_SAFE", "CANCELLED", "AMBIGUOUS_EFFECT",
      "BLOCKED_CAPABILITY", "BLOCKED_SAFETY", "DELETED"} \subseteq RunStates
  /\ \A f \in Refusals : f # "error" => f \in RunStates
BY DEF RunStates, TerminalStates, PhaseStates, Refusals

\* transition() to a state of a run leaves one, and a head of the chain.
LEMMA TransitionTyped ==
  ASSUME runState \in RunStates, head \in Nat, NEW s \in RunStates, TransitionTo(s)
  PROVE  runState' \in RunStates /\ head' \in Nat
BY DEF TransitionTo

\* The catch block of alarm() leaves a state of a run.
LEMMA StopRunTyped ==
  ASSUME runState \in RunStates, head \in Nat, NEW f \in Refusals \cup {"completed"}, NEW next,
         f = "completed" => Deleted, StopRun(f, next)
  PROVE  runState' \in RunStates /\ head' \in Nat
<1>1. CASE runState \in TerminalStates \cup {"DELETED"}
  BY <1>1 DEF StopRun
<1>2. CASE runState \notin TerminalStates \cup {"DELETED"}
  <2>1. f # "completed"
    BY <1>2 DEF Deleted
  <2>2. TransitionTo(IF f = "error" THEN "FAILED_SAFE" ELSE f)
    BY <1>2 DEF StopRun
  <2> QED
    BY <2>1, <2>2, States, TransitionTyped
<1> QED
  BY <1>1, <1>2

AcceptFrame ==
  UNCHANGED <<rows, checkpoint, recorded, sealed, alarm, handler, cancelPc, objective,
              answers, world, launched, faults>>

\* A response is recorded as long as its handoff is the current one, or dropped.
LEMMA AcceptSteps ==
  ASSUME VerifierOK, NEW r \in Requests, Accept(r)
  PROVE  /\ submit' \in [Requests -> answers \cup {NoSubmission}]
         /\ \/ UNCHANGED <<runState, head, replays, verdicts>>
            \/ /\ runState = "AWAITING_VERIFICATION"
               /\ submit[r] \in answers /\ submit[r] \in Answers
               /\ head = submit[r].nonce /\ head \notin replays
               /\ runState' \in {"VERIFIED", "FAILED_SAFE", "AWAITING_VERIFICATION"}
               /\ runState' = "VERIFIED" => submit[r].decision = "verified"
               /\ runState' = "AWAITING_VERIFICATION" <=> submit[r].decision = "uncertain"
               /\ head' = head + 1 /\ replays' = replays \cup {head}
               /\ verdicts' = Append(verdicts, submit[r])
         /\ AcceptFrame
<1> DEFINE answer == submit[r]
<1>1. answer \in answers /\ answer \in Answers
  BY DEF VerifierOK, Accept
<1>2. submit' \in [Requests -> answers \cup {NoSubmission}]
  BY DEF VerifierOK, Accept
<1>3. CASE ~Acceptable(answer)
  BY <1>2, <1>3 DEF Accept, AcceptFrame
<1>4. CASE Acceptable(answer)
  <2>1. answer.decision \in {"verified", "failed", "uncertain"}
    BY <1>1 DEF Answers
  <2>2. runState' = DecidedState(answer.decision)
    BY <1>4 DEF Accept
  <2>3. /\ runState' \in {"VERIFIED", "FAILED_SAFE", "AWAITING_VERIFICATION"}
        /\ runState' = "VERIFIED" => answer.decision = "verified"
        /\ runState' = "AWAITING_VERIFICATION" <=> answer.decision = "uncertain"
    BY <2>1, <2>2, Decided
  <2>4. head' = head + 1 /\ replays' = replays \cup {answer.nonce} /\ verdicts' = Append(verdicts, answer)
    BY <1>4 DEF Accept
  <2>5. runState = "AWAITING_VERIFICATION" /\ head = answer.nonce /\ answer.nonce \notin replays
    BY <1>4 DEF Acceptable
  <2>6. AcceptFrame
    BY DEF Accept, AcceptFrame
  <2> HIDE DEF answer
  <2> QED
    BY <1>1, <1>2, <2>3, <2>4, <2>5, <2>6 DEF answer
<1> QED
  BY <1>3, <1>4

-----------------------------------------------------------------------------
(* The types, variable by variable.                                        *)

\* The rows and the counts of requests keep their type.
LEMMA RowsTyped ==
  ASSUME TypeOK, [Next]_vars
  PROVE  /\ rows' \in [ActionIds -> RowStates]
         /\ launched' \in [ActionIds -> Nat]
<1> USE DEF run, handler, world, observed, verifier
<1>1. CASE Alarm
  BY <1>1, Ids
  DEF Alarm, Recover, TypeOK, RowStates
<1>2. CASE Acquired
  BY <1>2, AcquiredSteps, Ids
  DEF AcquiredFrame, CommandBegins, Refused, Begin, Await, Unwind, Refuse, TransitionTo,
      TypeOK, RowStates
<1>3. CASE Access
  BY <1>3, StartRefused, Ids
  DEF Access, Begin, TypeOK, RowStates
<1>4. CASE Clone
  BY <1>4, Ids
  DEF Clone, TypeOK, RowStates
<1>5. CASE StartImplementation
  BY <1>5, StartRefused, Ids
  DEF StartImplementation, Begin, TypeOK, RowStates
<1>6. CASE Receipt
  BY <1>6, Ids
  DEF Receipt, SettleImplementation, Settle, TypeOK, RowStates
<1>7. CASE ReceiptHead
  BY <1>7, Ids
  DEF ReceiptHead, SettleImplementation, Settle, TypeOK, RowStates
<1>8. CASE Command
  BY <1>8, Ids
  DEF Command, Settle, TypeOK, RowStates
<1>9. CASE Probe
  BY <1>9, ProbeSteps, Ids
  DEF ProbeFrame, CommandBegins, Refused, Begin, Await, Unwind, TypeOK, RowStates
<1>10. CASE CommitHead
  BY <1>10, CommitHeadSteps, Ids
  DEF CommitFrame, CommandBegins, Refused, Begin, Await, Unwind, EnterPublishing,
      TransitionTo, TypeOK, RowStates
<1>11. CASE Refs
  BY <1>11, StartRefused, Ids
  DEF Refs, BeginPush, BeginPull, TypeOK, RowStates
<1>12. CASE Push
  BY <1>12, Ids
  DEF Push, Settle, TypeOK, RowStates
<1>13. CASE FindPull
  BY <1>13, Ids
  DEF FindPull, PullSettled, Settle, TypeOK, RowStates
<1>14. CASE CreatePull
  BY <1>14, Ids
  DEF CreatePull, PullSettled, Settle, TypeOK, RowStates
<1>15. CASE FindPullAgain
  BY <1>15, Ids
  DEF FindPullAgain, PullSettled, Settle, TypeOK, RowStates
<1>16. CASE CancelDestroyed
  BY <1>16, Ids
  DEF CancelDestroyed, TypeOK, RowStates
<1>17. CASE Purge
  BY <1>17, Ids
  DEF Purge, TypeOK, RowStates, NoRows
<1>18. CASE Acquire \/ BaseHead \/ Launch \/ Catch \/ UnwindExecution \/ Finish \/ Verify
             \/ Cleanup \/ Release \/ Start \/ Cancel \/ CancelReleased
  BY <1>18
  DEF Acquire, At, Await, StopRun, TerminalStates, TransitionTo, Done, BaseHead, Unwind,
      Defer, Cancelled, Launch, KeepPolling, Fault, Catch, Caught, Resumable,
      UnwindExecution, DestroySandbox, ContainerGone, Deleted, Finish, Unfinished,
      Started, Verify, Cleanup, Release, Start, Cancel, RestingStates,
      CancelReleased, TypeOK
<1>19. CASE Answer \/ (\E r \in Requests : Submit(r)) \/ (\E r \in Requests : Accept(r))
             \/ Land \/ OpenedByHand \/ ChildEnds \/ DeadlinePasses \/ Restart
  BY <1>19
  DEF Answer, HandedOver, Submit, NoSubmission, Accept, Acceptable, Land, OpenedByHand,
      ChildEnds, DeadlinePasses, Restart, Fault, Done, TypeOK
<1>20. CASE UNCHANGED vars
  BY <1>20 DEF vars, TypeOK
<1> QED
  BY <1>1, <1>2, <1>3, <1>4, <1>5, <1>6, <1>7, <1>8, <1>9, <1>10, <1>11, <1>12, <1>13,
     <1>14, <1>15, <1>16, <1>17, <1>18, <1>19, <1>20
  DEF Next, HandlerStep, Owner

\* The run is in one of its states, at some head of its chain.
LEMMA RunTyped ==
  ASSUME TypeOK, HandlerOK, VerifierOK, [Next]_vars
  PROVE  runState' \in RunStates /\ head' \in Nat
<1> USE DEF run, handler, world, observed, verifier
<1>1. CASE Alarm
  <2>1. \/ UNCHANGED <<runState, head>>
        \/ \E s \in {"AMBIGUOUS_EFFECT", "BLOCKED_CAPABILITY", "EXECUTING", runState} : TransitionTo(s)
    BY <1>1 DEF Alarm, At, Done, Interrupted, Recover
  <2> QED
    BY <2>1, <1>1, States, TransitionTyped DEF TypeOK, Alarm
<1>2. CASE Acquire
  BY <1>2, States, TransitionTyped, StopRunTyped
  DEF Acquire, StopRun, TransitionTo, TypeOK, HandlerOK
<1>3. CASE Acquired
  BY <1>3, AcquiredSteps, States, TransitionTyped, StopRunTyped
  DEF AcquiredFrame, CommandBegins, Refused, Begin, Await, Unwind, Refuse, TransitionTo,
      TypeOK, HandlerOK
<1>4. CASE CommitHead
  BY <1>4, CommitHeadSteps, States, TransitionTyped, StopRunTyped
  DEF CommitFrame, CommandBegins, Refused, Begin, Await, Unwind, EnterPublishing,
      TransitionTo, TypeOK, HandlerOK
<1>5. CASE Catch
  BY <1>5, States, TransitionTyped, StopRunTyped
  DEF Catch, At, Caught, StopRun, TransitionTo, TypeOK, HandlerOK
<1>6. CASE UnwindExecution
  BY <1>6, States, TransitionTyped, StopRunTyped
  DEF UnwindExecution, At, TransitionTo, Caught, StopRun, TypeOK, HandlerOK
<1>7. CASE Finish
  BY <1>7, States, TransitionTyped, StopRunTyped
  DEF Finish, StopRun, TransitionTo, TypeOK, HandlerOK
<1>8. CASE Start
  BY <1>8, States, TransitionTyped, StopRunTyped
  DEF Start, TransitionTo, TypeOK, HandlerOK
<1>9. CASE CancelReleased
  BY <1>9, States, TransitionTyped, StopRunTyped
  DEF CancelReleased, TransitionTo, TypeOK, HandlerOK
<1>10. CASE Purge
  BY <1>10, States, TransitionTyped, StopRunTyped
  DEF Purge, TypeOK, HandlerOK
<1>11. CASE \E r \in Requests : Accept(r)
  BY <1>11, AcceptSteps, States, TransitionTyped, StopRunTyped
  DEF AcceptFrame, TypeOK, HandlerOK
<1>12. CASE Access \/ Clone \/ BaseHead \/ StartImplementation \/ Launch \/ Receipt \/
             ReceiptHead \/ Command \/ Probe \/ Refs \/ Push \/ FindPull
  BY <1>12
  DEF Access, At, Refuse, Await, Begin, Clone, Settleable, BaseHead, Unwind, Defer,
      Done, Cancelled, StartImplementation, Launch, KeepPolling, Fault, Receipt,
      SettleImplementation, Settle, ReceiptHead, Command, Probe, Refs, BeginPush,
      PushRefusal, BeginPull, Record, Deleted, Push, FindPull, PullSettled, TypeOK
<1>13. CASE CreatePull \/ FindPullAgain \/ Verify \/ Cleanup \/ Release \/ Cancel \/
             CancelDestroyed \/ Answer \/ (\E r \in Requests : Submit(r)) \/
             Land \/ OpenedByHand \/ ChildEnds
  BY <1>13
  DEF CreatePull, At, PullSettled, Settle, Settleable, Unwind, Await, FindPullAgain,
      Verify, Done, Cleanup, DestroySandbox, ContainerGone, Fault, Release,
      Cancel, RestingStates, TerminalStates, CancelDestroyed, Answer, HandedOver,
      Submit, NoSubmission, Land, OpenedByHand, ChildEnds, TypeOK
<1>14. CASE DeadlinePasses \/ Restart
  BY <1>14
  DEF DeadlinePasses, Restart, Fault, Done, NoSubmission, TypeOK
<1>15. CASE UNCHANGED vars
  BY <1>15 DEF vars, TypeOK
<1> QED
  BY <1>1, <1>2, <1>3, <1>4, <1>5, <1>6, <1>7, <1>8, <1>9, <1>10, <1>11, <1>12, <1>13,
     <1>14, <1>15
  DEF Next, HandlerStep, Owner

\* The checkpoints, the record, the alarm and the wait of cancel() keep their type.
LEMMA MemoryTyped ==
  ASSUME TypeOK, [Next]_vars
  PROVE  /\ checkpoint' \in {"none", "pending", "succeeded"}
         /\ recorded' \in {"none", "branch", "pull_request"}
         /\ held' \in {"none", "pending", "succeeded"}
         /\ alarm' \in BOOLEAN /\ cancelPc' \in {"idle", "destroy", "release"}
<1> USE DEF run, handler, world, observed, verifier
<1>1. CASE Alarm
  BY <1>1
  DEF Alarm, Done, Recover, TypeOK
<1>2. CASE Acquire
  BY <1>2
  DEF Acquire, Await, StopRun, Done, TypeOK
<1>3. CASE Acquired
  BY <1>3, AcquiredSteps
  DEF AcquiredFrame, CommandBegins, Refused, Begin, Await, Unwind, Refuse, TransitionTo,
      TypeOK
<1>4. CASE BaseHead
  BY <1>4
  DEF BaseHead, Unwind, Defer, Done, Await, TypeOK
<1>5. CASE StartImplementation
  BY <1>5, StartRefused
  DEF StartImplementation, Unwind, Begin, Await, TypeOK
<1>6. CASE Launch
  BY <1>6
  DEF Launch, KeepPolling, Defer, Done, Unwind, TypeOK
<1>7. CASE Receipt
  BY <1>7
  DEF Receipt, Await, SettleImplementation, Settle, Unwind, KeepPolling, Defer, Done,
      TypeOK
<1>8. CASE ReceiptHead
  BY <1>8
  DEF ReceiptHead, SettleImplementation, Settle, Unwind, Defer, Done, KeepPolling,
      TypeOK
<1>9. CASE Command
  BY <1>9
  DEF Command, Settle, Unwind, Defer, Done, TypeOK
<1>10. CASE Probe
  BY <1>10, ProbeSteps
  DEF ProbeFrame, CommandBegins, Refused, Begin, Await, Unwind, TypeOK
<1>11. CASE CommitHead
  BY <1>11, CommitHeadSteps
  DEF CommitFrame, CommandBegins, Refused, Begin, Await, Unwind, EnterPublishing,
      TransitionTo, TypeOK
<1>12. CASE Refs
  BY <1>12, StartRefused
  DEF Refs, Unwind, BeginPush, Await, BeginPull, Record, TypeOK
<1>13. CASE Push
  BY <1>13
  DEF Push, Settle, Unwind, Defer, Done, TypeOK
<1>14. CASE FindPull
  BY <1>14
  DEF FindPull, Unwind, PullSettled, Settle, Await, TypeOK
<1>15. CASE CreatePull
  BY <1>15
  DEF CreatePull, PullSettled, Settle, Unwind, Await, TypeOK
<1>16. CASE FindPullAgain
  BY <1>16
  DEF FindPullAgain, Unwind, PullSettled, Settle, TypeOK
<1>17. CASE Catch
  BY <1>17
  DEF Catch, Caught, Defer, Done, StopRun, TypeOK
<1>18. CASE UnwindExecution
  BY <1>18
  DEF UnwindExecution, Caught, Defer, Done, StopRun, TypeOK
<1>19. CASE Finish
  BY <1>19
  DEF Finish, Defer, Done, StopRun, TypeOK
<1>20. CASE Verify
  BY <1>20
  DEF Verify, Done, TypeOK
<1>21. CASE Cleanup
  BY <1>21
  DEF Cleanup, Done, TypeOK
<1>22. CASE Release
  BY <1>22
  DEF Release, Done, TypeOK
<1>23. CASE Start
  BY <1>23
  DEF Start, TypeOK
<1>24. CASE Cancel
  BY <1>24
  DEF Cancel, TypeOK
<1>25. CASE CancelDestroyed
  BY <1>25
  DEF CancelDestroyed, TypeOK
<1>26. CASE CancelReleased
  BY <1>26
  DEF CancelReleased, TypeOK
<1>27. CASE Purge
  BY <1>27
  DEF Purge, TypeOK
<1>28. CASE \E r \in Requests : Accept(r)
  BY <1>28 DEF Accept, TypeOK
<1>29. CASE Restart
  BY <1>29
  DEF Restart, Done, TypeOK
<1>30. CASE Access \/ Clone \/ Answer \/ (\E r \in Requests : Submit(r)) \/ Land \/
             OpenedByHand \/ ChildEnds \/ DeadlinePasses
  BY <1>30
  DEF Access, At, Refuse, Await, Begin, Clone, Settleable, Answer, HandedOver, Submit,
      NoSubmission, Land, OpenedByHand, ChildEnds, DeadlinePasses, TypeOK
<1>31. CASE UNCHANGED vars
  BY <1>31 DEF vars, TypeOK
<1> QED
  BY <1>1, <1>2, <1>3, <1>4, <1>5, <1>6, <1>7, <1>8, <1>9, <1>10, <1>11, <1>12, <1>13,
     <1>14, <1>15, <1>16, <1>17, <1>18, <1>19, <1>20, <1>21, <1>22, <1>23, <1>24,
     <1>25, <1>26, <1>27, <1>28, <1>29, <1>30, <1>31
  DEF Next, HandlerStep, Owner

\* A nonce that is consumed is a head of the chain.
LEMMA ReplaysTyped ==
  ASSUME TypeOK, VerifierOK, [Next]_vars
  PROVE  replays' \subseteq Nat
<1> USE DEF run, handler, world, observed, verifier
<1>1. CASE \E r \in Requests : Accept(r)
  <2>1. UNCHANGED replays \/ replays' = replays \cup {head}
    BY <1>1, AcceptSteps
  <2> QED
    BY <2>1 DEF TypeOK
<1>2. CASE Alarm \/ Acquire \/ Acquired \/ Access \/ Clone \/ BaseHead \/
             StartImplementation \/ Launch \/ Receipt \/ ReceiptHead \/
             Command \/ Probe
  <2>1. UNCHANGED replays
    BY <1>2
    DEF Alarm, Acquire, StopRun, Acquired, Access, Clone, BaseHead, StartImplementation,
        Launch, Receipt, ReceiptHead, Command, Probe
  <2> QED
    BY <2>1 DEF TypeOK
<1>3. CASE CommitHead \/ Refs \/ Push \/ FindPull \/ CreatePull \/ FindPullAgain \/ Catch
             \/ UnwindExecution \/ Finish \/ Verify \/ Cleanup \/ Release
  <2>1. UNCHANGED replays
    BY <1>3
    DEF CommitHead, Refs, Push, FindPull, CreatePull, FindPullAgain, Catch, Caught,
        StopRun, UnwindExecution, Finish, Verify, Cleanup, Release
  <2> QED
    BY <2>1 DEF TypeOK
<1>4. CASE Start \/ Cancel \/ CancelDestroyed \/ CancelReleased \/ Purge \/ Answer \/ (\E
             r \in Requests : Submit(r)) \/ Land \/ OpenedByHand \/ ChildEnds
             \/ DeadlinePasses \/ Restart
  <2>1. UNCHANGED replays
    BY <1>4
    DEF Start, Cancel, CancelDestroyed, CancelReleased, Purge, Answer, Submit, Land,
        OpenedByHand, ChildEnds, DeadlinePasses, Restart
  <2> QED
    BY <2>1 DEF TypeOK
<1>5. CASE UNCHANGED vars
  BY <1>5 DEF vars, TypeOK
<1> QED
  BY <1>1, <1>2, <1>3, <1>4, <1>5
  DEF Next, HandlerStep, Owner

\* What is sealed is a table and a publication.
LEMMA SealTyped ==
  ASSUME TypeOK, [Next]_vars
  PROVE  sealed' = NotSealed
           \/ sealed' \in [rows : [ActionIds -> RowStates],
                          published : {"none", "branch", "pull_request"}]
<1> USE DEF run, handler, world, observed, verifier
<1>1. CASE Finish
  BY <1>1
  DEF Finish, StopRun, TypeOK
<1>2. CASE Purge
  BY <1>2
  DEF Purge, TypeOK
<1>3. CASE Alarm \/ Acquire \/ Acquired \/ Access \/ Clone \/ BaseHead \/
             StartImplementation \/ Launch \/ Receipt \/ ReceiptHead \/
             Command \/ Probe
  BY <1>3
  DEF Alarm, At, PhaseStates, Done, Interrupted, Recover, TransitionTo, Acquire, Await,
      StopRun, TerminalStates, Acquired, Cancelled, Refuse, Access, Begin, Clone,
      Settleable, BaseHead, Unwind, Defer, StartImplementation, Launch,
      KeepPolling, Fault, Receipt, SettleImplementation, Settle, ReceiptHead,
      Command, Probe, TypeOK, NotSealed
<1>4. CASE CommitHead \/ Refs \/ Push \/ FindPull \/ CreatePull \/ FindPullAgain \/ Catch
             \/ UnwindExecution \/ Verify \/ Cleanup \/ Release \/ Start
  BY <1>4
  DEF CommitHead, At, Unwind, EnterPublishing, Deleted, TransitionTo, Await, Refs,
      BeginPush, PushRefusal, Cancelled, BeginPull, Record, Push, Settle,
      Settleable, Defer, Done, FindPull, PullSettled, CreatePull, FindPullAgain,
      Catch, Caught, Resumable, TerminalStates, StopRun, UnwindExecution,
      DestroySandbox, ContainerGone, Fault, Verify, Cleanup, Release, Start,
      TypeOK, NotSealed
<1>5. CASE Cancel \/ CancelDestroyed \/ CancelReleased \/ Answer \/ (\E r \in Requests :
             Submit(r)) \/ (\E r \in Requests : Accept(r)) \/ Land \/
             OpenedByHand \/ ChildEnds \/ DeadlinePasses \/ Restart
  BY <1>5
  DEF Cancel, RestingStates, TerminalStates, CancelDestroyed, DestroySandbox,
      ContainerGone, Fault, CancelReleased, Deleted, TransitionTo, Answer,
      HandedOver, Submit, NoSubmission, Accept, Acceptable, Land, OpenedByHand,
      ChildEnds, DeadlinePasses, Restart, Done, TypeOK, NotSealed
<1>6. CASE UNCHANGED vars
  BY <1>6 DEF vars, TypeOK, NotSealed
<1> QED
  BY <1>1, <1>2, <1>3, <1>4, <1>5, <1>6
  DEF Next, HandlerStep, Owner

\* The surroundings keep their type.
LEMMA WorldTyped ==
  ASSUME TypeOK, [Next]_vars
  PROVE  /\ sandbox' \in {"none", "live", "gone"}
         /\ child' \in {"none", "running", "ok", "failed", "forged"}
         /\ due' \in BOOLEAN /\ leased' \in BOOLEAN
         /\ inflight' \subseteq {"implement", "push-branch", "open-pull-request"}
         /\ branch' \in {"none", "ours", "other"} /\ pull' \in {"none", "ours", "other"}
<1> USE DEF run, handler, world, observed, verifier
<1>1. CASE Acquire
  BY <1>1
  DEF Acquire, TypeOK
<1>2. CASE Clone
  BY <1>2
  DEF Clone, TypeOK
<1>3. CASE StartImplementation
  BY <1>3, StartRefused
  DEF StartImplementation, TypeOK
<1>4. CASE Refs
  BY <1>4, StartRefused
  DEF Refs, BeginPush, TypeOK
<1>5. CASE FindPull
  BY <1>5
  DEF FindPull, TypeOK
<1>6. CASE UnwindExecution
  BY <1>6
  DEF UnwindExecution, DestroySandbox, ContainerGone, TypeOK
<1>7. CASE Cleanup
  BY <1>7
  DEF Cleanup, DestroySandbox, ContainerGone, TypeOK
<1>8. CASE Release
  BY <1>8
  DEF Release, TypeOK
<1>9. CASE CancelDestroyed
  BY <1>9
  DEF CancelDestroyed, DestroySandbox, ContainerGone, TypeOK
<1>10. CASE CancelReleased
  BY <1>10
  DEF CancelReleased, TypeOK
<1>11. CASE Land
  BY <1>11
  DEF Land, TypeOK
<1>12. CASE OpenedByHand
  BY <1>12
  DEF OpenedByHand, TypeOK
<1>13. CASE ChildEnds
  BY <1>13
  DEF ChildEnds, TypeOK
<1>14. CASE DeadlinePasses
  BY <1>14
  DEF DeadlinePasses, TypeOK
<1>15. CASE Alarm \/ Acquired \/ Access \/ BaseHead \/ Launch \/ Receipt \/ ReceiptHead \/
             Command \/ Probe \/ CommitHead \/ Push \/ CreatePull
  <2>1. UNCHANGED <<sandbox, child, due, leased, inflight, branch, pull, objective>>
    BY <1>15
    DEF Alarm, Acquired, Access, BaseHead, Launch, Receipt, ReceiptHead, Command, Probe,
        CommitHead, Push, CreatePull
  <2> QED
    BY <2>1 DEF TypeOK
<1>16. CASE FindPullAgain \/ Catch \/ Finish \/ Verify \/ Start \/ Cancel \/ Purge \/
             Answer \/ (\E r \in Requests : Submit(r)) \/ (\E r \in Requests :
             Accept(r)) \/ Restart
  <2>1. UNCHANGED <<sandbox, child, due, leased, inflight, branch, pull, objective>>
    BY <1>16
    DEF FindPullAgain, Catch, Finish, Verify, Start, Cancel, Purge, Answer, Submit,
        Accept, Restart
  <2> QED
    BY <2>1 DEF TypeOK
<1>17. CASE UNCHANGED vars
  BY <1>17 DEF vars, TypeOK
<1> QED
  BY <1>1, <1>2, <1>3, <1>4, <1>5, <1>6, <1>7, <1>8, <1>9, <1>10, <1>11, <1>12, <1>13,
     <1>14, <1>15, <1>16, <1>17
  DEF Next, HandlerStep, Owner

\* The faults stay within the bound.
LEMMA FaultsTyped ==
  ASSUME TypeOK, [Next]_vars
  PROVE  faults' \in 0 .. MaxFaults
<1> USE DEF run, handler, world, observed, verifier
<1>1. CASE Launch
  BY <1>1, BoundsAssumption
  DEF Launch, KeepPolling, Fault, TypeOK
<1>2. CASE Receipt
  BY <1>2, BoundsAssumption
  DEF Receipt, KeepPolling, Fault, TypeOK
<1>3. CASE ReceiptHead
  BY <1>3, BoundsAssumption
  DEF ReceiptHead, KeepPolling, Fault, TypeOK
<1>4. CASE UnwindExecution
  BY <1>4, BoundsAssumption
  DEF UnwindExecution, DestroySandbox, Fault, TypeOK
<1>5. CASE Cleanup
  BY <1>5, BoundsAssumption
  DEF Cleanup, DestroySandbox, Fault, TypeOK
<1>6. CASE Release
  BY <1>6, BoundsAssumption
  DEF Release, Fault, TypeOK
<1>7. CASE CancelDestroyed
  BY <1>7, BoundsAssumption
  DEF CancelDestroyed, DestroySandbox, Fault, TypeOK
<1>8. CASE CancelReleased
  BY <1>8, BoundsAssumption
  DEF CancelReleased, Fault, TypeOK
<1>9. CASE Restart
  BY <1>9, BoundsAssumption
  DEF Restart, Fault, TypeOK
<1>10. CASE Alarm \/ Acquire \/ Acquired \/ Access \/ Clone \/ BaseHead \/
             StartImplementation \/ Command \/ Probe \/ CommitHead \/ Refs \/
             Push
  BY <1>10
  DEF Alarm, At, PhaseStates, Done, Interrupted, Recover, TransitionTo, Acquire, Await,
      StopRun, TerminalStates, Acquired, Cancelled, Refuse, Access, Begin, Clone,
      Settleable, BaseHead, Unwind, Defer, StartImplementation, Command, Settle,
      Probe, CommitHead, EnterPublishing, Deleted, Refs, BeginPush, PushRefusal,
      BeginPull, Record, Push, TypeOK
<1>11. CASE FindPull \/ CreatePull \/ FindPullAgain \/ Catch \/ Finish \/ Verify \/ Start
             \/ Cancel \/ Purge \/ Answer \/ (\E r \in Requests : Submit(r))
             \/ (\E r \in Requests : Accept(r))
  BY <1>11
  DEF FindPull, At, Unwind, PullSettled, Settle, Settleable, Await, CreatePull,
      FindPullAgain, Catch, Caught, Resumable, TerminalStates, Defer, Done,
      StopRun, TransitionTo, Finish, Unfinished, Started, Deleted, Verify, Start,
      Cancel, RestingStates, Purge, Answer, HandedOver, Submit, NoSubmission,
      Accept, Acceptable, TypeOK
<1>12. CASE Land \/ OpenedByHand \/ ChildEnds \/ DeadlinePasses
  BY <1>12
  DEF Land, OpenedByHand, ChildEnds, DeadlinePasses, TypeOK
<1>13. CASE UNCHANGED vars
  BY <1>13 DEF vars, TypeOK
<1> QED
  BY <1>1, <1>2, <1>3, <1>4, <1>5, <1>6, <1>7, <1>8, <1>9, <1>10, <1>11, <1>12, <1>13
  DEF Next, HandlerStep, Owner

-----------------------------------------------------------------------------
(* The handler, the verifier, and the intents in the table.                 *)

\* The handler knows at each wait how it goes on.
LEMMA HandlerKept ==
  ASSUME TypeOK, HandlerOK, [Next]_vars
  PROVE  HandlerOK'
<1> USE DEF run, handler, world, observed, verifier
<1>1. CASE Alarm
  BY <1>1
  DEF Alarm, Done, Recover, HandlerOK, Labels, Launching, Polling, Committed, Executing,
      Refusals
<1>2. CASE Acquire
  BY <1>2
  DEF Acquire, Await, StopRun, Done, HandlerOK, Labels, Launching, Polling, Committed,
      Executing, Refusals
<1>3. CASE Acquired
  BY <1>3, AcquiredSteps
  DEF AcquiredFrame, CommandBegins, Refused, Begin, Await, Unwind, Refuse, TransitionTo,
      HandlerOK, Labels, Launching, Polling, Committed, Executing, Refusals
<1>4. CASE Access
  BY <1>4, StartRefused
  DEF Access, At, Refuse, Await, Begin, HandlerOK, Labels, Launching, Polling,
      Committed, Executing, Refusals
<1>5. CASE Clone
  BY <1>5
  DEF Clone, At, Settleable, Refuse, Await, HandlerOK, Labels, Launching, Polling,
      Committed, Executing, Refusals
<1>6. CASE BaseHead
  BY <1>6
  DEF BaseHead, At, Unwind, Defer, Done, Await, HandlerOK, Labels, Launching, Polling,
      Committed, Executing, Refusals
<1>7. CASE StartImplementation
  BY <1>7, StartRefused
  DEF StartImplementation, At, Unwind, Begin, Await, HandlerOK, Labels, Launching,
      Polling, Committed, Executing, Refusals
<1>8. CASE Launch
  BY <1>8
  DEF Launch, KeepPolling, Defer, Done, Unwind, HandlerOK, Labels, Launching, Polling,
      Committed, Executing, Refusals
<1>9. CASE Receipt
  BY <1>9
  DEF Receipt, At, Await, SettleImplementation, Settle, Settleable, Unwind, KeepPolling,
      Defer, Done, HandlerOK, Labels, Launching, Polling, Committed, Executing,
      Refusals
<1>10. CASE ReceiptHead
  BY <1>10
  DEF ReceiptHead, SettleImplementation, Settle, Unwind, Defer, Done, KeepPolling,
      HandlerOK, Labels, Launching, Polling, Committed, Executing, Refusals
<1>11. CASE Command
  BY <1>11
  DEF Command, Settle, Unwind, Defer, Done, HandlerOK, Labels, Launching, Polling,
      Committed, Executing, Refusals
<1>12. CASE Probe
  BY <1>12, ProbeSteps
  DEF ProbeFrame, CommandBegins, Refused, Begin, Await, Unwind, HandlerOK, Labels,
      Launching, Polling, Committed, Executing, Refusals, TypeOK
<1>13. CASE CommitHead
  BY <1>13, CommitHeadSteps
  DEF CommitFrame, CommandBegins, Refused, Begin, Await, Unwind, EnterPublishing,
      TransitionTo, HandlerOK, Labels, Launching, Polling, Committed, Executing,
      Refusals, TypeOK
<1>14. CASE Refs
  BY <1>14, StartRefused
  DEF Refs, At, Unwind, BeginPush, PushRefusal, Cancelled, Await, BeginPull, Record,
      Deleted, HandlerOK, Labels, Launching, Polling, Committed, Executing,
      Refusals
<1>15. CASE Push
  BY <1>15
  DEF Push, Settle, Unwind, Defer, Done, HandlerOK, Labels, Launching, Polling,
      Committed, Executing, Refusals
<1>16. CASE FindPull
  BY <1>16
  DEF FindPull, At, Unwind, PullSettled, Settle, Settleable, Await, HandlerOK, Labels,
      Launching, Polling, Committed, Executing, Refusals
<1>17. CASE CreatePull
  BY <1>17
  DEF CreatePull, At, PullSettled, Settle, Settleable, Unwind, Await, HandlerOK, Labels,
      Launching, Polling, Committed, Executing, Refusals
<1>18. CASE FindPullAgain
  BY <1>18
  DEF FindPullAgain, Unwind, PullSettled, Settle, HandlerOK, Labels, Launching, Polling,
      Committed, Executing, Refusals
<1>19. CASE Catch
  BY <1>19
  DEF Catch, Caught, Defer, Done, StopRun, HandlerOK, Labels, Launching, Polling,
      Committed, Executing, Refusals
<1>20. CASE UnwindExecution
  BY <1>20
  DEF UnwindExecution, Caught, Defer, Done, StopRun, HandlerOK, Labels, Launching,
      Polling, Committed, Executing, Refusals
<1>21. CASE Finish
  BY <1>21
  DEF Finish, At, Defer, Done, StopRun, HandlerOK, Labels, Launching, Polling,
      Committed, Executing, Refusals
<1>22. CASE Verify
  BY <1>22
  DEF Verify, At, Done, HandlerOK, Labels, Launching, Polling, Committed, Executing,
      Refusals
<1>23. CASE Cleanup
  BY <1>23
  DEF Cleanup, At, Done, HandlerOK, Labels, Launching, Polling, Committed, Executing,
      Refusals
<1>24. CASE Release
  BY <1>24
  DEF Release, Done, HandlerOK, Labels, Launching, Polling, Committed, Executing,
      Refusals
<1>25. CASE Restart
  BY <1>25
  DEF Restart, Done, HandlerOK, Labels, Launching, Polling, Committed, Executing,
      Refusals
<1>26. CASE Start \/ Cancel \/ CancelDestroyed \/ CancelReleased \/ Purge \/ Answer \/ (\E
             r \in Requests : Submit(r)) \/ (\E r \in Requests : Accept(r)) \/
             Land \/ OpenedByHand \/ ChildEnds \/ DeadlinePasses
  <2>1. UNCHANGED <<pc, fate, held>>
    BY <1>26
    DEF Start, Cancel, CancelDestroyed, CancelReleased, Purge, Answer, Submit, Accept,
        Land, OpenedByHand, ChildEnds, DeadlinePasses
  <2> QED
    BY <2>1 DEF HandlerOK, Labels, Launching, Polling, Committed, Executing, Refusals
<1>27. CASE UNCHANGED vars
  BY <1>27 DEF vars, HandlerOK, Labels, Launching, Polling, Committed, Executing, Refusals
<1> QED
  BY <1>1, <1>2, <1>3, <1>4, <1>5, <1>6, <1>7, <1>8, <1>9, <1>10, <1>11, <1>12, <1>13,
     <1>14, <1>15, <1>16, <1>17, <1>18, <1>19, <1>20, <1>21, <1>22, <1>23, <1>24,
     <1>25, <1>26, <1>27
  DEF Next, HandlerStep, Owner

\* Nobody but the verifier signs a response.
LEMMA VerifierKept ==
  ASSUME TypeOK, VerifierOK, [Next]_vars
  PROVE  VerifierOK'
<1> USE DEF run, handler, world, observed, verifier
<1>1. CASE Answer
  BY <1>1
  DEF Answer, VerifierOK, TypeOK, Answers
<1>2. CASE \E r \in Requests : Submit(r)
  BY <1>2
  DEF Submit, VerifierOK, NoSubmission
<1>3. CASE \E r \in Requests : Accept(r)
  BY <1>3, AcceptSteps
  DEF AcceptFrame, VerifierOK, NoSubmission
<1>4. CASE Restart
  BY <1>4
  DEF Restart, VerifierOK
<1>5. CASE Alarm \/ Acquire \/ Acquired \/ Access \/ Clone \/ BaseHead \/
             StartImplementation \/ Launch \/ Receipt \/ ReceiptHead \/
             Command \/ Probe
  BY <1>5
  DEF Alarm, At, PhaseStates, Done, Interrupted, Recover, TransitionTo, Acquire, Await,
      StopRun, TerminalStates, Acquired, Cancelled, Refuse, Access, Begin, Clone,
      Settleable, BaseHead, Unwind, Defer, StartImplementation, Launch,
      KeepPolling, Fault, Receipt, SettleImplementation, Settle, ReceiptHead,
      Command, Probe, VerifierOK
<1>6. CASE CommitHead \/ Refs \/ Push \/ FindPull \/ CreatePull \/ FindPullAgain \/ Catch
             \/ UnwindExecution \/ Finish \/ Verify \/ Cleanup \/ Release
  BY <1>6
  DEF CommitHead, At, Unwind, EnterPublishing, Deleted, TransitionTo, Await, Refs,
      BeginPush, PushRefusal, Cancelled, BeginPull, Record, Push, Settle,
      Settleable, Defer, Done, FindPull, PullSettled, CreatePull, FindPullAgain,
      Catch, Caught, Resumable, TerminalStates, StopRun, UnwindExecution,
      DestroySandbox, ContainerGone, Fault, Finish, Unfinished, Started, Verify,
      Cleanup, Release, VerifierOK
<1>7. CASE Start \/ Cancel \/ CancelDestroyed \/ CancelReleased \/ Purge \/ Land \/
             OpenedByHand \/ ChildEnds \/ DeadlinePasses
  BY <1>7
  DEF Start, TransitionTo, Cancel, RestingStates, TerminalStates, CancelDestroyed,
      DestroySandbox, ContainerGone, Fault, CancelReleased, Deleted, Purge, Land,
      OpenedByHand, ChildEnds, DeadlinePasses, VerifierOK
<1>8. CASE UNCHANGED vars
  BY <1>8 DEF vars, VerifierOK
<1> QED
  BY <1>1, <1>2, <1>3, <1>4, <1>5, <1>6, <1>7, <1>8
  DEF Next, HandlerStep, Owner

\* An intent is stored where the handler has none that is open, and it is settled
\* before the next one.
LEMMA OneIntentKept ==
  ASSUME TypeOK, HandlerOK, OneIntent, Checkpointed, [Next]_vars
  PROVE  OneIntent'
<1> USE DEF run, handler, world, observed, verifier
<1>1. CASE Alarm
  BY <1>1, Ids
  DEF Alarm, At, PhaseStates, Done, Interrupted, Recover, TransitionTo, TypeOK,
      RowStates, OneIntent, Running, Busy, Deleted, Checkpointed, HandlerOK,
      Launching, Polling, Committed, Executing, Labels
<1>2. CASE Acquire
  BY <1>2, Ids
  DEF Acquire, At, Await, StopRun, Done, TypeOK, RowStates, OneIntent, Running, Busy,
      Deleted, Checkpointed, HandlerOK, Launching, Polling, Committed, Executing,
      Labels
<1>3. CASE Acquired
  BY <1>3, AcquiredSteps, Ids
  DEF AcquiredFrame, CommandBegins, Refused, Begin, Await, Unwind, Refuse, TransitionTo,
      TypeOK, RowStates, OneIntent, Running, Busy, Deleted, Checkpointed,
      HandlerOK, Launching, Polling, Committed, Executing, Labels
<1>4. CASE Access
  BY <1>4, StartRefused, Ids
  DEF Access, At, Refuse, Await, Begin, TypeOK, RowStates, OneIntent, Running, Busy,
      Deleted, Checkpointed, HandlerOK, Launching, Polling, Committed, Executing,
      Labels
<1>5. CASE Clone
  BY <1>5, Ids
  DEF Clone, At, Settleable, Refuse, Await, TypeOK, RowStates, OneIntent, Running, Busy,
      Deleted, Checkpointed, HandlerOK, Launching, Polling, Committed, Executing,
      Labels
<1>6. CASE BaseHead
  BY <1>6, Ids
  DEF BaseHead, At, Unwind, Defer, Done, Await, TypeOK, RowStates, OneIntent, Running,
      Busy, Deleted, Checkpointed, HandlerOK, Launching, Polling, Committed,
      Executing, Labels
<1>7. CASE StartImplementation
  BY <1>7, StartRefused, Ids
  DEF StartImplementation, At, Unwind, Begin, Await, TypeOK, RowStates, OneIntent,
      Running, Busy, Deleted, Checkpointed, HandlerOK, Launching, Polling,
      Committed, Executing, Labels
<1>8. CASE Launch
  BY <1>8, Ids
  DEF Launch, KeepPolling, Defer, Done, Unwind, TypeOK, RowStates, OneIntent, Running,
      Busy, Deleted, Checkpointed, HandlerOK, Launching, Polling, Committed,
      Executing, Labels
<1>9. CASE Receipt
  BY <1>9, Ids
  DEF Receipt, At, Await, SettleImplementation, Settle, Settleable, Unwind, KeepPolling,
      Defer, Done, TypeOK, RowStates, OneIntent, Running, Busy, Deleted,
      Checkpointed, HandlerOK, Launching, Polling, Committed, Executing, Labels
<1>10. CASE ReceiptHead
  BY <1>10, Ids
  DEF ReceiptHead, SettleImplementation, Settle, Unwind, Defer, Done, KeepPolling,
      TypeOK, RowStates, OneIntent, Running, Busy, Deleted, Checkpointed,
      HandlerOK, Launching, Polling, Committed, Executing, Labels
<1>11. CASE Command
  BY <1>11, Ids
  DEF Command, Settle, Unwind, Defer, Done, TypeOK, RowStates, OneIntent, Running, Busy,
      Deleted, Checkpointed, HandlerOK, Launching, Polling, Committed, Executing,
      Labels
<1>12. CASE Probe
  BY <1>12, ProbeSteps, Ids
  DEF ProbeFrame, CommandBegins, Refused, Begin, Await, Unwind, TypeOK, RowStates,
      OneIntent, Running, Busy, Deleted, Checkpointed, HandlerOK, Launching,
      Polling, Committed, Executing, Labels
<1>13. CASE CommitHead
  BY <1>13, CommitHeadSteps, Ids
  DEF CommitFrame, CommandBegins, Refused, Begin, Await, Unwind, EnterPublishing,
      TransitionTo, TypeOK, RowStates, OneIntent, Running, Busy, Deleted,
      Checkpointed, HandlerOK, Launching, Polling, Committed, Executing, Labels
<1>14. CASE Refs
  BY <1>14, StartRefused, Ids
  DEF Refs, At, Unwind, BeginPush, Await, BeginPull, TypeOK, RowStates, OneIntent,
      Running, Busy, Deleted, Checkpointed, HandlerOK, Launching, Polling,
      Committed, Executing, Labels
<1>15. CASE Push
  BY <1>15, Ids
  DEF Push, Settle, Unwind, Defer, Done, TypeOK, RowStates, OneIntent, Running, Busy,
      Deleted, Checkpointed, HandlerOK, Launching, Polling, Committed, Executing,
      Labels
<1>16. CASE FindPull
  BY <1>16, Ids
  DEF FindPull, At, Unwind, PullSettled, Settle, Settleable, Await, TypeOK, RowStates,
      OneIntent, Running, Busy, Deleted, Checkpointed, HandlerOK, Launching,
      Polling, Committed, Executing, Labels
<1>17. CASE CreatePull
  BY <1>17, Ids
  DEF CreatePull, At, PullSettled, Settle, Settleable, Unwind, Await, TypeOK, RowStates,
      OneIntent, Running, Busy, Deleted, Checkpointed, HandlerOK, Launching,
      Polling, Committed, Executing, Labels
<1>18. CASE FindPullAgain
  BY <1>18, Ids
  DEF FindPullAgain, Unwind, PullSettled, Settle, TypeOK, RowStates, OneIntent, Running,
      Busy, Deleted, Checkpointed, HandlerOK, Launching, Polling, Committed,
      Executing, Labels
<1>19. CASE Catch
  BY <1>19, Ids
  DEF Catch, Caught, Defer, Done, StopRun, TypeOK, RowStates, OneIntent, Running, Busy,
      Deleted, Checkpointed, HandlerOK, Launching, Polling, Committed, Executing,
      Labels
<1>20. CASE UnwindExecution
  BY <1>20, Ids
  DEF UnwindExecution, Caught, Defer, Done, StopRun, TypeOK, RowStates, OneIntent,
      Running, Busy, Deleted, Checkpointed, HandlerOK, Launching, Polling,
      Committed, Executing, Labels
<1>21. CASE Finish
  BY <1>21, Ids
  DEF Finish, Defer, Done, StopRun, TypeOK, RowStates, OneIntent, Running, Busy,
      Deleted, Checkpointed, HandlerOK, Launching, Polling, Committed, Executing,
      Labels
<1>22. CASE Verify
  BY <1>22, Ids
  DEF Verify, At, Done, TypeOK, RowStates, OneIntent, Running, Busy, Deleted,
      Checkpointed, HandlerOK, Launching, Polling, Committed, Executing, Labels
<1>23. CASE Cleanup
  BY <1>23, Ids
  DEF Cleanup, At, Done, TypeOK, RowStates, OneIntent, Running, Busy, Deleted,
      Checkpointed, HandlerOK, Launching, Polling, Committed, Executing, Labels
<1>24. CASE Release
  BY <1>24, Ids
  DEF Release, Done, TypeOK, RowStates, OneIntent, Running, Busy, Deleted, Checkpointed,
      HandlerOK, Launching, Polling, Committed, Executing, Labels
<1>25. CASE CancelDestroyed
  BY <1>25, Ids
  DEF CancelDestroyed, TypeOK, RowStates, OneIntent, Running, Busy, Deleted,
      Checkpointed, HandlerOK, Launching, Polling, Committed, Executing, Labels
<1>26. CASE Purge
  BY <1>26, Ids
  DEF Purge, TypeOK, RowStates, OneIntent, Running, Busy, Deleted, Checkpointed,
      HandlerOK, Launching, Polling, Committed, Executing, Labels, NoRows
<1>27. CASE Restart
  BY <1>27, Ids
  DEF Restart, Done, TypeOK, RowStates, OneIntent, Running, Busy, Deleted, Checkpointed,
      HandlerOK, Launching, Polling, Committed, Executing, Labels
<1>28. CASE Start \/ Cancel \/ CancelReleased \/ Answer \/ (\E r \in Requests : Submit(r))
             \/ (\E r \in Requests : Accept(r)) \/ Land \/ OpenedByHand \/
             ChildEnds \/ DeadlinePasses
  <2>1. UNCHANGED <<rows, checkpoint, pc, held>>
    BY <1>28
    DEF Start, Cancel, CancelReleased, Answer, Submit, Accept, Land, OpenedByHand,
        ChildEnds, DeadlinePasses
  <2> QED
    BY <2>1 DEF OneIntent, Running, Busy, Deleted
<1>29. CASE UNCHANGED vars
  BY <1>29 DEF vars, OneIntent, Running, Busy, Deleted
<1> QED
  BY <1>1, <1>2, <1>3, <1>4, <1>5, <1>6, <1>7, <1>8, <1>9, <1>10, <1>11, <1>12, <1>13,
     <1>14, <1>15, <1>16, <1>17, <1>18, <1>19, <1>20, <1>21, <1>22, <1>23, <1>24,
     <1>25, <1>26, <1>27, <1>28, <1>29
  DEF Next, HandlerStep, Owner

\* Checkpoint and row of the implementation change in one transaction.
LEMMA CheckpointKept ==
  ASSUME TypeOK, HandlerOK, VerifierOK, Checkpointed, [Next]_vars
  PROVE  Checkpointed'
<1> USE DEF run, handler, world, observed, verifier
<1>1. CASE Alarm
  BY <1>1, Ids
  DEF Alarm, At, PhaseStates, Done, Interrupted, Recover, TransitionTo, TypeOK,
      RowStates, Checkpointed, Deleted, NoRows, HandlerOK, Launching, Polling,
      Committed, Executing, Labels
<1>2. CASE Acquire
  BY <1>2, Ids
  DEF Acquire, Await, StopRun, TransitionTo, Done, TypeOK, RowStates, Checkpointed,
      Deleted, NoRows, HandlerOK, Launching, Polling, Committed, Executing, Labels
<1>3. CASE Acquired
  BY <1>3, AcquiredSteps, Ids
  DEF AcquiredFrame, CommandBegins, Refused, Begin, Await, Unwind, Refuse, TransitionTo,
      TypeOK, RowStates, Checkpointed, Deleted, NoRows, HandlerOK, Launching,
      Polling, Committed, Executing, Labels
<1>4. CASE Access
  BY <1>4, StartRefused, Ids
  DEF Access, Refuse, Await, Begin, TypeOK, RowStates, Checkpointed, Deleted, NoRows,
      HandlerOK, Launching, Polling, Committed, Executing, Labels
<1>5. CASE Clone
  BY <1>5, Ids
  DEF Clone, At, Settleable, Refuse, Await, TypeOK, RowStates, Checkpointed, Deleted,
      NoRows, HandlerOK, Launching, Polling, Committed, Executing, Labels
<1>6. CASE BaseHead
  BY <1>6, Ids
  DEF BaseHead, Unwind, Defer, Done, Await, TypeOK, RowStates, Checkpointed, Deleted,
      NoRows, HandlerOK, Launching, Polling, Committed, Executing, Labels
<1>7. CASE StartImplementation
  BY <1>7, StartRefused, Ids
  DEF StartImplementation, Unwind, Begin, Await, TypeOK, RowStates, Checkpointed,
      Deleted, NoRows, HandlerOK, Launching, Polling, Committed, Executing, Labels
<1>8. CASE Launch
  BY <1>8, Ids
  DEF Launch, KeepPolling, Defer, Done, Unwind, TypeOK, RowStates, Checkpointed,
      Deleted, NoRows, HandlerOK, Launching, Polling, Committed, Executing, Labels
<1>9. CASE Receipt
  BY <1>9, Ids
  DEF Receipt, At, Await, SettleImplementation, Settle, Settleable, Unwind, KeepPolling,
      Defer, Done, TypeOK, RowStates, Checkpointed, Deleted, NoRows, HandlerOK,
      Launching, Polling, Committed, Executing, Labels
<1>10. CASE ReceiptHead
  BY <1>10, Ids
  DEF ReceiptHead, At, SettleImplementation, Settle, Settleable, Unwind, Defer, Done,
      KeepPolling, TypeOK, RowStates, Checkpointed, Deleted, NoRows, HandlerOK,
      Launching, Polling, Committed, Executing, Labels
<1>11. CASE Command
  BY <1>11, Ids
  DEF Command, At, Settle, Settleable, Unwind, Defer, Done, TypeOK, RowStates,
      Checkpointed, Deleted, NoRows, HandlerOK, Launching, Polling, Committed,
      Executing, Labels
<1>12. CASE Probe
  BY <1>12, ProbeSteps, Ids
  DEF ProbeFrame, CommandBegins, Refused, Begin, Await, Unwind, TypeOK, RowStates,
      Checkpointed, Deleted, NoRows, HandlerOK, Launching, Polling, Committed,
      Executing, Labels
<1>13. CASE CommitHead
  BY <1>13, CommitHeadSteps, Ids
  DEF CommitFrame, CommandBegins, Refused, Begin, Await, Unwind, EnterPublishing,
      TransitionTo, TypeOK, RowStates, Checkpointed, Deleted, NoRows, HandlerOK,
      Launching, Polling, Committed, Executing, Labels
<1>14. CASE Refs
  BY <1>14, StartRefused, Ids
  DEF Refs, At, Unwind, BeginPush, PushRefusal, Cancelled, Await, BeginPull, Record,
      Deleted, TypeOK, RowStates, Checkpointed, NoRows, HandlerOK, Launching,
      Polling, Committed, Executing, Labels
<1>15. CASE Push
  BY <1>15, Ids
  DEF Push, At, Settle, Settleable, Unwind, Defer, Done, TypeOK, RowStates,
      Checkpointed, Deleted, NoRows, HandlerOK, Launching, Polling, Committed,
      Executing, Labels
<1>16. CASE FindPull
  BY <1>16, Ids
  DEF FindPull, At, Unwind, PullSettled, Settle, Settleable, Await, TypeOK, RowStates,
      Checkpointed, Deleted, NoRows, HandlerOK, Launching, Polling, Committed,
      Executing, Labels
<1>17. CASE CreatePull
  BY <1>17, Ids
  DEF CreatePull, At, PullSettled, Settle, Settleable, Unwind, Await, TypeOK, RowStates,
      Checkpointed, Deleted, NoRows, HandlerOK, Launching, Polling, Committed,
      Executing, Labels
<1>18. CASE FindPullAgain
  BY <1>18, Ids
  DEF FindPullAgain, At, Unwind, PullSettled, Settle, Settleable, TypeOK, RowStates,
      Checkpointed, Deleted, NoRows, HandlerOK, Launching, Polling, Committed,
      Executing, Labels
<1>19. CASE Catch
  BY <1>19, Ids
  DEF Catch, Caught, Defer, Done, StopRun, TransitionTo, TypeOK, RowStates,
      Checkpointed, Deleted, NoRows, HandlerOK, Launching, Polling, Committed,
      Executing, Labels, Refusals
<1>20. CASE UnwindExecution
  BY <1>20, Ids
  DEF UnwindExecution, TransitionTo, Caught, Defer, Done, StopRun, TypeOK, RowStates,
      Checkpointed, Deleted, NoRows, HandlerOK, Launching, Polling, Committed,
      Executing, Labels, Refusals
<1>21. CASE Finish
  BY <1>21, Ids
  DEF Finish, Defer, Done, StopRun, TransitionTo, TypeOK, RowStates, Checkpointed,
      Deleted, NoRows, HandlerOK, Launching, Polling, Committed, Executing, Labels
<1>22. CASE Verify
  BY <1>22, Ids
  DEF Verify, Done, TypeOK, RowStates, Checkpointed, Deleted, NoRows, HandlerOK,
      Launching, Polling, Committed, Executing, Labels
<1>23. CASE Cleanup
  BY <1>23, Ids
  DEF Cleanup, Done, TypeOK, RowStates, Checkpointed, Deleted, NoRows, HandlerOK,
      Launching, Polling, Committed, Executing, Labels
<1>24. CASE Release
  BY <1>24, Ids
  DEF Release, Done, TypeOK, RowStates, Checkpointed, Deleted, NoRows, HandlerOK,
      Launching, Polling, Committed, Executing, Labels
<1>25. CASE Start
  BY <1>25, Ids
  DEF Start, TransitionTo, TypeOK, RowStates, Checkpointed, Deleted, NoRows, HandlerOK,
      Launching, Polling, Committed, Executing, Labels
<1>26. CASE CancelDestroyed
  BY <1>26, Ids
  DEF CancelDestroyed, TypeOK, RowStates, Checkpointed, Deleted, NoRows, HandlerOK,
      Launching, Polling, Committed, Executing, Labels
<1>27. CASE CancelReleased
  BY <1>27, Ids
  DEF CancelReleased, TransitionTo, TypeOK, RowStates, Checkpointed, Deleted, NoRows,
      HandlerOK, Launching, Polling, Committed, Executing, Labels
<1>28. CASE Purge
  BY <1>28, Ids
  DEF Purge, TypeOK, RowStates, Checkpointed, Deleted, NoRows, HandlerOK, Launching,
      Polling, Committed, Executing, Labels
<1>29. CASE \E r \in Requests : Accept(r)
  BY <1>29, AcceptSteps, Ids
  DEF AcceptFrame, TypeOK, RowStates, Checkpointed, Deleted, NoRows, HandlerOK,
      Launching, Polling, Committed, Executing, Labels
<1>30. CASE Restart
  BY <1>30, Ids
  DEF Restart, Done, TypeOK, RowStates, Checkpointed, Deleted, NoRows, HandlerOK,
      Launching, Polling, Committed, Executing, Labels
<1>31. CASE Cancel \/ Answer \/ (\E r \in Requests : Submit(r)) \/ Land \/ OpenedByHand \/
             ChildEnds \/ DeadlinePasses
  <2>1. UNCHANGED <<rows, checkpoint, runState, held>>
    BY <1>31
    DEF Cancel, Answer, Submit, Land, OpenedByHand, ChildEnds, DeadlinePasses
  <2> QED
    BY <2>1 DEF Checkpointed, Deleted
<1>32. CASE UNCHANGED vars
  BY <1>32 DEF vars, Checkpointed, Deleted
<1> QED
  BY <1>1, <1>2, <1>3, <1>4, <1>5, <1>6, <1>7, <1>8, <1>9, <1>10, <1>11, <1>12, <1>13,
     <1>14, <1>15, <1>16, <1>17, <1>18, <1>19, <1>20, <1>21, <1>22, <1>23, <1>24,
     <1>25, <1>26, <1>27, <1>28, <1>29, <1>30, <1>31, <1>32
  DEF Next, HandlerStep, Owner

\* A request is sent with its intent, or after an intent that is no request.
LEMMA LaunchesKept ==
  ASSUME TypeOK, HandlerOK, VerifierOK, Launches, [Next]_vars
  PROVE  Launches'
<1> USE DEF run, handler, world, observed, verifier
<1>1. CASE Alarm
  BY <1>1, Ids
  DEF Alarm, At, PhaseStates, Done, Interrupted, Recover, TransitionTo, TypeOK,
      RowStates, Launches, EffectsNotReplayed, Deleted
<1>2. CASE Acquire
  BY <1>2, Ids
  DEF Acquire, Await, StopRun, TransitionTo, Done, TypeOK, RowStates, Launches,
      EffectsNotReplayed, Deleted
<1>3. CASE Acquired
  BY <1>3, AcquiredSteps, Ids
  DEF AcquiredFrame, CommandBegins, Refused, Begin, Await, Unwind, Refuse, TransitionTo,
      TypeOK, RowStates, Launches, EffectsNotReplayed, Deleted
<1>4. CASE Access
  BY <1>4, StartRefused, Ids
  DEF Access, Refuse, Await, Begin, TypeOK, RowStates, Launches, EffectsNotReplayed,
      Deleted
<1>5. CASE Clone
  BY <1>5, Ids
  DEF Clone, Refuse, Await, TypeOK, RowStates, Launches, EffectsNotReplayed, Deleted
<1>6. CASE BaseHead
  BY <1>6, Ids
  DEF BaseHead, Unwind, Defer, Done, Await, TypeOK, RowStates, Launches,
      EffectsNotReplayed, Deleted
<1>7. CASE StartImplementation
  BY <1>7, StartRefused, Ids
  DEF StartImplementation, Unwind, Begin, Await, TypeOK, RowStates, Launches,
      EffectsNotReplayed, Deleted
<1>8. CASE Launch
  BY <1>8, Ids
  DEF Launch, KeepPolling, Defer, Done, Unwind, TypeOK, RowStates, Launches,
      EffectsNotReplayed, Deleted
<1>9. CASE Receipt
  BY <1>9, Ids
  DEF Receipt, Await, SettleImplementation, Settle, Unwind, KeepPolling, Defer, Done,
      TypeOK, RowStates, Launches, EffectsNotReplayed, Deleted
<1>10. CASE ReceiptHead
  BY <1>10, Ids
  DEF ReceiptHead, SettleImplementation, Settle, Unwind, Defer, Done, KeepPolling,
      TypeOK, RowStates, Launches, EffectsNotReplayed, Deleted
<1>11. CASE Command
  BY <1>11, Ids
  DEF Command, Settle, Unwind, Defer, Done, TypeOK, RowStates, Launches,
      EffectsNotReplayed, Deleted
<1>12. CASE Probe
  BY <1>12, ProbeSteps, Ids
  DEF ProbeFrame, CommandBegins, Refused, Begin, Await, Unwind, TypeOK, RowStates,
      Launches, EffectsNotReplayed, Deleted
<1>13. CASE CommitHead
  BY <1>13, CommitHeadSteps, Ids
  DEF CommitFrame, CommandBegins, Refused, Begin, Await, Unwind, EnterPublishing,
      TransitionTo, TypeOK, RowStates, Launches, EffectsNotReplayed, Deleted
<1>14. CASE Refs
  BY <1>14, StartRefused, Ids
  DEF Refs, At, Unwind, BeginPush, PushRefusal, Cancelled, Await, BeginPull, Record,
      Deleted, TypeOK, RowStates, Launches, EffectsNotReplayed
<1>15. CASE Push
  BY <1>15, Ids
  DEF Push, Settle, Unwind, Defer, Done, TypeOK, RowStates, Launches,
      EffectsNotReplayed, Deleted
<1>16. CASE FindPull
  BY <1>16, Ids
  DEF FindPull, At, Unwind, PullSettled, Settle, Settleable, Await, TypeOK, RowStates,
      Launches, EffectsNotReplayed, Deleted
<1>17. CASE CreatePull
  BY <1>17, Ids
  DEF CreatePull, PullSettled, Settle, Unwind, Await, TypeOK, RowStates, Launches,
      EffectsNotReplayed, Deleted
<1>18. CASE FindPullAgain
  BY <1>18, Ids
  DEF FindPullAgain, Unwind, PullSettled, Settle, TypeOK, RowStates, Launches,
      EffectsNotReplayed, Deleted
<1>19. CASE Catch
  BY <1>19, Ids
  DEF Catch, Caught, Defer, Done, StopRun, TransitionTo, TypeOK, RowStates, Launches,
      EffectsNotReplayed, Deleted
<1>20. CASE UnwindExecution
  BY <1>20, Ids
  DEF UnwindExecution, TransitionTo, Caught, Defer, Done, StopRun, TypeOK, RowStates,
      Launches, EffectsNotReplayed, Deleted
<1>21. CASE Finish
  BY <1>21, Ids
  DEF Finish, Defer, Done, StopRun, TransitionTo, TypeOK, RowStates, Launches,
      EffectsNotReplayed, Deleted
<1>22. CASE Verify
  BY <1>22, Ids
  DEF Verify, At, Done, TypeOK, RowStates, Launches, EffectsNotReplayed, Deleted,
      HandlerOK
<1>23. CASE Cleanup
  BY <1>23, Ids
  DEF Cleanup, At, Done, TypeOK, RowStates, Launches, EffectsNotReplayed, Deleted,
      HandlerOK
<1>24. CASE Release
  BY <1>24, Ids
  DEF Release, Done, TypeOK, RowStates, Launches, EffectsNotReplayed, Deleted
<1>25. CASE Start
  BY <1>25, Ids
  DEF Start, TransitionTo, TypeOK, RowStates, Launches, EffectsNotReplayed, Deleted
<1>26. CASE CancelDestroyed
  BY <1>26, Ids
  DEF CancelDestroyed, TypeOK, RowStates, Launches, EffectsNotReplayed, Deleted
<1>27. CASE CancelReleased
  BY <1>27, Ids
  DEF CancelReleased, TransitionTo, TypeOK, RowStates, Launches, EffectsNotReplayed,
      Deleted
<1>28. CASE Purge
  BY <1>28, Ids
  DEF Purge, TypeOK, RowStates, Launches, EffectsNotReplayed, Deleted
<1>29. CASE \E r \in Requests : Accept(r)
  BY <1>29, AcceptSteps, Ids
  DEF AcceptFrame, TypeOK, RowStates, Launches, EffectsNotReplayed, Deleted
<1>30. CASE Restart
  BY <1>30, Ids
  DEF Restart, Done, TypeOK, RowStates, Launches, EffectsNotReplayed, Deleted
<1>31. CASE Cancel \/ Answer \/ (\E r \in Requests : Submit(r)) \/ Land \/ OpenedByHand \/
             ChildEnds \/ DeadlinePasses
  <2>1. UNCHANGED <<rows, launched, runState, pc>>
    BY <1>31
    DEF Cancel, Answer, Submit, Land, OpenedByHand, ChildEnds, DeadlinePasses
  <2> QED
    BY <2>1 DEF Launches, EffectsNotReplayed, Deleted
<1>32. CASE UNCHANGED vars
  BY <1>32 DEF vars, Launches, EffectsNotReplayed, Deleted
<1> QED
  BY <1>1, <1>2, <1>3, <1>4, <1>5, <1>6, <1>7, <1>8, <1>9, <1>10, <1>11, <1>12, <1>13,
     <1>14, <1>15, <1>16, <1>17, <1>18, <1>19, <1>20, <1>21, <1>22, <1>23, <1>24,
     <1>25, <1>26, <1>27, <1>28, <1>29, <1>30, <1>31, <1>32
  DEF Next, HandlerStep, Owner

\* Only an intent in the table pushes or opens, and only the pull request itself
\* makes its row a success.
LEMMA AtGitHubKept ==
  ASSUME TypeOK, HandlerOK, VerifierOK, AtGitHub, [Next]_vars
  PROVE  AtGitHub'
<1> USE DEF run, handler, world, observed, verifier
<1>1. CASE Alarm
  BY <1>1, Ids
  DEF Alarm, At, PhaseStates, Done, Interrupted, Recover, TransitionTo, TypeOK,
      HandlerOK, RowStates, AtGitHub, Deleted
<1>2. CASE Acquire
  BY <1>2, Ids
  DEF Acquire, Await, StopRun, TransitionTo, Done, TypeOK, HandlerOK, RowStates,
      AtGitHub, Deleted
<1>3. CASE Acquired
  BY <1>3, AcquiredSteps, Ids
  DEF AcquiredFrame, CommandBegins, Refused, Begin, Await, Unwind, Refuse, TransitionTo,
      TypeOK, HandlerOK, RowStates, AtGitHub, Deleted
<1>4. CASE Access
  BY <1>4, StartRefused, Ids
  DEF Access, Refuse, Await, Begin, TypeOK, HandlerOK, RowStates, AtGitHub, Deleted
<1>5. CASE Clone
  BY <1>5, Ids
  DEF Clone, Refuse, Await, TypeOK, HandlerOK, RowStates, AtGitHub, Deleted
<1>6. CASE BaseHead
  BY <1>6, Ids
  DEF BaseHead, Unwind, Defer, Done, Await, TypeOK, HandlerOK, RowStates, AtGitHub,
      Deleted
<1>7. CASE StartImplementation
  BY <1>7, StartRefused, Ids
  DEF StartImplementation, Unwind, Begin, Await, TypeOK, HandlerOK, RowStates, AtGitHub,
      Deleted
<1>8. CASE Launch
  BY <1>8, Ids
  DEF Launch, KeepPolling, Defer, Done, Unwind, TypeOK, HandlerOK, RowStates, AtGitHub,
      Deleted
<1>9. CASE Receipt
  BY <1>9, Ids
  DEF Receipt, Await, SettleImplementation, Settle, Unwind, KeepPolling, Defer, Done,
      TypeOK, HandlerOK, RowStates, AtGitHub, Deleted
<1>10. CASE ReceiptHead
  BY <1>10, Ids
  DEF ReceiptHead, SettleImplementation, Settle, Unwind, Defer, Done, KeepPolling,
      TypeOK, HandlerOK, RowStates, AtGitHub, Deleted
<1>11. CASE Command
  BY <1>11, Ids
  DEF Command, Settle, Unwind, Defer, Done, TypeOK, HandlerOK, RowStates, AtGitHub,
      Deleted
<1>12. CASE Probe
  BY <1>12, ProbeSteps, Ids
  DEF ProbeFrame, CommandBegins, Refused, Begin, Await, Unwind, TypeOK, HandlerOK,
      RowStates, AtGitHub, Deleted
<1>13. CASE CommitHead
  BY <1>13, CommitHeadSteps, Ids
  DEF CommitFrame, CommandBegins, Refused, Begin, Await, Unwind, EnterPublishing,
      TransitionTo, TypeOK, HandlerOK, RowStates, AtGitHub, Deleted
<1>14. CASE Refs
  <2>1. CASE \/ UNCHANGED <<rows, inflight, pc>>
             \/ pc' = "unwind" /\ UNCHANGED <<rows, inflight>>
    BY <1>14, <2>1 DEF Refs, TypeOK, AtGitHub, Deleted
  <2>2. CASE branch = "none" /\ BeginPush
    <3>1. \/ UNCHANGED <<rows, inflight>>
          \/ /\ rows'["push-branch"] = "RUNNING"
             /\ rows'["open-pull-request"] = rows["open-pull-request"]
      BY <2>2, Ids DEF BeginPush, TypeOK
    <3>2. UNCHANGED <<runState, objective, branch, pull>> /\ pc' \in {"unwind", "push"}
      BY <1>14, <2>2 DEF Refs, BeginPush, Unwind, Await
    <3> QED
      BY <2>2, <3>1, <3>2 DEF AtGitHub, Deleted, BeginPush
  <2>3. CASE branch = "ours" /\ BeginPull /\ UNCHANGED inflight
    <3>1. \/ UNCHANGED rows /\ pc' = "unwind"
          \/ /\ rows'["open-pull-request"] = "RUNNING"
             /\ rows'["push-branch"] = rows["push-branch"]
             /\ objective.publication # "branch"
      BY <2>3, Ids DEF BeginPull, Unwind, TypeOK
    <3>2. UNCHANGED <<runState, objective, branch, pull, inflight>>
      BY <1>14, <2>3 DEF Refs
    <3>3. objective.publication \in {"branch", "pull_request"}
      BY CommandsOfObjective DEF TypeOK
    <3> QED
      BY <2>3, <3>1, <3>2, <3>3 DEF AtGitHub, Deleted
  <2> QED
    BY <1>14, <2>1, <2>2, <2>3 DEF Refs, Unwind
<1>15. CASE Push
  BY <1>15, Ids
  DEF Push, Settle, Unwind, Defer, Done, TypeOK, HandlerOK, RowStates, AtGitHub, Deleted
<1>16. CASE FindPull
  BY <1>16, Ids
  DEF FindPull, At, Unwind, PullSettled, Settle, Settleable, Await, TypeOK, HandlerOK,
      RowStates, AtGitHub, Deleted
<1>17. CASE CreatePull
  BY <1>17, Ids
  DEF CreatePull, At, PullSettled, Settle, Settleable, Unwind, Await, TypeOK, HandlerOK,
      RowStates, AtGitHub, Deleted
<1>18. CASE FindPullAgain
  BY <1>18, Ids
  DEF FindPullAgain, Unwind, PullSettled, Settle, TypeOK, HandlerOK, RowStates,
      AtGitHub, Deleted
<1>19. CASE Catch
  BY <1>19, Ids
  DEF Catch, Caught, Defer, Done, StopRun, TransitionTo, TypeOK, HandlerOK, RowStates,
      AtGitHub, Deleted
<1>20. CASE UnwindExecution
  BY <1>20, Ids
  DEF UnwindExecution, DestroySandbox, ContainerGone, TransitionTo, Caught, Defer, Done,
      StopRun, TypeOK, HandlerOK, RowStates, AtGitHub, Deleted
<1>21. CASE Finish
  BY <1>21, Ids
  DEF Finish, Defer, Done, StopRun, TransitionTo, TypeOK, HandlerOK, RowStates,
      AtGitHub, Deleted
<1>22. CASE Verify
  BY <1>22, Ids
  DEF Verify, At, Done, TypeOK, HandlerOK, RowStates, AtGitHub, Deleted
<1>23. CASE Cleanup
  BY <1>23, Ids
  DEF Cleanup, At, DestroySandbox, ContainerGone, Done, TypeOK, HandlerOK, RowStates,
      AtGitHub, Deleted
<1>24. CASE Release
  BY <1>24, Ids
  DEF Release, Done, TypeOK, HandlerOK, RowStates, AtGitHub, Deleted
<1>25. CASE Start
  BY <1>25, Ids
  DEF Start, TransitionTo, TypeOK, HandlerOK, RowStates, AtGitHub, Deleted
<1>26. CASE CancelDestroyed
  BY <1>26, Ids
  DEF CancelDestroyed, DestroySandbox, ContainerGone, TypeOK, HandlerOK, RowStates,
      AtGitHub, Deleted
<1>27. CASE CancelReleased
  BY <1>27, Ids
  DEF CancelReleased, TransitionTo, TypeOK, HandlerOK, RowStates, AtGitHub, Deleted
<1>28. CASE Purge
  BY <1>28, Ids
  DEF Purge, TypeOK, HandlerOK, RowStates, AtGitHub, Deleted, NoRows
<1>29. CASE \E r \in Requests : Accept(r)
  BY <1>29, AcceptSteps, Ids
  DEF AcceptFrame, TypeOK, HandlerOK, RowStates, AtGitHub, Deleted
<1>30. CASE Land
  BY <1>30, Ids
  DEF Land, TypeOK, HandlerOK, RowStates, AtGitHub, Deleted
<1>31. CASE OpenedByHand
  BY <1>31, Ids
  DEF OpenedByHand, TypeOK, HandlerOK, RowStates, AtGitHub, Deleted
<1>32. CASE Restart
  BY <1>32, Ids
  DEF Restart, Done, TypeOK, HandlerOK, RowStates, AtGitHub, Deleted
<1>33. CASE Cancel \/ Answer \/ (\E r \in Requests : Submit(r)) \/ ChildEnds \/
             DeadlinePasses
  <2>1. UNCHANGED <<rows, runState, pc, inflight, branch, pull, objective>>
    BY <1>33
    DEF Cancel, Answer, Submit, ChildEnds, DeadlinePasses
  <2> QED
    BY <2>1 DEF AtGitHub, Deleted
<1>34. CASE UNCHANGED vars
  BY <1>34 DEF vars, AtGitHub, Deleted
<1> QED
  BY <1>1, <1>2, <1>3, <1>4, <1>5, <1>6, <1>7, <1>8, <1>9, <1>10, <1>11, <1>12, <1>13,
     <1>14, <1>15, <1>16, <1>17, <1>18, <1>19, <1>20, <1>21, <1>22, <1>23, <1>24,
     <1>25, <1>26, <1>27, <1>28, <1>29, <1>30, <1>31, <1>32, <1>33, <1>34
  DEF Next, HandlerStep, Owner

-----------------------------------------------------------------------------
(* What never changes.                                                     *)

\* A run is deleted by purge only, and stays so.
LEMMA DeletedForGood ==
  ASSUME TypeOK, HandlerOK, VerifierOK, [Next]_vars
  PROVE  (Deleted => Deleted') /\ (Deleted' => Deleted \/ Purge)
<1> USE DEF run, handler, world, observed, verifier
<1>1. CASE Alarm
  BY <1>1
  DEF Alarm, At, PhaseStates, Done, Interrupted, Recover, TransitionTo, Deleted,
      HandlerOK, Refusals
<1>2. CASE Acquire
  BY <1>2
  DEF Acquire, StopRun, TransitionTo, Deleted, HandlerOK, Refusals
<1>3. CASE Acquired
  BY <1>3, AcquiredSteps
  DEF AcquiredFrame, CommandBegins, Refused, Begin, Await, Unwind, Refuse, TransitionTo,
      Deleted, HandlerOK, Refusals
<1>4. CASE CommitHead
  BY <1>4, CommitHeadSteps
  DEF CommitFrame, CommandBegins, Refused, Begin, Await, Unwind, EnterPublishing,
      TransitionTo, Deleted, HandlerOK, Refusals, TypeOK
<1>5. CASE Catch
  BY <1>5
  DEF Catch, Caught, StopRun, TransitionTo, Deleted, HandlerOK, Refusals
<1>6. CASE UnwindExecution
  BY <1>6
  DEF UnwindExecution, TransitionTo, Caught, StopRun, Deleted, HandlerOK, Refusals
<1>7. CASE Finish
  BY <1>7
  DEF Finish, StopRun, TransitionTo, Deleted, HandlerOK, Refusals
<1>8. CASE Start
  BY <1>8
  DEF Start, TransitionTo, Deleted, HandlerOK, Refusals
<1>9. CASE CancelReleased
  BY <1>9
  DEF CancelReleased, TransitionTo, Deleted, HandlerOK, Refusals
<1>10. CASE Purge
  BY <1>10
  DEF Purge, Deleted, HandlerOK, Refusals
<1>11. CASE \E r \in Requests : Accept(r)
  BY <1>11, AcceptSteps
  DEF AcceptFrame, Deleted, HandlerOK, Refusals
<1>12. CASE Access \/ Clone \/ BaseHead \/ StartImplementation \/ Launch \/ Receipt \/
             ReceiptHead \/ Command \/ Probe \/ Refs \/ Push \/ FindPull \/
             CreatePull \/ FindPullAgain \/ Verify \/ Cleanup \/ Release \/
             Cancel \/ CancelDestroyed \/ Answer \/ (\E r \in Requests :
             Submit(r)) \/ Land \/ OpenedByHand \/ ChildEnds \/ DeadlinePasses
             \/ Restart
  <2>1. UNCHANGED runState
    BY <1>12
    DEF Access, Clone, BaseHead, StartImplementation, Launch, Receipt, ReceiptHead,
        Command, Probe, Refs, Push, FindPull, CreatePull, FindPullAgain, Verify,
        Cleanup, Release, Cancel, CancelDestroyed, Answer, Submit, Land,
        OpenedByHand, ChildEnds, DeadlinePasses, Restart
  <2> QED
    BY <2>1 DEF Deleted, Purge, RestingStates, TerminalStates
<1>13. CASE UNCHANGED vars
  BY <1>13 DEF vars, Deleted, Purge, RestingStates, TerminalStates
<1> QED
  BY <1>1, <1>2, <1>3, <1>4, <1>5, <1>6, <1>7, <1>8, <1>9, <1>10, <1>11, <1>12, <1>13
  DEF Next, HandlerStep, Owner

\* No row changes once it is settled, and none is removed while the run is there.
LEMMA RowsForGood ==
  ASSUME TypeOK, VerifierOK, [Next]_vars
  PROVE  \A a \in ActionIds :
           /\ rows[a] \in {"SUCCEEDED", "FAILED", "AMBIGUOUS"} =>
                rows'[a] = rows[a] \/ runState' = "DELETED"
           /\ rows[a] # "ABSENT" => rows'[a] # "ABSENT" \/ runState' = "DELETED"
<1> USE DEF run, handler, world, observed, verifier
<1>1. CASE Alarm
  BY <1>1, Ids
  DEF Alarm, At, PhaseStates, Done, Interrupted, Recover, TransitionTo, TypeOK,
      RowStates
<1>2. CASE Acquired
  BY <1>2, AcquiredSteps, Ids
  DEF AcquiredFrame, CommandBegins, Refused, Begin, Await, Unwind, Refuse, TransitionTo,
      TypeOK, RowStates
<1>3. CASE Access
  BY <1>3, StartRefused, Ids
  DEF Access, Begin, TypeOK, RowStates
<1>4. CASE Clone
  BY <1>4, Ids
  DEF Clone, At, Settleable, TypeOK, RowStates
<1>5. CASE StartImplementation
  BY <1>5, StartRefused, Ids
  DEF StartImplementation, Begin, TypeOK, RowStates
<1>6. CASE Receipt
  BY <1>6, Ids
  DEF Receipt, At, SettleImplementation, Settle, Settleable, TypeOK, RowStates
<1>7. CASE ReceiptHead
  BY <1>7, Ids
  DEF ReceiptHead, At, SettleImplementation, Settle, Settleable, TypeOK, RowStates
<1>8. CASE Command
  BY <1>8, Ids
  DEF Command, At, Settle, Settleable, TypeOK, RowStates
<1>9. CASE Probe
  BY <1>9, ProbeSteps, Ids
  DEF ProbeFrame, CommandBegins, Refused, Begin, Await, Unwind, TypeOK, RowStates
<1>10. CASE CommitHead
  BY <1>10, CommitHeadSteps, Ids
  DEF CommitFrame, CommandBegins, Refused, Begin, Await, Unwind, EnterPublishing,
      TransitionTo, TypeOK, RowStates
<1>11. CASE Refs
  BY <1>11, StartRefused, Ids
  DEF Refs, At, Unwind, BeginPush, PushRefusal, Cancelled, Await, BeginPull, Record,
      Deleted, TypeOK, RowStates
<1>12. CASE Push
  BY <1>12, Ids
  DEF Push, At, Settle, Settleable, TypeOK, RowStates
<1>13. CASE FindPull
  BY <1>13, Ids
  DEF FindPull, At, PullSettled, Settle, Settleable, TypeOK, RowStates
<1>14. CASE CreatePull
  BY <1>14, Ids
  DEF CreatePull, At, PullSettled, Settle, Settleable, TypeOK, RowStates
<1>15. CASE FindPullAgain
  BY <1>15, Ids
  DEF FindPullAgain, At, PullSettled, Settle, Settleable, TypeOK, RowStates
<1>16. CASE CancelDestroyed
  BY <1>16, Ids
  DEF CancelDestroyed, TypeOK, RowStates
<1>17. CASE Purge
  BY <1>17, Ids
  DEF Purge, TypeOK, RowStates
<1>18. CASE Acquire \/ BaseHead \/ Launch \/ Catch \/ UnwindExecution \/ Finish \/ Verify
             \/ Cleanup \/ Release \/ Start \/ Cancel \/ CancelReleased
  <2>1. UNCHANGED rows
    BY <1>18
    DEF Acquire, StopRun, BaseHead, Launch, Catch, Caught, UnwindExecution, Finish,
        Verify, Cleanup, Release, Start, Cancel, CancelReleased
  <2> QED
    BY <2>1 DEF TypeOK
<1>19. CASE Answer \/ (\E r \in Requests : Submit(r)) \/ (\E r \in Requests : Accept(r))
             \/ Land \/ OpenedByHand \/ ChildEnds \/ DeadlinePasses \/ Restart
  <2>1. UNCHANGED rows
    BY <1>19
    DEF Answer, Submit, Accept, Land, OpenedByHand, ChildEnds, DeadlinePasses, Restart
  <2> QED
    BY <2>1 DEF TypeOK
<1>20. CASE UNCHANGED vars
  BY <1>20 DEF vars, TypeOK
<1> QED
  BY <1>1, <1>2, <1>3, <1>4, <1>5, <1>6, <1>7, <1>8, <1>9, <1>10, <1>11, <1>12, <1>13,
     <1>14, <1>15, <1>16, <1>17, <1>18, <1>19, <1>20
  DEF Next, HandlerStep, Owner

\* The objective does not change, and what is ours at GitHub stays.
LEMMA GitHubKept ==
  ASSUME TypeOK, [Next]_vars
  PROVE  /\ objective' = objective
         /\ branch = "ours" => branch' = "ours"
         /\ pull = "ours" => pull' = "ours"
<1> USE DEF run, handler, world, observed, verifier
<1>1. CASE Land
  BY <1>1
  DEF Land
<1>2. CASE OpenedByHand
  BY <1>2
  DEF OpenedByHand
<1>3. CASE Alarm \/ Acquire \/ Acquired \/ Access \/ Clone \/ BaseHead \/
             StartImplementation \/ Launch \/ Receipt \/ ReceiptHead \/
             Command \/ Probe
  <2>1. UNCHANGED <<objective, branch, pull>>
    BY <1>3
    DEF Alarm, Acquire, Acquired, Access, Clone, BaseHead, StartImplementation, Launch,
        Receipt, ReceiptHead, Command, Probe
  <2> QED
    BY <2>1 DEF Deleted
<1>4. CASE CommitHead \/ Refs \/ Push \/ FindPull \/ CreatePull \/ FindPullAgain \/ Catch
             \/ UnwindExecution \/ Finish \/ Verify \/ Cleanup \/ Release
  <2>1. UNCHANGED <<objective, branch, pull>>
    BY <1>4
    DEF CommitHead, Refs, Push, FindPull, CreatePull, FindPullAgain, Catch,
        UnwindExecution, Finish, Verify, Cleanup, Release
  <2> QED
    BY <2>1 DEF Deleted
<1>5. CASE Start \/ Cancel \/ CancelDestroyed \/ CancelReleased \/ Purge \/ Answer \/ (\E
             r \in Requests : Submit(r)) \/ (\E r \in Requests : Accept(r)) \/
             ChildEnds \/ DeadlinePasses \/ Restart
  <2>1. UNCHANGED <<objective, branch, pull>>
    BY <1>5
    DEF Start, Cancel, CancelDestroyed, CancelReleased, Purge, Answer, Submit, Accept,
        ChildEnds, DeadlinePasses, Restart
  <2> QED
    BY <2>1 DEF Deleted
<1>6. CASE UNCHANGED vars
  BY <1>6 DEF vars, Deleted
<1> QED
  BY <1>1, <1>2, <1>3, <1>4, <1>5, <1>6
  DEF Next, HandlerStep, Owner

-----------------------------------------------------------------------------
(* The order of validation, commit and publication.                        *)

\* The handler comes to the publication by way of the probe that finds the commit
\* and the whole validation succeeded.
LEMMA CommitFirst ==
  ASSUME TypeOK, HandlerOK, [Next]_vars
  PROVE  pc' \in Committed =>
           pc \in Committed \/ (rows["create-commit"] = "SUCCEEDED" /\ Validated)
<1> USE DEF run, handler, world, observed, verifier
<1>1. CASE Alarm
  BY <1>1
  DEF Alarm, Done, Recover, Committed
<1>2. CASE Acquire
  BY <1>2
  DEF Acquire, Await, StopRun, Done, Committed
<1>3. CASE Acquired
  BY <1>3, AcquiredSteps
  DEF AcquiredFrame, CommandBegins, Refused, Begin, Await, Unwind, Refuse, TransitionTo,
      Committed
<1>4. CASE Access
  BY <1>4, StartRefused
  DEF Access, Refuse, Await, Begin, Committed
<1>5. CASE Clone
  BY <1>5
  DEF Clone, Refuse, Await, Committed
<1>6. CASE BaseHead
  BY <1>6
  DEF BaseHead, Unwind, Defer, Done, Await, Committed
<1>7. CASE StartImplementation
  BY <1>7, StartRefused
  DEF StartImplementation, Unwind, Begin, Await, Committed
<1>8. CASE Launch
  BY <1>8
  DEF Launch, KeepPolling, Defer, Done, Unwind, Committed
<1>9. CASE Receipt
  BY <1>9
  DEF Receipt, Await, SettleImplementation, Settle, Unwind, KeepPolling, Defer, Done,
      Committed
<1>10. CASE ReceiptHead
  BY <1>10
  DEF ReceiptHead, SettleImplementation, Settle, Unwind, Defer, Done, KeepPolling,
      Committed
<1>11. CASE Command
  BY <1>11
  DEF Command, Settle, Unwind, Defer, Done, Committed
<1>12. CASE Probe
  BY <1>12, ProbeSteps
  DEF ProbeFrame, CommandBegins, Refused, Begin, Await, Unwind, Committed, TypeOK
<1>13. CASE CommitHead
  BY <1>13, CommitHeadSteps
  DEF CommitFrame, CommandBegins, Refused, Begin, Await, Unwind, EnterPublishing,
      TransitionTo, Committed, TypeOK
<1>14. CASE Refs
  BY <1>14, StartRefused
  DEF Refs, At, Unwind, BeginPush, Await, BeginPull, Committed
<1>15. CASE Push
  BY <1>15
  DEF Push, Settle, Unwind, Defer, Done, Committed
<1>16. CASE FindPull
  BY <1>16
  DEF FindPull, At, Unwind, PullSettled, Settle, Settleable, Await, Committed
<1>17. CASE CreatePull
  BY <1>17
  DEF CreatePull, At, PullSettled, Settle, Settleable, Unwind, Await, Committed
<1>18. CASE FindPullAgain
  BY <1>18
  DEF FindPullAgain, Unwind, PullSettled, Settle, Committed
<1>19. CASE Catch
  BY <1>19
  DEF Catch, Caught, Defer, Done, StopRun, Committed
<1>20. CASE UnwindExecution
  BY <1>20
  DEF UnwindExecution, Caught, Defer, Done, StopRun, Committed
<1>21. CASE Finish
  BY <1>21
  DEF Finish, Defer, Done, StopRun, Committed
<1>22. CASE Verify
  BY <1>22
  DEF Verify, At, Done, Committed, HandlerOK
<1>23. CASE Cleanup
  BY <1>23
  DEF Cleanup, At, Done, Committed, HandlerOK
<1>24. CASE Release
  BY <1>24
  DEF Release, Done, Committed
<1>25. CASE Restart
  BY <1>25
  DEF Restart, Done, Committed
<1>26. CASE Start \/ Cancel \/ CancelDestroyed \/ CancelReleased \/ Purge \/ Answer \/ (\E
             r \in Requests : Submit(r)) \/ (\E r \in Requests : Accept(r)) \/
             Land \/ OpenedByHand \/ ChildEnds \/ DeadlinePasses
  <2>1. UNCHANGED pc
    BY <1>26
    DEF Start, Cancel, CancelDestroyed, CancelReleased, Purge, Answer, Submit, Accept,
        Land, OpenedByHand, ChildEnds, DeadlinePasses
  <2> QED
    BY <2>1 DEF Committed
<1>27. CASE UNCHANGED vars
  BY <1>27 DEF vars, Committed
<1> QED
  BY <1>1, <1>2, <1>3, <1>4, <1>5, <1>6, <1>7, <1>8, <1>9, <1>10, <1>11, <1>12, <1>13,
     <1>14, <1>15, <1>16, <1>17, <1>18, <1>19, <1>20, <1>21, <1>22, <1>23, <1>24,
     <1>25, <1>26, <1>27
  DEF Next, HandlerStep, Owner

\* The push is requested after that.
LEMMA PushAfterCommit ==
  ASSUME TypeOK, VerifierOK, [Next]_vars
  PROVE  launched'["push-branch"] > 0 =>
           pc \in Committed \/ launched["push-branch"] > 0
<1> USE DEF run, handler, world, observed, verifier
<1>1. CASE Acquired
  BY <1>1, AcquiredSteps, Ids
  DEF AcquiredFrame, CommandBegins, Refused, Begin, Await, Unwind, Refuse, TransitionTo,
      TypeOK
<1>2. CASE Access
  BY <1>2, StartRefused, Ids
  DEF Access, Begin, TypeOK
<1>3. CASE StartImplementation
  BY <1>3, StartRefused, Ids
  DEF StartImplementation, Begin, TypeOK
<1>4. CASE Probe
  BY <1>4, ProbeSteps, Ids
  DEF ProbeFrame, CommandBegins, Refused, Begin, Await, Unwind, TypeOK
<1>5. CASE CommitHead
  BY <1>5, CommitHeadSteps, Ids
  DEF CommitFrame, CommandBegins, Refused, Begin, Await, Unwind, EnterPublishing,
      TransitionTo, TypeOK
<1>6. CASE Refs
  BY <1>6, StartRefused, Ids
  DEF Refs, At, BeginPush, BeginPull, TypeOK, Committed
<1>7. CASE FindPull
  BY <1>7, Ids
  DEF FindPull, TypeOK, Committed
<1>8. CASE Alarm \/ Acquire \/ Clone \/ BaseHead \/ Launch \/ Receipt \/ ReceiptHead \/
             Command \/ Push \/ CreatePull \/ FindPullAgain \/ Catch
  <2>1. UNCHANGED launched
    BY <1>8
    DEF Alarm, Acquire, Clone, BaseHead, Launch, Receipt, ReceiptHead, Command, Push,
        CreatePull, FindPullAgain, Catch
  <2> QED
    BY <2>1 DEF TypeOK
<1>9. CASE UnwindExecution \/ Finish \/ Verify \/ Cleanup \/ Release \/ Start \/ Cancel
             \/ CancelDestroyed \/ CancelReleased \/ Purge \/ Answer \/ (\E r
             \in Requests : Submit(r))
  <2>1. UNCHANGED launched
    BY <1>9
    DEF UnwindExecution, Finish, Verify, Cleanup, Release, Start, Cancel,
        CancelDestroyed, CancelReleased, Purge, Answer, Submit
  <2> QED
    BY <2>1 DEF TypeOK
<1>10. CASE (\E r \in Requests : Accept(r)) \/ Land \/ OpenedByHand \/ ChildEnds \/
             DeadlinePasses \/ Restart
  <2>1. UNCHANGED launched
    BY <1>10
    DEF Accept, Land, OpenedByHand, ChildEnds, DeadlinePasses, Restart
  <2> QED
    BY <2>1 DEF TypeOK
<1>11. CASE UNCHANGED vars
  BY <1>11 DEF vars, TypeOK
<1> QED
  BY <1>1, <1>2, <1>3, <1>4, <1>5, <1>6, <1>7, <1>8, <1>9, <1>10, <1>11
  DEF Next, HandlerStep, Owner

\* What was published is recorded by the publication only.
LEMMA RecordedKept ==
  ASSUME TypeOK, VerifierOK, [Next]_vars
  PROVE  pc \in Committed \/ recorded' = recorded \/ runState' = "DELETED"
<1> USE DEF run, handler, world, observed, verifier
<1>1. CASE Refs
  BY <1>1, StartRefused
  DEF Refs, At, BeginPull, Record, Committed
<1>2. CASE Push
  BY <1>2
  DEF Push, At, Settleable, Committed
<1>3. CASE FindPull
  BY <1>3
  DEF FindPull, At, PullSettled, Settleable, Committed
<1>4. CASE CreatePull
  BY <1>4
  DEF CreatePull, At, PullSettled, Settleable, Committed
<1>5. CASE FindPullAgain
  BY <1>5
  DEF FindPullAgain, At, PullSettled, Settleable, Committed
<1>6. CASE Purge
  BY <1>6
  DEF Purge, Committed
<1>7. CASE Alarm \/ Acquire \/ Acquired \/ Access \/ Clone \/ BaseHead \/
             StartImplementation \/ Launch \/ Receipt \/ ReceiptHead \/
             Command \/ Probe
  <2>1. UNCHANGED recorded
    BY <1>7
    DEF Alarm, Acquire, StopRun, Acquired, Access, Clone, BaseHead, StartImplementation,
        Launch, Receipt, ReceiptHead, Command, Probe
  <2> QED
    BY <2>1 DEF Committed
<1>8. CASE CommitHead \/ Catch \/ UnwindExecution \/ Finish \/ Verify \/ Cleanup \/
             Release \/ Start \/ Cancel \/ CancelDestroyed \/ CancelReleased
             \/ Answer
  <2>1. UNCHANGED recorded
    BY <1>8
    DEF CommitHead, Catch, Caught, StopRun, UnwindExecution, Finish, Verify, Cleanup,
        Release, Start, Cancel, CancelDestroyed, CancelReleased, Answer
  <2> QED
    BY <2>1 DEF Committed
<1>9. CASE (\E r \in Requests : Submit(r)) \/ (\E r \in Requests : Accept(r)) \/ Land \/
             OpenedByHand \/ ChildEnds \/ DeadlinePasses \/ Restart
  <2>1. UNCHANGED recorded
    BY <1>9
    DEF Submit, Accept, Land, OpenedByHand, ChildEnds, DeadlinePasses, Restart
  <2> QED
    BY <2>1 DEF Committed
<1>10. CASE UNCHANGED vars
  BY <1>10 DEF vars, Committed
<1> QED
  BY <1>1, <1>2, <1>3, <1>4, <1>5, <1>6, <1>7, <1>8, <1>9, <1>10
  DEF Next, HandlerStep, Owner

-----------------------------------------------------------------------------
(* The conclusion of an execution, and the handoff.                        *)

\* A run that publishes has implemented, committed and pushed.
LEMMA StartedBefore ==
  ASSUME TypeOK, HandlerOK, Checkpointed, AtGitHub, InOrder,
         pc \in Committed, branch = "ours", ~Deleted
  PROVE  \A a \in {"implement", "create-commit", "push-branch"} : rows[a] # "ABSENT"
<1>1. held = "succeeded"
  BY DEF HandlerOK, Executing
<1> QED
  BY <1>1 DEF Checkpointed, AtGitHub, InOrder

\* The pull request that was found concludes a publication.
LEMMA PullConcludes ==
  ASSUME TypeOK, HandlerOK, VerifierOK, Checkpointed, AtGitHub, InOrder,
         pc \in {"find", "create", "find-again"}, PullSettled,
         UNCHANGED <<runState, objective, branch, pull>>
  PROVE  fate' = "completed" => Published'
<1> SUFFICES ASSUME fate' = "completed" PROVE Published'
  OBVIOUS
<1>1. /\ pull = "ours" /\ rows["open-pull-request"] = "RUNNING"
      /\ rows' = [rows EXCEPT !["open-pull-request"] = "SUCCEEDED"]
      /\ recorded' = "pull_request"
  BY DEF PullSettled, Settle, Settleable, Unwind
<1>2. ~Deleted
  BY <1>1, Ids DEF Checkpointed, NoRows
<1>3. branch = "ours" /\ objective.publication = "pull_request"
  BY DEF AtGitHub
<1>4. \A a \in {"implement", "create-commit", "push-branch"} : rows[a] # "ABSENT"
  BY <1>2, <1>3, StartedBefore DEF Committed
<1>5. DOMAIN rows' = ActionIds
      /\ \A a \in {"implement", "create-commit", "push-branch"} : rows'[a] # "ABSENT"
  BY <1>1, <1>4, Ids DEF TypeOK
<1> QED
  BY <1>1, <1>3, <1>5, Ids DEF Published, Started

\* Whoever concludes an execution has published, or goes on from one who has.
LEMMA Concludes ==
  ASSUME TypeOK, HandlerOK, VerifierOK, Checkpointed, AtGitHub, InOrder, Reconciled, [Next]_vars
  PROVE  Concluded' => Concluded \/ Deleted \/ Published'
<1> USE DEF run, handler, world, observed, verifier
<1>1. CASE Alarm
  BY <1>1
  DEF Alarm, Done, Recover, TransitionTo, Concluded, HandlerOK, Deleted, Refusals
<1>2. CASE Acquire
  BY <1>2
  DEF Acquire, Await, StopRun, TransitionTo, Done, Concluded, HandlerOK, Deleted,
      Refusals
<1>3. CASE Acquired
  BY <1>3, AcquiredSteps
  DEF AcquiredFrame, CommandBegins, Refused, Begin, Await, Unwind, Refuse, TransitionTo,
      Concluded, HandlerOK, Deleted, Refusals
<1>4. CASE Access
  BY <1>4, StartRefused
  DEF Access, Refuse, Await, Begin, Concluded, HandlerOK, Deleted, Refusals
<1>5. CASE Clone
  BY <1>5
  DEF Clone, Refuse, Await, Concluded, HandlerOK, Deleted, Refusals
<1>6. CASE BaseHead
  BY <1>6
  DEF BaseHead, Unwind, Defer, Done, Await, Concluded, HandlerOK, Deleted, Refusals
<1>7. CASE StartImplementation
  BY <1>7, StartRefused
  DEF StartImplementation, Unwind, Begin, Await, Concluded, HandlerOK, Deleted, Refusals
<1>8. CASE Launch
  BY <1>8
  DEF Launch, KeepPolling, Defer, Done, Unwind, Concluded, HandlerOK, Deleted, Refusals
<1>9. CASE Receipt
  BY <1>9
  DEF Receipt, Await, SettleImplementation, Settle, Unwind, KeepPolling, Defer, Done,
      Concluded, HandlerOK, Deleted, Refusals
<1>10. CASE ReceiptHead
  BY <1>10
  DEF ReceiptHead, SettleImplementation, Settle, Unwind, Defer, Done, KeepPolling,
      Concluded, HandlerOK, Deleted, Refusals
<1>11. CASE Command
  BY <1>11
  DEF Command, Settle, Unwind, Defer, Done, Concluded, HandlerOK, Deleted, Refusals
<1>12. CASE Probe
  BY <1>12, ProbeSteps
  DEF ProbeFrame, CommandBegins, Refused, Begin, Await, Unwind, Concluded, HandlerOK,
      Deleted, Refusals, TypeOK
<1>13. CASE CommitHead
  BY <1>13, CommitHeadSteps
  DEF CommitFrame, CommandBegins, Refused, Begin, Await, Unwind, EnterPublishing,
      TransitionTo, Concluded, HandlerOK, Deleted, Refusals, TypeOK
<1>14. CASE Refs
  <2>1. CASE branch = "ours" /\ BeginPull
    <3>1. UNCHANGED <<runState, objective, branch, pull>> /\ pc = "refs" /\ pc' # "finish"
      BY <1>14, <2>1 DEF Refs, At, BeginPull, Unwind, Await
    <3>2. ASSUME pc' = "unwind", fate' = "completed", ~Deleted PROVE Published'
      <4>1. rows' = rows
        BY <2>1, <3>2 DEF BeginPull, Unwind, Await
      <4>2. \/ objective.publication = "branch" /\ recorded' = "branch"
            \/ /\ objective.publication # "branch" /\ recorded' = "pull_request"
               /\ rows["open-pull-request"] = "SUCCEEDED"
        BY <2>1, <3>2, StartRefused DEF BeginPull, Record, Unwind, Await, Refusals
      <4>3. \A a \in {"implement", "create-commit", "push-branch"} : rows[a] # "ABSENT"
        BY <2>1, <3>1, <3>2, StartedBefore DEF Committed
      <4>4. objective.publication \in {"branch", "pull_request"}
        BY CommandsOfObjective DEF TypeOK
      <4> QED
        BY <2>1, <3>1, <4>1, <4>2, <4>3, <4>4, Ids DEF Published, Started, AtGitHub, TypeOK
    <3> QED
      BY <3>1, <3>2 DEF Concluded
  <2>2. CASE ~(branch = "ours" /\ BeginPull)
    BY <1>14, <2>2, StartRefused DEF Refs, BeginPush, PushRefusal, Unwind, Await, Concluded, Refusals, Cancelled
  <2> QED
    BY <2>1, <2>2
<1>15. CASE Push
  BY <1>15
  DEF Push, Settle, Unwind, Defer, Done, Concluded, HandlerOK, Deleted, Refusals
<1>16. CASE FindPull
  <2>1. PullSettled \/ fate' # "completed" \/ pc' # "unwind"
    BY <1>16 DEF FindPull, Await, Unwind, Settle
  <2>2. pc \in {"find", "create", "find-again"} /\ UNCHANGED <<runState, objective, branch, pull>>
    BY <1>16 DEF FindPull, At
  <2>3. pc' # "finish"
    BY <1>16 DEF FindPull, PullSettled, Settle, Unwind, Await
  <2> QED
    BY <2>1, <2>2, <2>3, PullConcludes DEF Concluded
<1>17. CASE CreatePull
  <2>1. PullSettled \/ fate' # "completed" \/ pc' # "unwind"
    BY <1>17 DEF CreatePull, Await, Unwind, Settle
  <2>2. pc \in {"find", "create", "find-again"} /\ UNCHANGED <<runState, objective, branch, pull>>
    BY <1>17 DEF CreatePull, At
  <2>3. pc' # "finish"
    BY <1>17 DEF CreatePull, PullSettled, Settle, Unwind, Await
  <2> QED
    BY <2>1, <2>2, <2>3, PullConcludes DEF Concluded
<1>18. CASE FindPullAgain
  <2>1. PullSettled \/ fate' # "completed" \/ pc' # "unwind"
    BY <1>18 DEF FindPullAgain, Await, Unwind, Settle
  <2>2. pc \in {"find", "create", "find-again"} /\ UNCHANGED <<runState, objective, branch, pull>>
    BY <1>18 DEF FindPullAgain, At
  <2>3. pc' # "finish"
    BY <1>18 DEF FindPullAgain, PullSettled, Settle, Unwind, Await
  <2> QED
    BY <2>1, <2>2, <2>3, PullConcludes DEF Concluded
<1>19. CASE Catch
  BY <1>19
  DEF Catch, Caught, Defer, Done, StopRun, TransitionTo, Concluded, HandlerOK, Deleted,
      Refusals
<1>20. CASE UnwindExecution
  BY <1>20
  DEF UnwindExecution, At, TransitionTo, Caught, Defer, Done, StopRun, Concluded,
      HandlerOK, Deleted, Refusals
<1>21. CASE Finish
  BY <1>21
  DEF Finish, At, Defer, Done, StopRun, TransitionTo, Concluded, HandlerOK, Deleted,
      Refusals
<1>22. CASE Verify
  BY <1>22
  DEF Verify, Done, Concluded, HandlerOK, Deleted, Refusals
<1>23. CASE Cleanup
  BY <1>23
  DEF Cleanup, Done, Concluded, HandlerOK, Deleted, Refusals
<1>24. CASE Release
  BY <1>24
  DEF Release, Done, Concluded, HandlerOK, Deleted, Refusals
<1>25. CASE Start
  BY <1>25
  DEF Start, TransitionTo, Concluded, HandlerOK, Deleted, Refusals
<1>26. CASE CancelReleased
  BY <1>26
  DEF CancelReleased, TransitionTo, Concluded, HandlerOK, Deleted, Refusals
<1>27. CASE Purge
  BY <1>27
  DEF Purge, Concluded, HandlerOK, Deleted, Refusals
<1>28. CASE \E r \in Requests : Accept(r)
  BY <1>28, AcceptSteps
  DEF AcceptFrame, Concluded, HandlerOK, Deleted, Refusals
<1>29. CASE Restart
  BY <1>29
  DEF Restart, Done, Concluded, HandlerOK, Deleted, Refusals
<1>30. CASE Cancel \/ CancelDestroyed \/ Answer \/ (\E r \in Requests : Submit(r)) \/ Land
             \/ OpenedByHand \/ ChildEnds \/ DeadlinePasses
  <2>1. UNCHANGED <<pc, fate, runState>>
    BY <1>30
    DEF Cancel, CancelDestroyed, Answer, Submit, Land, OpenedByHand, ChildEnds,
        DeadlinePasses
  <2> QED
    BY <2>1 DEF Concluded
<1>31. CASE UNCHANGED vars
  BY <1>31 DEF vars, Concluded
<1> QED
  BY <1>1, <1>2, <1>3, <1>4, <1>5, <1>6, <1>7, <1>8, <1>9, <1>10, <1>11, <1>12, <1>13,
     <1>14, <1>15, <1>16, <1>17, <1>18, <1>19, <1>20, <1>21, <1>22, <1>23, <1>24,
     <1>25, <1>26, <1>27, <1>28, <1>29, <1>30, <1>31
  DEF Next, HandlerStep, Owner

\* The handler of a run that is reconciled or handed over does nothing more.
LEMMA HandedOverKept ==
  ASSUME TypeOK, HandlerOK, VerifierOK, Reconciled, [Next]_vars
  PROVE  /\ runState' = "RECONCILING" => pc' \in {"idle", "finish"}
         /\ runState' \in {"AWAITING_VERIFICATION", "VERIFIED"} =>
              pc' \in {"idle", "verify", "release"}
<1> USE DEF run, handler, world, observed, verifier
<1>1. CASE Alarm
  BY <1>1
  DEF Alarm, Done, Recover, TransitionTo, HandlerOK, Reconciled, TerminalStates,
      PhaseStates
<1>2. CASE Acquire
  BY <1>2
  DEF Acquire, At, Await, StopRun, TransitionTo, Done, HandlerOK, Reconciled,
      TerminalStates, PhaseStates
<1>3. CASE Acquired
  BY <1>3, AcquiredSteps
  DEF AcquiredFrame, CommandBegins, Refused, Begin, Await, Unwind, Refuse, TransitionTo,
      HandlerOK, Reconciled, TerminalStates, PhaseStates
<1>4. CASE Access
  BY <1>4, StartRefused
  DEF Access, At, Refuse, Await, Begin, HandlerOK, Reconciled, TerminalStates,
      PhaseStates
<1>5. CASE Clone
  BY <1>5
  DEF Clone, At, Settleable, Refuse, Await, HandlerOK, Reconciled, TerminalStates,
      PhaseStates
<1>6. CASE BaseHead
  BY <1>6
  DEF BaseHead, At, Unwind, Defer, Done, Await, HandlerOK, Reconciled, TerminalStates,
      PhaseStates
<1>7. CASE StartImplementation
  BY <1>7, StartRefused
  DEF StartImplementation, At, Unwind, Begin, Await, HandlerOK, Reconciled,
      TerminalStates, PhaseStates
<1>8. CASE Launch
  BY <1>8
  DEF Launch, At, KeepPolling, Defer, Done, Unwind, HandlerOK, Reconciled,
      TerminalStates, PhaseStates
<1>9. CASE Receipt
  BY <1>9
  DEF Receipt, At, Await, SettleImplementation, Settle, Settleable, Unwind, KeepPolling,
      Defer, Done, HandlerOK, Reconciled, TerminalStates, PhaseStates
<1>10. CASE ReceiptHead
  BY <1>10
  DEF ReceiptHead, At, SettleImplementation, Settle, Settleable, Unwind, Defer, Done,
      KeepPolling, HandlerOK, Reconciled, TerminalStates, PhaseStates
<1>11. CASE Command
  BY <1>11
  DEF Command, At, Settle, Settleable, Unwind, Defer, Done, HandlerOK, Reconciled,
      TerminalStates, PhaseStates
<1>12. CASE Probe
  BY <1>12, ProbeSteps
  DEF ProbeFrame, CommandBegins, Refused, Begin, Await, Unwind, HandlerOK, Reconciled,
      TerminalStates, PhaseStates, TypeOK
<1>13. CASE CommitHead
  BY <1>13, CommitHeadSteps
  DEF CommitFrame, CommandBegins, Refused, Begin, Await, Unwind, EnterPublishing,
      TransitionTo, HandlerOK, Reconciled, TerminalStates, PhaseStates, TypeOK
<1>14. CASE Refs
  BY <1>14, StartRefused
  DEF Refs, At, Unwind, BeginPush, Await, BeginPull, HandlerOK, Reconciled,
      TerminalStates, PhaseStates
<1>15. CASE Push
  BY <1>15
  DEF Push, At, Settle, Settleable, Unwind, Defer, Done, HandlerOK, Reconciled,
      TerminalStates, PhaseStates
<1>16. CASE FindPull
  BY <1>16
  DEF FindPull, At, Unwind, PullSettled, Settle, Settleable, Await, HandlerOK,
      Reconciled, TerminalStates, PhaseStates
<1>17. CASE CreatePull
  BY <1>17
  DEF CreatePull, At, PullSettled, Settle, Settleable, Unwind, Await, HandlerOK,
      Reconciled, TerminalStates, PhaseStates
<1>18. CASE FindPullAgain
  BY <1>18
  DEF FindPullAgain, At, Unwind, PullSettled, Settle, Settleable, HandlerOK, Reconciled,
      TerminalStates, PhaseStates
<1>19. CASE Catch
  BY <1>19
  DEF Catch, At, Caught, Defer, Done, StopRun, TransitionTo, HandlerOK, Reconciled,
      TerminalStates, PhaseStates, Refusals
<1>20. CASE UnwindExecution
  BY <1>20
  DEF UnwindExecution, At, TransitionTo, Caught, Defer, Done, StopRun, HandlerOK,
      Reconciled, TerminalStates, PhaseStates, Refusals
<1>21. CASE Finish
  BY <1>21
  DEF Finish, At, Defer, Done, StopRun, TransitionTo, HandlerOK, Reconciled,
      TerminalStates, PhaseStates
<1>22. CASE Verify
  BY <1>22
  DEF Verify, At, Done, HandlerOK, Reconciled, TerminalStates, PhaseStates
<1>23. CASE Cleanup
  BY <1>23
  DEF Cleanup, At, Done, HandlerOK, Reconciled, TerminalStates, PhaseStates
<1>24. CASE Release
  BY <1>24
  DEF Release, Done, HandlerOK, Reconciled, TerminalStates, PhaseStates
<1>25. CASE Start
  BY <1>25
  DEF Start, TransitionTo, HandlerOK, Reconciled, TerminalStates, PhaseStates
<1>26. CASE CancelReleased
  BY <1>26
  DEF CancelReleased, TransitionTo, HandlerOK, Reconciled, TerminalStates, PhaseStates
<1>27. CASE Purge
  BY <1>27
  DEF Purge, HandlerOK, Reconciled, TerminalStates, PhaseStates
<1>28. CASE \E r \in Requests : Accept(r)
  BY <1>28, AcceptSteps
  DEF AcceptFrame, HandlerOK, Reconciled, TerminalStates, PhaseStates
<1>29. CASE Restart
  BY <1>29
  DEF Restart, Done, HandlerOK, Reconciled, TerminalStates, PhaseStates
<1>30. CASE Cancel \/ CancelDestroyed \/ Answer \/ (\E r \in Requests : Submit(r)) \/ Land
             \/ OpenedByHand \/ ChildEnds \/ DeadlinePasses
  <2>1. UNCHANGED <<pc, runState>>
    BY <1>30
    DEF Cancel, CancelDestroyed, Answer, Submit, Land, OpenedByHand, ChildEnds,
        DeadlinePasses
  <2> QED
    BY <2>1 DEF Reconciled
<1>31. CASE UNCHANGED vars
  BY <1>31 DEF vars, Reconciled
<1> QED
  BY <1>1, <1>2, <1>3, <1>4, <1>5, <1>6, <1>7, <1>8, <1>9, <1>10, <1>11, <1>12, <1>13,
     <1>14, <1>15, <1>16, <1>17, <1>18, <1>19, <1>20, <1>21, <1>22, <1>23, <1>24,
     <1>25, <1>26, <1>27, <1>28, <1>29, <1>30, <1>31
  DEF Next, HandlerStep, Owner

\* Nothing changes the table that is sealed while the run is handed over.
LEMMA SealKept ==
  ASSUME TypeOK, HandlerOK, VerifierOK, Reconciled, [Next]_vars
  PROVE  runState' \in {"AWAITING_VERIFICATION", "VERIFIED"} =>
           /\ sealed' = [rows |-> rows', published |-> recorded']
           /\ \A a \in ActionIds : rows'[a] \in {"ABSENT", "SUCCEEDED"}
<1> USE DEF run, handler, world, observed, verifier
<1>1. CASE Alarm
  BY <1>1
  DEF Alarm, Recover, TransitionTo, HandlerOK, Reconciled
<1>2. CASE Acquire
  BY <1>2
  DEF Acquire, StopRun, TransitionTo, HandlerOK, Reconciled
<1>3. CASE Acquired
  BY <1>3, AcquiredSteps
  DEF AcquiredFrame, CommandBegins, Refused, Begin, Await, Unwind, Refuse, TransitionTo,
      HandlerOK, Reconciled
<1>4. CASE Access
  BY <1>4, StartRefused
  DEF Access, At, Begin, HandlerOK, Reconciled
<1>5. CASE Clone
  BY <1>5
  DEF Clone, At, Settleable, HandlerOK, Reconciled
<1>6. CASE StartImplementation
  BY <1>6, StartRefused
  DEF StartImplementation, At, Begin, HandlerOK, Reconciled
<1>7. CASE Receipt
  BY <1>7
  DEF Receipt, At, SettleImplementation, Settle, Settleable, HandlerOK, Reconciled
<1>8. CASE ReceiptHead
  BY <1>8
  DEF ReceiptHead, At, SettleImplementation, Settle, Settleable, HandlerOK, Reconciled
<1>9. CASE Command
  BY <1>9
  DEF Command, At, Settle, Settleable, HandlerOK, Reconciled
<1>10. CASE Probe
  BY <1>10, ProbeSteps
  DEF ProbeFrame, CommandBegins, Refused, Begin, Await, Unwind, HandlerOK, Reconciled,
      TypeOK
<1>11. CASE CommitHead
  BY <1>11, CommitHeadSteps
  DEF CommitFrame, CommandBegins, Refused, Begin, Await, Unwind, EnterPublishing,
      TransitionTo, HandlerOK, Reconciled, TypeOK
<1>12. CASE Refs
  BY <1>12, StartRefused
  DEF Refs, At, BeginPush, BeginPull, Record, HandlerOK, Reconciled
<1>13. CASE Push
  BY <1>13
  DEF Push, At, Settle, Settleable, HandlerOK, Reconciled
<1>14. CASE FindPull
  BY <1>14
  DEF FindPull, At, PullSettled, Settle, Settleable, HandlerOK, Reconciled
<1>15. CASE CreatePull
  BY <1>15
  DEF CreatePull, At, PullSettled, Settle, Settleable, HandlerOK, Reconciled
<1>16. CASE FindPullAgain
  BY <1>16
  DEF FindPullAgain, At, PullSettled, Settle, Settleable, HandlerOK, Reconciled
<1>17. CASE Catch
  BY <1>17
  DEF Catch, Caught, StopRun, TransitionTo, HandlerOK, Reconciled, Refusals
<1>18. CASE UnwindExecution
  BY <1>18
  DEF UnwindExecution, TransitionTo, Caught, StopRun, HandlerOK, Reconciled, Refusals
<1>19. CASE Finish
  BY <1>19
  DEF Finish, Unfinished, Started, Deleted, At, Defer, Done, StopRun, TerminalStates,
      TransitionTo, HandlerOK, Reconciled, TypeOK, RowStates
<1>20. CASE Start
  BY <1>20
  DEF Start, TransitionTo, HandlerOK, Reconciled
<1>21. CASE CancelDestroyed
  BY <1>21, Ids
  DEF CancelDestroyed, HandlerOK, Reconciled
<1>22. CASE CancelReleased
  BY <1>22
  DEF CancelReleased, TransitionTo, HandlerOK, Reconciled
<1>23. CASE Purge
  BY <1>23
  DEF Purge, HandlerOK, Reconciled
<1>24. CASE \E r \in Requests : Accept(r)
  BY <1>24, AcceptSteps
  DEF AcceptFrame, HandlerOK, Reconciled
<1>25. CASE BaseHead \/ Launch \/ Verify \/ Cleanup \/ Release \/ Cancel \/ Answer \/ (\E
             r \in Requests : Submit(r)) \/ Land \/ OpenedByHand \/ ChildEnds
             \/ DeadlinePasses
  <2>1. UNCHANGED <<runState, rows, recorded, sealed>>
    BY <1>25
    DEF BaseHead, Launch, Verify, Cleanup, Release, Cancel, Answer, Submit, Land,
        OpenedByHand, ChildEnds, DeadlinePasses
  <2> QED
    BY <2>1 DEF Reconciled
<1>26. CASE Restart
  <2>1. UNCHANGED <<runState, rows, recorded, sealed>>
    BY <1>26
    DEF Restart
  <2> QED
    BY <2>1 DEF Reconciled
<1>27. CASE UNCHANGED vars
  BY <1>27 DEF vars, Reconciled
<1> QED
  BY <1>1, <1>2, <1>3, <1>4, <1>5, <1>6, <1>7, <1>8, <1>9, <1>10, <1>11, <1>12, <1>13,
     <1>14, <1>15, <1>16, <1>17, <1>18, <1>19, <1>20, <1>21, <1>22, <1>23, <1>24,
     <1>25, <1>26, <1>27
  DEF Next, HandlerStep, Owner

-----------------------------------------------------------------------------
(* The responses of the verifier.                                          *)

\* Each response consumes its nonce, and the one that decides is the last.
LEMMA VerdictsKept ==
  ASSUME TypeOK, HandlerOK, VerifierOK, Reconciled, VerdictsOK, [Next]_vars
  PROVE  VerdictsOK'
<1> USE DEF run, handler, world, observed, verifier
<1>1. CASE Alarm
  BY <1>1
  DEF Alarm, At, PhaseStates, Done, Interrupted, Recover, TransitionTo, HandlerOK,
      TerminalStates, Reconciled, VerdictsOK, Judged
<1>2. CASE Acquire
  BY <1>2
  DEF Acquire, At, Await, StopRun, TransitionTo, Done, HandlerOK, TerminalStates,
      Reconciled, VerdictsOK, Judged
<1>3. CASE Acquired
  BY <1>3, AcquiredSteps
  DEF AcquiredFrame, CommandBegins, Refused, Begin, Await, Unwind, Refuse, TransitionTo,
      HandlerOK, TerminalStates, Reconciled, VerdictsOK, Judged
<1>4. CASE Access
  BY <1>4, StartRefused
  DEF Access, At, Refuse, Await, Begin, HandlerOK, TerminalStates, Reconciled,
      VerdictsOK, Judged
<1>5. CASE Clone
  BY <1>5
  DEF Clone, At, Settleable, Refuse, Await, HandlerOK, TerminalStates, Reconciled,
      VerdictsOK, Judged
<1>6. CASE BaseHead
  BY <1>6
  DEF BaseHead, At, Unwind, Defer, Done, Await, HandlerOK, TerminalStates, Reconciled,
      VerdictsOK, Judged
<1>7. CASE StartImplementation
  BY <1>7, StartRefused
  DEF StartImplementation, At, Unwind, Begin, Await, HandlerOK, TerminalStates,
      Reconciled, VerdictsOK, Judged
<1>8. CASE Launch
  BY <1>8
  DEF Launch, At, KeepPolling, Defer, Done, Unwind, HandlerOK, TerminalStates,
      Reconciled, VerdictsOK, Judged
<1>9. CASE Receipt
  BY <1>9
  DEF Receipt, At, Await, SettleImplementation, Settle, Settleable, Unwind, KeepPolling,
      Defer, Done, HandlerOK, TerminalStates, Reconciled, VerdictsOK, Judged
<1>10. CASE ReceiptHead
  BY <1>10
  DEF ReceiptHead, At, SettleImplementation, Settle, Settleable, Unwind, Defer, Done,
      KeepPolling, HandlerOK, TerminalStates, Reconciled, VerdictsOK, Judged
<1>11. CASE Command
  BY <1>11
  DEF Command, At, Settle, Settleable, Unwind, Defer, Done, HandlerOK, TerminalStates,
      Reconciled, VerdictsOK, Judged
<1>12. CASE Probe
  BY <1>12, ProbeSteps
  DEF ProbeFrame, CommandBegins, Refused, Begin, Await, Unwind, HandlerOK,
      TerminalStates, Reconciled, VerdictsOK, Judged, TypeOK
<1>13. CASE CommitHead
  BY <1>13, CommitHeadSteps
  DEF CommitFrame, CommandBegins, Refused, Begin, Await, Unwind, EnterPublishing,
      TransitionTo, HandlerOK, TerminalStates, Reconciled, VerdictsOK, Judged,
      TypeOK
<1>14. CASE Refs
  BY <1>14, StartRefused
  DEF Refs, At, Unwind, BeginPush, Await, BeginPull, HandlerOK, TerminalStates,
      Reconciled, VerdictsOK, Judged
<1>15. CASE Push
  BY <1>15
  DEF Push, At, Settle, Settleable, Unwind, Defer, Done, HandlerOK, TerminalStates,
      Reconciled, VerdictsOK, Judged
<1>16. CASE FindPull
  BY <1>16
  DEF FindPull, At, Unwind, PullSettled, Settle, Settleable, Await, HandlerOK,
      TerminalStates, Reconciled, VerdictsOK, Judged
<1>17. CASE CreatePull
  BY <1>17
  DEF CreatePull, At, PullSettled, Settle, Settleable, Unwind, Await, HandlerOK,
      TerminalStates, Reconciled, VerdictsOK, Judged
<1>18. CASE FindPullAgain
  BY <1>18
  DEF FindPullAgain, At, Unwind, PullSettled, Settle, Settleable, HandlerOK,
      TerminalStates, Reconciled, VerdictsOK, Judged
<1>19. CASE Catch
  BY <1>19
  DEF Catch, At, Caught, Defer, Done, StopRun, TransitionTo, HandlerOK, TerminalStates,
      Reconciled, VerdictsOK, Judged
<1>20. CASE UnwindExecution
  BY <1>20
  DEF UnwindExecution, At, TransitionTo, Caught, Defer, Done, StopRun, HandlerOK,
      TerminalStates, Reconciled, VerdictsOK, Judged
<1>21. CASE Finish
  BY <1>21
  DEF Finish, At, Defer, Done, StopRun, TransitionTo, HandlerOK, TerminalStates,
      Reconciled, VerdictsOK, Judged
<1>22. CASE Verify
  BY <1>22
  DEF Verify, At, Done, HandlerOK, TerminalStates, Reconciled, VerdictsOK, Judged
<1>23. CASE Cleanup
  BY <1>23
  DEF Cleanup, At, Done, HandlerOK, TerminalStates, Reconciled, VerdictsOK, Judged
<1>24. CASE Release
  BY <1>24
  DEF Release, Done, HandlerOK, TerminalStates, Reconciled, VerdictsOK, Judged
<1>25. CASE Start
  BY <1>25
  DEF Start, TransitionTo, HandlerOK, TerminalStates, Reconciled, VerdictsOK, Judged
<1>26. CASE CancelReleased
  BY <1>26
  DEF CancelReleased, TransitionTo, HandlerOK, TerminalStates, Reconciled, VerdictsOK,
      Judged
<1>27. CASE Purge
  BY <1>27
  DEF Purge, HandlerOK, TerminalStates, Reconciled, VerdictsOK, Judged
<1>28. CASE \E r \in Requests : Accept(r)
  <2>1. PICK r \in Requests : Accept(r)
    BY <1>28
  <2>2. UNCHANGED pc /\ replays \subseteq replays'
    BY <2>1, AcceptSteps DEF AcceptFrame
  <2>3. CASE UNCHANGED <<runState, head, replays, verdicts>>
    BY <2>2, <2>3 DEF VerdictsOK, Judged
  <2>4. CASE /\ runState = "AWAITING_VERIFICATION"
             /\ submit[r] \in Answers /\ head = submit[r].nonce
             /\ runState' \in {"VERIFIED", "FAILED_SAFE", "AWAITING_VERIFICATION"}
             /\ runState' = "AWAITING_VERIFICATION" <=> submit[r].decision = "uncertain"
             /\ replays' = replays \cup {head}
             /\ verdicts' = Append(verdicts, submit[r])
    <3>1. /\ verdicts' \in Seq(Answers) /\ DOMAIN verdicts' = DOMAIN verdicts \cup {Len(verdicts) + 1}
          /\ verdicts'[Len(verdicts) + 1] = submit[r]
          /\ \A i \in DOMAIN verdicts : verdicts'[i] = verdicts[i]
      BY <2>4, AppendProperties, LenProperties DEF VerdictsOK
    <3>2. ~Judged /\ pc \in {"idle", "verify", "release"}
      BY <2>4 DEF VerdictsOK, TerminalStates, Reconciled
    <3>3. \A i \in DOMAIN verdicts' : verdicts'[i].nonce \in replays'
      BY <2>2, <2>4, <3>1 DEF VerdictsOK
    <3>4. Judged' => runState' # "AWAITING_VERIFICATION"
      BY <2>4, <3>1, <3>2 DEF Judged
    <3> QED
      BY <2>2, <2>4, <3>1, <3>2, <3>3, <3>4 DEF VerdictsOK, TerminalStates
  <2> QED
    BY <2>1, <2>3, <2>4, AcceptSteps
<1>29. CASE Restart
  BY <1>29
  DEF Restart, Done, HandlerOK, TerminalStates, Reconciled, VerdictsOK, Judged
<1>30. CASE Cancel \/ CancelDestroyed \/ Answer \/ (\E r \in Requests : Submit(r)) \/ Land
             \/ OpenedByHand \/ ChildEnds \/ DeadlinePasses
  <2>1. UNCHANGED <<verdicts, replays, pc, runState>>
    BY <1>30
    DEF Cancel, CancelDestroyed, Answer, Submit, Land, OpenedByHand, ChildEnds,
        DeadlinePasses
  <2> QED
    BY <2>1 DEF VerdictsOK, Judged
<1>31. CASE UNCHANGED vars
  BY <1>31 DEF vars, VerdictsOK, Judged
<1> QED
  BY <1>1, <1>2, <1>3, <1>4, <1>5, <1>6, <1>7, <1>8, <1>9, <1>10, <1>11, <1>12, <1>13,
     <1>14, <1>15, <1>16, <1>17, <1>18, <1>19, <1>20, <1>21, <1>22, <1>23, <1>24,
     <1>25, <1>26, <1>27, <1>28, <1>29, <1>30, <1>31
  DEF Next, HandlerStep, Owner

\* Only the acceptance of a response makes a run VERIFIED.
LEMMA Verifications ==
  ASSUME TypeOK, HandlerOK, [Next]_vars
  PROVE  runState' = "VERIFIED" => runState = "VERIFIED" \/ \E r \in Requests : Accept(r)
<1> USE DEF run, handler, world, observed, verifier
<1>1. CASE Alarm
  BY <1>1, States
  DEF Alarm, Recover, TransitionTo, HandlerOK, Refusals, TypeOK
<1>2. CASE Acquire
  BY <1>2, States
  DEF Acquire, StopRun, TransitionTo, HandlerOK, Refusals, TypeOK
<1>3. CASE Acquired
  BY <1>3, AcquiredSteps, States
  DEF AcquiredFrame, CommandBegins, Refused, Begin, Await, Unwind, Refuse, TransitionTo,
      HandlerOK, Refusals, TypeOK
<1>4. CASE CommitHead
  BY <1>4, CommitHeadSteps, States
  DEF CommitFrame, CommandBegins, Refused, Begin, Await, Unwind, EnterPublishing,
      TransitionTo, HandlerOK, Refusals, TypeOK
<1>5. CASE Catch
  BY <1>5, States
  DEF Catch, Caught, StopRun, TransitionTo, HandlerOK, Refusals, TypeOK
<1>6. CASE UnwindExecution
  BY <1>6, States
  DEF UnwindExecution, TransitionTo, Caught, StopRun, HandlerOK, Refusals, TypeOK
<1>7. CASE Finish
  BY <1>7, States
  DEF Finish, StopRun, TransitionTo, HandlerOK, Refusals, TypeOK
<1>8. CASE Start
  BY <1>8, States
  DEF Start, TransitionTo, HandlerOK, Refusals, TypeOK
<1>9. CASE CancelReleased
  BY <1>9, States
  DEF CancelReleased, TransitionTo, HandlerOK, Refusals, TypeOK
<1>10. CASE Purge
  BY <1>10, States
  DEF Purge, HandlerOK, Refusals, TypeOK
<1>11. CASE \E r \in Requests : Accept(r)
  BY <1>11
<1>12. CASE Access \/ Clone \/ BaseHead \/ StartImplementation \/ Launch \/ Receipt \/
             ReceiptHead \/ Command \/ Probe \/ Refs \/ Push \/ FindPull
  <2>1. UNCHANGED runState
    BY <1>12
    DEF Access, Clone, BaseHead, StartImplementation, Launch, Receipt, ReceiptHead,
        Command, Probe, Refs, Push, FindPull
  <2> QED
    BY <2>1 DEF TypeOK
<1>13. CASE CreatePull \/ FindPullAgain \/ Verify \/ Cleanup \/ Release \/ Cancel \/
             CancelDestroyed \/ Answer \/ (\E r \in Requests : Submit(r)) \/
             Land \/ OpenedByHand \/ ChildEnds
  <2>1. UNCHANGED runState
    BY <1>13
    DEF CreatePull, FindPullAgain, Verify, Cleanup, Release, Cancel, CancelDestroyed,
        Answer, Submit, Land, OpenedByHand, ChildEnds
  <2> QED
    BY <2>1 DEF TypeOK
<1>14. CASE DeadlinePasses \/ Restart
  <2>1. UNCHANGED runState
    BY <1>14
    DEF DeadlinePasses, Restart
  <2> QED
    BY <2>1 DEF TypeOK
<1>15. CASE UNCHANGED vars
  BY <1>15 DEF vars, TypeOK
<1> QED
  BY <1>1, <1>2, <1>3, <1>4, <1>5, <1>6, <1>7, <1>8, <1>9, <1>10, <1>11, <1>12, <1>13,
     <1>14, <1>15
  DEF Next, HandlerStep, Owner

\* Nothing else records a response.
LEMMA VerdictsStay ==
  ASSUME TypeOK, [Next]_vars
  PROVE  verdicts' = verdicts \/ \E r \in Requests : Accept(r)
<1> USE DEF run, handler, world, observed, verifier
<1>1. CASE \E r \in Requests : Accept(r)
  BY <1>1
<1>2. CASE Alarm \/ Acquire \/ Acquired \/ Access \/ Clone \/ BaseHead \/
             StartImplementation \/ Launch \/ Receipt \/ ReceiptHead \/
             Command \/ Probe \/ CommitHead \/ Refs \/ Push \/ FindPull \/
             CreatePull \/ FindPullAgain \/ Catch \/ UnwindExecution \/ Finish
             \/ Verify \/ Cleanup \/ Release \/ Start \/ Cancel \/
             CancelDestroyed \/ CancelReleased \/ Purge \/ Answer \/ (\E r \in
             Requests : Submit(r)) \/ Land \/ OpenedByHand \/ ChildEnds \/
             DeadlinePasses \/ Restart
  <2>1. UNCHANGED verdicts
    BY <1>2
    DEF Alarm, Acquire, Acquired, Access, Clone, BaseHead, StartImplementation, Launch,
        Receipt, ReceiptHead, Command, Probe, CommitHead, Refs, Push, FindPull,
        CreatePull, FindPullAgain, Catch, UnwindExecution, Finish, Verify,
        Cleanup, Release, Start, Cancel, CancelDestroyed, CancelReleased, Purge,
        Answer, Submit, Land, OpenedByHand, ChildEnds, DeadlinePasses, Restart
  <2> QED
    BY <2>1 DEF TypeOK
<1>3. CASE UNCHANGED vars
  BY <1>3 DEF vars, TypeOK
<1> QED
  BY <1>1, <1>2, <1>3
  DEF Next, HandlerStep, Owner

-----------------------------------------------------------------------------
(* The parts of the invariant that rest on the lemmas above.               *)

\* Publication stays behind the commit, and the commit behind the validation.
LEMMA InOrderKept ==
  ASSUME TypeOK, HandlerOK, VerifierOK, InOrder, [Next]_vars
  PROVE  InOrder'
<1>1. Deleted => Deleted'
  BY DeletedForGood
<1>2. rows["create-commit"] = "SUCCEEDED" => rows'["create-commit"] = "SUCCEEDED" \/ Deleted'
  BY RowsForGood, Ids DEF Deleted
<1>3. Validated => Validated' \/ Deleted'
  <2>1. objective' = objective /\ objective \in Objectives
    BY GitHubKept DEF TypeOK
  <2>2. objective.validation \in Seq(Commands)
    BY <2>1, CommandsOfObjective
  <2>3. \A i \in DOMAIN objective.validation : objective.validation[i] \in ActionIds
    BY <2>2, ElementOfSeq, LenProperties, Ids
  <2> QED
    BY <2>1, <2>3, RowsForGood DEF Validated, Deleted
<1>4. pc' \in Committed =>
        pc \in Committed \/ (rows["create-commit"] = "SUCCEEDED" /\ Validated)
  BY CommitFirst
<1>5. launched'["push-branch"] > 0 => pc \in Committed \/ launched["push-branch"] > 0
  BY PushAfterCommit
<1> QED
  BY <1>1, <1>2, <1>3, <1>4, <1>5 DEF InOrder

\* What is published stays published, unless the run is deleted.
LEMMA PublishedKept ==
  ASSUME TypeOK, VerifierOK, [Next]_vars, Published, recorded' = recorded
  PROVE  Published' \/ Deleted'
<1>1. objective' = objective /\ branch' = "ours"
      /\ (objective.publication = "pull_request" => pull' = "ours")
  BY GitHubKept DEF Published
<1>2. \A a \in {"implement", "create-commit", "push-branch"} :
        a \in DOMAIN rows' \/ Deleted'
  BY RowsTyped, Ids
<1>3. \A a \in {"implement", "create-commit", "push-branch"} : rows'[a] # "ABSENT" \/ Deleted'
  BY RowsForGood, Ids DEF Published, Started, Deleted
<1> QED
  BY <1>1, <1>2, <1>3 DEF Published, Started

\* What is reconciled was published, and stays as it was sealed.
LEMMA ReconciledKept ==
  ASSUME TypeOK, HandlerOK, VerifierOK, Checkpointed, AtGitHub, InOrder, Reconciled, [Next]_vars
  PROVE  Reconciled'
<1>1. Concluded' => Deleted' \/ Published'
  <2> SUFFICES ASSUME Concluded', ~Deleted', ~Published' PROVE FALSE
    OBVIOUS
  <2>1. Concluded /\ ~Deleted
    BY Concludes, DeletedForGood
  <2>2. pc \notin Committed
    BY <2>1 DEF Concluded, Reconciled, Committed
  <2>3. recorded' = recorded
    BY <2>2, RecordedKept DEF Deleted
  <2> QED
    BY <2>1, <2>3, PublishedKept DEF Reconciled
<1> QED
  BY <1>1, HandedOverKept, SealKept DEF Reconciled

-----------------------------------------------------------------------------
(* The inductive invariant.                                                *)

\* A run that was received satisfies the invariant.
LEMMA IInvInit == Init => IInv
<1> SUFFICES ASSUME Init PROVE IInv
  OBVIOUS
<1> USE DEF Init
<1>1. TypeOK
  <2>1. rows \in [ActionIds -> RowStates] /\ launched \in [ActionIds -> Nat]
    BY DEF NoRows, RowStates
  <2>2. runState \in RunStates
    BY States
  <2>3. faults \in 0 .. MaxFaults
    BY BoundsAssumption
  <2> QED
    BY <2>1, <2>2, <2>3 DEF TypeOK
<1>2. HandlerOK
  BY DEF HandlerOK, Labels, Launching, Polling, Committed, Executing, Refusals
<1>3. VerifierOK
  BY DEF VerifierOK
<1>4. OneIntent /\ Checkpointed
  BY Ids DEF OneIntent, Running, Checkpointed, NoRows, Deleted
<1>5. Launches
  BY Ids DEF Launches, EffectsNotReplayed
<1>6. AtGitHub /\ InOrder
  BY Ids DEF AtGitHub, InOrder, NoRows, Committed
<1>7. Reconciled
  BY DEF Reconciled, Concluded
<1>8. VerdictsOK
  BY EmptySeq DEF VerdictsOK, Judged
<1> QED
  BY <1>1, <1>2, <1>3, <1>4, <1>5, <1>6, <1>7, <1>8 DEF IInv

\* Every variable keeps its type.
LEMMA TypeKept ==
  ASSUME TypeOK, HandlerOK, VerifierOK, [Next]_vars
  PROVE  TypeOK'
<1>1. objective' \in Objectives
  BY GitHubKept DEF TypeOK
<1>2. /\ rows' \in [ActionIds -> RowStates]
      /\ launched' \in [ActionIds -> Nat]
  BY RowsTyped
<1>3. runState' \in RunStates /\ head' \in Nat
  BY RunTyped
<1>4. replays' \subseteq Nat
  BY ReplaysTyped
<1> QED
  BY <1>1, <1>2, <1>3, <1>4, MemoryTyped, SealTyped, WorldTyped, FaultsTyped DEF TypeOK, NotSealed

\* Every step keeps the invariant.
LEMMA IInvNext == IInv /\ [Next]_vars => IInv'
<1> SUFFICES ASSUME IInv, [Next]_vars PROVE IInv'
  OBVIOUS
<1> USE DEF IInv
<1>1. TypeOK' /\ HandlerOK' /\ VerifierOK'
  BY TypeKept, HandlerKept, VerifierKept
<1>2. OneIntent' /\ Checkpointed' /\ Launches'
  BY OneIntentKept, CheckpointKept, LaunchesKept
<1>3. AtGitHub' /\ InOrder'
  BY AtGitHubKept, InOrderKept
<1>4. Reconciled' /\ VerdictsOK'
  BY ReconciledKept, VerdictsKept
<1> QED
  BY <1>1, <1>2, <1>3, <1>4

\* It is invariant.
LEMMA Invariance == Spec => []IInv
BY IInvInit, IInvNext, PTL DEF Spec

-----------------------------------------------------------------------------
(* The theorems.                                                           *)

\* Every variable keeps its type.
THEOREM TypeCorrect == Spec => []TypeOK
<1>1. IInv => TypeOK
  BY DEF IInv
<1> QED
  BY <1>1, Invariance, PTL

\* No effect is requested twice, through every number of restarts, repeated
\* alarms and lost calls, and whatever the owner does meanwhile.
THEOREM NoReplay == Spec => []EffectsNotReplayed
<1>1. IInv => EffectsNotReplayed
  BY DEF IInv, Launches
<1> QED
  BY <1>1, Invariance, PTL

\* The checkpoint always belongs to the intent that the table holds, and no
\* second intent is ever without an outcome.
THEOREM CheckpointKeepsUp == Spec => []CheckpointMatchesIntent
<1>1. IInv => CheckpointMatchesIntent
  <2> SUFFICES ASSUME IInv PROVE CheckpointMatchesIntent
    OBVIOUS
  <2>1. Cardinality(Running) <= 1
    <3>1. CASE Running = {}
      BY <3>1, FS_EmptySet
    <3>2. ASSUME NEW a \in Running PROVE Cardinality(Running) <= 1
      <4>1. Running = {a}
        BY <3>2 DEF IInv, OneIntent
      <4>2. Cardinality({a}) = 1
        BY FS_Singleton
      <4> QED
        BY <4>1, <4>2
    <3> QED
      BY <3>1, <3>2
  <2> QED
    BY <2>1 DEF IInv, Checkpointed, CheckpointMatchesIntent, Running
<1> QED
  BY <1>1, Invariance, PTL

\* A settled action is never settled again.
THEOREM SettledStays == Spec => SettledForGood
<1>1. IInv /\ [Next]_vars =>
        [\A a \in ActionIds :
           rows[a] \in {"SUCCEEDED", "FAILED", "AMBIGUOUS"} =>
             rows'[a] = rows[a] \/ runState' = "DELETED"]_vars
  BY RowsForGood DEF IInv
<1> QED
  BY <1>1, Invariance, PTL DEF Spec, SettledForGood

\* What is handed to the verifier is what is at GitHub, and what the sealed
\* table says.
THEOREM HandoffSound == Spec => []HandoffIsPublished
<1>1. IInv => HandoffIsPublished
  BY DEF IInv, Reconciled, Concluded, Published, Deleted, HandoffIsPublished
<1> QED
  BY <1>1, Invariance, PTL

\* Nothing is pushed that did not pass the validation of its profile.
THEOREM ValidatedFirst == Spec => []PublishedIsValidated
<1>1. IInv => PublishedIsValidated
  BY DEF IInv, InOrder, Validated, PublishedIsValidated
<1> QED
  BY <1>1, Invariance, PTL

\* Only the acceptance of a response verifies a run or records a verdict.
LEMMA OnlyAccept ==
  ASSUME IInv, [Next]_vars,
         (runState' = "VERIFIED" /\ runState # "VERIFIED") \/ verdicts' # verdicts
  PROVE  \E r \in Requests : Accept(r)
BY Verifications, VerdictsStay DEF IInv

\* A run is verified on the handoff of the moment, by one response.
THEOREM VerifiedOnCurrent == Spec => VerifiedOnCurrentHandoff
<1> DEFINE A == /\ runState' = "VERIFIED" /\ runState # "VERIFIED" =>
                     HandedOver /\ [nonce |-> head, decision |-> "verified"] \in answers
                /\ Len(verdicts') > Len(verdicts) =>
                     \A i \in DOMAIN verdicts :
                       /\ verdicts[i].decision = "uncertain"
                       /\ verdicts[i].nonce # verdicts'[Len(verdicts')].nonce
<1>1. IInv /\ [Next]_vars => A
  <2> SUFFICES ASSUME IInv, [Next]_vars PROVE A
    OBVIOUS
  <2> USE DEF IInv
  <2>1. CASE UNCHANGED verdicts /\ ~(runState' = "VERIFIED" /\ runState # "VERIFIED")
    <3>1. verdicts' = verdicts /\ Len(verdicts) \in Nat
      BY <2>1, LenProperties DEF VerdictsOK
    <3> QED
      BY <2>1, <3>1
  <2>2. ASSUME NEW r \in Requests, Accept(r) PROVE A
    <3>1. CASE UNCHANGED <<runState, verdicts>>
      BY <2>1, <3>1
    <3>2. CASE runState = "AWAITING_VERIFICATION" /\ verdicts' = Append(verdicts, submit[r])
      <4>1. submit[r] \in answers /\ submit[r] \in Answers /\ submit[r].nonce = head /\ head \notin replays
        BY <2>2, <3>2, AcceptSteps
      <4>2. HandedOver
        <5>1. recorded = objective.publication /\ objective \in Objectives
          BY <3>2 DEF Reconciled, Concluded, Published, Deleted, TypeOK
        <5>2. sealed = [rows |-> rows, published |-> recorded]
          BY <3>2 DEF Reconciled
        <5> QED
          BY <3>2, <5>1, <5>2, CommandsOfObjective DEF HandedOver, NotSealed
      <4>3. \A i \in DOMAIN verdicts : verdicts[i].decision = "uncertain" /\ verdicts[i].nonce # head
        BY <3>2, <4>1 DEF VerdictsOK, Judged, TerminalStates
      <4>4. verdicts'[Len(verdicts')] = submit[r]
        BY <3>2, <4>1, AppendProperties, LenProperties DEF VerdictsOK
      <4>5. runState' = "VERIFIED" => submit[r] = [nonce |-> head, decision |-> "verified"]
        BY <2>2, <3>2, <4>1, AcceptSteps DEF Answers
      <4> QED
        BY <4>1, <4>2, <4>3, <4>4, <4>5
    <3> QED
      BY <2>2, <3>1, <3>2, AcceptSteps
  <2> QED
    BY <2>1, <2>2, OnlyAccept
<1> QED
  BY <1>1, Invariance, PTL DEF Spec, VerifiedOnCurrentHandoff
=============================================================================
