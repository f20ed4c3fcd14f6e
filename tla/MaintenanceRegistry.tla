------------------------ MODULE MaintenanceRegistry ------------------------
(***************************************************************************)
(* The registry of one account's maintenance work                          *)
(* (maintenance-registry.ts): the repositories it has selected, the        *)
(* findings made there, the repair a finding is given, the hourly sweep,   *)
(* and the GitHub webhooks that anticipate it.                             *)
(*                                                                         *)
(* The registry is one object; its handlers interleave at every call of    *)
(* GitHub or of a run.  A run (coordinator.ts) is reduced to what the      *)
(* registry asks of it, a repository at GitHub to its labelled issues and  *)
(* to the branch and the pull request of each run.                         *)
(***************************************************************************)
EXTENDS Fence, Sequences, FiniteSets

CONSTANTS
  Repositories,
  Unreachable,   \* repositories whose installation gives no token: suspended, or not allowed enough
  Issues,
  RepositoryOf,  \* the repository of each issue
  Runs,          \* run ids, each drawn at most once
  None,          \* no run, no issue
  Policies,      \* what an owner may select a repository with
  MaxScheduled,  \* MAX_SCHEDULED_REPOSITORIES
  MaxRepairs,    \* MAX_AUTOMATIC_REPAIRS_PER_SWEEP
  MaxFaults      \* bound of the model: calls that fail, objects that restart

AllPolicies ==
  {p \in [pullRequests : BOOLEAN, scheduled : BOOLEAN, auto : BOOLEAN, installed : BOOLEAN] :
     /\ p.auto => p.pullRequests /\ p.scheduled
     /\ p.scheduled => p.installed}
NotSelected == [pullRequests |-> FALSE, scheduled |-> FALSE, auto |-> FALSE, installed |-> FALSE]

ASSUME IssuesAssumption == RepositoryOf \in [Issues -> Repositories]
ASSUME NoneAssumption == None \notin Runs \cup Issues
ASSUME PoliciesAssumption == Policies \subseteq AllPolicies
ASSUME LimitsAssumption == {MaxScheduled, MaxRepairs, MaxFaults} \subseteq Nat

VARIABLES
  lock,           \* account_controls
  policy,         \* selected_repositories
  byUpdate,       \* their order by updated_at, oldest first
  finding,        \* findings
  index,          \* account_runs
  selecting,      \* selectRepository() waiting for the installation
  repair,         \* per run id: the startRepair() that drew it
  retiring,       \* retireVerifiedMergedMaintenanceBranch() of a run
  sweep,          \* scheduledSweep()
  runState,       \* the coordinator's row of a run
  branches,       \* at GitHub: the runs whose branch exists
  pull,           \* at GitHub: the pull request of a run, with its head
  labelled,       \* at GitHub: the open issues that ask for a repair
  faults,
  claims,         \* observation: the runs that claimed a finding's row
  selectedUnder,  \* observation: the generation a selection was admitted under
  purged          \* observation: the generation of the last purge

fence == <<lock, purged>>
selection == <<policy, byUpdate, selectedUnder>>
ledger == <<finding, claims>>
tables == <<fence, selection, ledger, index>>
handlers == <<selecting, repair, retiring, sweep>>
github == <<branches, pull, labelled>>
world == <<runState, github>>
vars == <<tables, handlers, world, faults>>

Selected(p) == \E n \in DOMAIN byUpdate : byUpdate[n] = p
IssuesOf(p) == {i \in Issues : RepositoryOf[i] = p}

\* A repair publishes a pull request with a token of the app's installation.
CanPublish(p) ==
  Selected(p) /\ policy[p].pullRequests /\ policy[p].installed /\ p \notin Unreachable

Fault == faults < MaxFaults /\ faults' = faults + 1

-----------------------------------------------------------------------------
(* Selecting and removing a repository. *)

NotSelecting == [busy |-> FALSE, policy |-> NotSelected, generation |-> 0]

BeginSelect(p, q) ==
  /\ ~selecting[p].busy /\ Writable(lock)
  /\ selecting' = [selecting EXCEPT ![p] =
                     [busy |-> TRUE, policy |-> q, generation |-> lock.generation]]
  /\ UNCHANGED <<tables, repair, retiring, sweep, world, faults>>

\* The rows but that of p.
Without(p) ==
  IF ~Selected(p) THEN byUpdate
  ELSE LET n == CHOOSE n \in DOMAIN byUpdate : byUpdate[n] = p
       IN [m \in 1 .. Len(byUpdate) - 1 |-> byUpdate[IF m < n THEN m ELSE m + 1]]

\* The upsert, which makes the row the last one updated; or the fence refuses
\* it, or there is no installation.
EndSelect(p) ==
  /\ selecting[p].busy
  /\ selecting' = [selecting EXCEPT ![p] = NotSelecting]
  /\ \/ /\ Admits(lock, selecting[p].generation)
        /\ policy' = [policy EXCEPT ![p] = selecting[p].policy]
        /\ byUpdate' = Append(Without(p), p)
        /\ selectedUnder' = [selectedUnder EXCEPT ![p] = selecting[p].generation]
     \/ UNCHANGED selection
  /\ UNCHANGED <<fence, ledger, index, repair, retiring, sweep, world, faults>>

NoFinding == [state |-> "NONE", run |-> None]

\* ON DELETE CASCADE.
DropFindings(deleted) ==
  /\ finding' = [i \in Issues |-> IF i \in deleted THEN NoFinding ELSE finding[i]]
  /\ claims' = [i \in Issues |-> IF i \in deleted THEN {} ELSE claims[i]]

RemoveRepository(p) ==
  /\ Selected(p)
  /\ byUpdate' = Without(p)
  /\ policy' = [policy EXCEPT ![p] = NotSelected]
  /\ DropFindings(IssuesOf(p))
  /\ UNCHANGED <<fence, index, selectedUnder, handlers, world, faults>>

-----------------------------------------------------------------------------
(* Findings. *)

\* upsertCandidates(): a finding that is known keeps its state.
Upserted(candidates) ==
  [i \in Issues |->
     IF i \in candidates /\ finding[i].state = "NONE"
     THEN [state |-> "OPEN", run |-> None] ELSE finding[i]]

\* discover(): the fence is asked before and after GitHub's answer, and the
\* findings' rows need the row of their repository; both are as of the end
\* here, and so is the answer.
CanDiscover(p) == Writable(lock) /\ Selected(p) /\ p \notin Unreachable
Discovered(p) == Upserted(IssuesOf(p) \cap labelled)

Discover(p) ==
  /\ CanDiscover(p) /\ finding' = Discovered(p)
  /\ UNCHANGED <<fence, selection, claims, index, handlers, world, faults>>

\* listRuns(), which takes up the runs that findings name.
ListRuns ==
  /\ index' = (index \cup {finding[i].run : i \in Issues}) \ {None}
  /\ UNCHANGED <<fence, selection, ledger, handlers, world, faults>>

-----------------------------------------------------------------------------
(* scheduledSweep(), as a value: what it does next.                          *)

SweepSteps == {"idle", "discover", "repair", "repairing", "retire", "retiring"}
NotSweeping ==
  [step |-> "idle", left |-> <<>>, candidate |-> None, repairs |-> 0, run |-> None, toRetire |-> {}]

Here == Head(sweep.left).repository

\* Mutant: a repository that throws ends the sweep.
MutantNextRepository(s) == NotSweeping

\* Mutant: the last repository is not seen to be the last.
MutantPastTheLast(s) ==
  [NotSweeping EXCEPT !.step = "discover", !.left = Tail(s.left), !.repairs = s.repairs]

\* A repository that throws is noted as blocked, and the next one has its turn.
NextRepository(s) ==
  IF Len(s.left) = 1 THEN NotSweeping
  ELSE [NotSweeping EXCEPT !.step = "discover", !.left = Tail(s.left), !.repairs = s.repairs]

QueuedIn(r, p) == \E i \in IssuesOf(p) : finding[i] = [state |-> "REPAIR_QUEUED", run |-> r]

\* retireVerifiedMergedMaintenanceBranches(): the runs that findings name now.
EntersRetire(s) ==
  LET p == Head(s.left).repository
  IN [s EXCEPT !.step = "retire", !.run = None, !.candidate = None,
               !.toRetire = {r \in Runs : QueuedIn(r, p) /\ CanPublish(p)}]

\* startRepair() returns to the sweep, if it was the sweep that called it.
IsSweeps(r) == sweep.step = "repairing" /\ sweep.run = r
Queued(s) == EntersRetire([s EXCEPT !.repairs = @ + 1])
RepairReturns(r) == sweep' = IF IsSweeps(r) THEN Queued(sweep) ELSE sweep
RepairThrows(r) == sweep' = IF IsSweeps(r) THEN NextRepository(sweep) ELSE sweep

-----------------------------------------------------------------------------
(* startRepair(). *)

RepairSteps == {"unused", "waiting", "claimed", "recorded", "ended"}
NoRepair == [step |-> "unused", issue |-> None, generation |-> 0]

Step(r, from, to) ==
  /\ repair[r].step = from
  /\ repair' = [repair EXCEPT ![r].step = to]

Unused == {r \in Runs : repair[r].step = "unused"}

\* The fence, the finding and the selection are in order; the token and the
\* head of the default branch are asked for.
Repairable(f, i) == Writable(lock) /\ f[i].state = "OPEN" /\ CanPublish(RepositoryOf[i])
Asks(r, i) ==
  repair' = [repair EXCEPT ![r] =
               [step |-> "waiting", issue |-> i, generation |-> lock.generation]]

AskRepair(r, i) ==
  /\ r \in Unused /\ Repairable(finding, i) /\ Asks(r, i)
  /\ UNCHANGED <<tables, selecting, retiring, sweep, world, faults>>

\* Mutant: the row is claimed whatever its state.
MutantClaimable(i) == finding[i].state # "NONE"

\* WHERE state = 'OPEN'.
Claimable(i) == finding[i].state = "OPEN"

\* The claim; or the fence refuses it, or the finding is gone or another
\* repair's, whose run is the answer then.
Claim(r) ==
  LET i == repair[r].issue
  IN /\ repair[r].step = "waiting"
     /\ IF Admits(lock, repair[r].generation) /\ Claimable(i)
        THEN /\ Step(r, "waiting", "claimed")
             /\ finding' = [finding EXCEPT ![i] = [state |-> "REPAIR_QUEUED", run |-> r]]
             /\ claims' = [claims EXCEPT ![i] = @ \cup {r}]
             /\ UNCHANGED sweep
        ELSE /\ repair' = [repair EXCEPT ![r] = NoRepair]
             /\ IF Admits(lock, repair[r].generation) /\ finding[i].state = "REPAIR_QUEUED"
                THEN RepairReturns(r) ELSE RepairThrows(r)
             /\ UNCHANGED ledger
     /\ UNCHANGED <<fence, selection, index, selecting, retiring, world, faults>>

\* recordRun() asks the fence again, outside the try: the finding keeps the run.
RecordRun(r) ==
  /\ IF Admits(lock, repair[r].generation)
     THEN Step(r, "claimed", "recorded") /\ index' = index \cup {r} /\ UNCHANGED sweep
     ELSE Step(r, "claimed", "ended") /\ RepairThrows(r) /\ UNCHANGED index
  /\ UNCHANGED <<fence, selection, ledger, selecting, retiring, world, faults>>

SetRun(r, state) == runState' = [runState EXCEPT ![r] = state]

\* create(), the fence, start(): the steps are those of a creation in
\* AccountDeletion, which interleaves them with a deletion.
Launch(r) ==
  /\ Admits(lock, repair[r].generation)
  /\ Step(r, "recorded", "ended") /\ SetRun(r, "QUEUED") /\ RepairReturns(r)
  /\ UNCHANGED <<tables, selecting, retiring, github, faults>>

DropRun(r) ==
  /\ Step(r, "recorded", "ended") /\ index' = index \ {r} /\ RepairThrows(r)
  /\ UNCHANGED <<fence, selection, ledger, selecting, retiring, github>>

\* The catch block; the finding keeps the run.
LaunchRefused(r) ==
  /\ ~Admits(lock, repair[r].generation)
  /\ DropRun(r) /\ UNCHANGED <<runState, faults>>

\* A call throws: the run is not made, not started, or started all the same,
\* since purge() refuses a run that is not deletable.
LaunchFails(r) ==
  /\ Fault /\ DropRun(r)
  /\ \E state \in {"MISSING", "RECEIVED", "QUEUED"} : SetRun(r, state)

AskFails(r) ==
  /\ Fault /\ repair[r].step = "waiting"
  /\ repair' = [repair EXCEPT ![r] = NoRepair] /\ RepairThrows(r)
  /\ UNCHANGED <<tables, selecting, retiring, world>>

RepairStep(r) == Claim(r) \/ RecordRun(r) \/ Launch(r) \/ LaunchRefused(r)
RepairNext(r) ==
  (\E i \in Issues : AskRepair(r, i)) \/ RepairStep(r) \/ LaunchFails(r) \/ AskFails(r)

-----------------------------------------------------------------------------
(* Retiring the branch of a verified and merged repair. *)

\* Mutant: the head that was merged is not compared with the run's.
MutantRetirementEligible(r) ==
  runState[r] = "VERIFIED" /\ pull[r] \in {"merged", "mergedMoved"}

\* GitHub names the head that was merged, the run the head it published.
RetirementEligible(r) == runState[r] = "VERIFIED" /\ pull[r] = "merged"

SetRetiring(r, step) == retiring' = [retiring EXCEPT ![r] = step]

\* The checks, up to the token.
Retires(r) ==
  /\ retiring[r] = "no" /\ RetirementEligible(r)
  /\ \E p \in Repositories : QueuedIn(r, p) /\ CanPublish(p)

\* It returns to the sweep, if it was the sweep that called it.
RetirementReturns(r) ==
  sweep' = IF sweep.step = "retiring" /\ sweep.run = r
           THEN [sweep EXCEPT !.step = "retire", !.run = None] ELSE sweep

\* Mutant: a branch that is gone already is an error.
MutantDeleteBranch(r) ==
  /\ retiring[r] = "checked" /\ r \in branches /\ SetRetiring(r, "deleted")
  /\ branches' = branches \ {r}
  /\ UNCHANGED <<tables, selecting, repair, sweep, runState, pull, labelled, faults>>

\* deleteBranchRef(): a branch that is gone already is no error.
DeleteBranch(r) ==
  /\ retiring[r] = "checked" /\ SetRetiring(r, "deleted")
  /\ branches' = branches \ {r}
  /\ UNCHANGED <<tables, selecting, repair, sweep, runState, pull, labelled, faults>>

RetirementFails(r) ==
  /\ Fault /\ retiring[r] = "checked"
  /\ SetRetiring(r, "no") /\ RetirementReturns(r)
  /\ branches' \in {branches, branches \ {r}}
  /\ UNCHANGED <<tables, selecting, repair, runState, pull, labelled>>

\* WHERE run_id = ? AND state = 'REPAIR_QUEUED'.
Closed(r) ==
  [i \in Issues |->
     IF finding[i] = [state |-> "REPAIR_QUEUED", run |-> r]
     THEN [finding[i] EXCEPT !.state = "CLOSED"] ELSE finding[i]]

CloseFinding(r) ==
  /\ retiring[r] = "deleted"
  /\ SetRetiring(r, "no") /\ RetirementReturns(r)
  /\ finding' = Closed(r)
  /\ UNCHANGED <<fence, selection, claims, index, selecting, repair, world, faults>>

RetireStep(r) == DeleteBranch(r) \/ CloseFinding(r)

-----------------------------------------------------------------------------
(* The steps of scheduledSweep(). *)

\* Where in byUpdate the rows of the sweep's SELECT are, in their order: those that
\* are scheduled, as many as the limit lets through, without gaps.
Scheduled ==
  LET scheduled == {n \in DOMAIN byUpdate : policy[byUpdate[n]].scheduled}
      many == IF Cardinality(scheduled) < MaxScheduled THEN Cardinality(scheduled) ELSE MaxScheduled
  IN { at \in [1 .. many -> scheduled] :
         /\ \A m, n \in 1 .. many : m < n => at[m] < at[n]
         /\ \A m \in 1 .. many, n \in scheduled : n < at[m] => \E k \in 1 .. many : at[k] = n }

\* The rows are read at the start, the automatic repair with them.
BeginSweep ==
  /\ sweep.step = "idle"
  /\ \E at \in Scheduled :
       /\ at # <<>>
       /\ sweep' = [NotSweeping EXCEPT
                      !.step = "discover",
                      !.left = [n \in DOMAIN at |->
                         [repository |-> byUpdate[at[n]], auto |-> policy[byUpdate[at[n]]].auto]]]
  /\ UNCHANGED <<tables, selecting, repair, retiring, world, faults>>

MayRepair == Head(sweep.left).auto /\ sweep.repairs < MaxRepairs

\* The first open finding is the candidate for a repair: any, here.
SweepDiscover ==
  /\ sweep.step = "discover"
  /\ IF CanDiscover(Here) /\ policy[Here].installed
     THEN LET open == {i \in IssuesOf(Here) : Discovered(Here)[i].state = "OPEN"}
          IN /\ finding' = Discovered(Here)
             /\ \E i \in IF MayRepair /\ open # {} THEN open ELSE {None} :
                  sweep' = [sweep EXCEPT !.step = "repair", !.candidate = i]
     ELSE sweep' = NextRepository(sweep) /\ UNCHANGED finding
  /\ UNCHANGED <<fence, selection, claims, index, selecting, repair, retiring, world, faults>>

SweepBlocked ==
  /\ Fault /\ sweep.step \in {"discover", "retire"} /\ sweep' = NextRepository(sweep)
  /\ UNCHANGED <<tables, selecting, repair, retiring, world>>

\* With no run id left, the model's sweep repairs nothing.
SweepRepair ==
  LET i == sweep.candidate
  IN /\ sweep.step = "repair"
     /\ \/ /\ i = None \/ Unused = {}
           /\ sweep' = EntersRetire(sweep) /\ UNCHANGED repair
        \/ /\ i \in Issues
           /\ finding[i].state = "REPAIR_QUEUED" /\ Writable(lock)
           /\ sweep' = Queued(sweep) /\ UNCHANGED repair
        \/ /\ i \in Issues
           /\ finding[i].state # "REPAIR_QUEUED" \/ ~Writable(lock)
           /\ ~Repairable(finding, i)
           /\ sweep' = NextRepository(sweep) /\ UNCHANGED repair
        \/ /\ i \in Issues /\ Repairable(finding, i)
           /\ \E r \in Unused :
                Asks(r, i) /\ sweep' = [sweep EXCEPT !.step = "repairing", !.run = r]
     /\ UNCHANGED <<tables, selecting, retiring, world, faults>>

SweepRetire ==
  /\ sweep.step = "retire"
  /\ \/ /\ sweep.toRetire = {}
        /\ sweep' = NextRepository(sweep) /\ UNCHANGED retiring
     \/ \E r \in sweep.toRetire :
          IF Retires(r)
          THEN /\ SetRetiring(r, "checked")
               /\ sweep' = [sweep EXCEPT !.step = "retiring", !.run = r, !.toRetire = @ \ {r}]
          ELSE sweep' = [sweep EXCEPT !.toRetire = @ \ {r}] /\ UNCHANGED retiring
  /\ UNCHANGED <<tables, selecting, repair, world, faults>>

SweepStep == BeginSweep \/ SweepDiscover \/ SweepRepair \/ SweepRetire

-----------------------------------------------------------------------------
(* ingestWebhook().  A delivery is recorded before it is handled, so that it   *)
(* is handled once or, when the object stops, never.  GitHub sends another for *)
(* each further event on the same issue or commit: any number, here.           *)

\* webhookAutoRepairEligible(), and startRepair() at once.
IngestIssue(i) ==
  LET p == RepositoryOf[i]
      upserted == Upserted({i})
  IN /\ i \in labelled /\ Selected(p)
     /\ finding' = upserted
     /\ IF policy[p].auto /\ Repairable(upserted, i) /\ Unused # {}
        THEN \E r \in Unused : Asks(r, i)
        ELSE UNCHANGED repair
     /\ UNCHANGED <<fence, selection, claims, index, selecting, retiring, sweep, world, faults>>

IngestMerged(r) ==
  /\ Retires(r) /\ SetRetiring(r, "checked")
  /\ UNCHANGED <<tables, selecting, repair, sweep, world, faults>>

\* workflowVerificationRetryEligible(): the run awaits a decision on the head
\* that the workflow ran on, and is asked to obtain it.
IngestWorkflow(r) ==
  /\ runState[r] = "AWAITING"
  /\ \E p \in Repositories : Selected(p) /\ QueuedIn(r, p)
  /\ \E state \in {"VERIFIED", "STOPPED"} : SetRun(r, state)
  /\ UNCHANGED <<tables, handlers, github, faults>>

-----------------------------------------------------------------------------
(* The deletion of the account, and restarts of the object. *)

RaiseFence ==
  /\ lock.deleting \/ lock.generation < MaxGenerations
  /\ lock' = BeginDeletion(lock)
  /\ UNCHANGED <<purged, selection, ledger, index, handlers, world, faults>>

LowerFence ==
  /\ lock' = EndDeletion(lock)
  /\ UNCHANGED <<purged, selection, ledger, index, handlers, world, faults>>

\* The runs are purged one by one before: AccountDeletion.
PurgeAccount ==
  /\ lock.deleting
  /\ lock' = EndDeletion(lock) /\ purged' = lock.generation
  /\ policy' = [p \in Repositories |-> NotSelected] /\ byUpdate' = <<>>
  /\ index' = {} /\ DropFindings(Issues)
  /\ UNCHANGED <<selectedUnder, handlers, world, faults>>

\* Every handler is gone, wherever it waited.
Restart ==
  /\ Fault
  /\ selecting' = [p \in Repositories |-> NotSelecting]
  /\ repair' = [r \in Runs |->
       CASE repair[r].step = "waiting" -> NoRepair
         [] repair[r].step = "unused" -> repair[r]
         [] OTHER -> [repair[r] EXCEPT !.step = "ended"]]
  /\ retiring' = [r \in Runs |-> "no"]
  /\ sweep' = NotSweeping
  /\ UNCHANGED <<tables, world>>

-----------------------------------------------------------------------------
(* The runs (HostedRun) and GitHub. *)

OnlyWorld == UNCHANGED <<tables, handlers, faults>>

Publish(r) ==
  /\ runState[r] = "QUEUED" /\ SetRun(r, "AWAITING")
  /\ branches' = branches \cup {r} /\ pull' = [pull EXCEPT ![r] = "open"]
  /\ UNCHANGED labelled /\ OnlyWorld

Decide(r) ==
  /\ runState[r] = "AWAITING" /\ \E state \in {"VERIFIED", "STOPPED"} : SetRun(r, state)
  /\ UNCHANGED github /\ OnlyWorld

Stop(r) ==
  /\ runState[r] \in {"RECEIVED", "QUEUED"} /\ SetRun(r, "STOPPED")
  /\ UNCHANGED github /\ OnlyWorld

\* At the head that the run published, unless somebody pushed to the branch before.
Merge(r) ==
  /\ pull[r] = "open"
  /\ \E state \in {"merged", "mergedMoved"} : pull' = [pull EXCEPT ![r] = state]
  /\ UNCHANGED <<runState, branches, labelled>> /\ OnlyWorld

Label(i) ==
  /\ i \notin labelled /\ labelled' = labelled \cup {i}
  /\ UNCHANGED <<runState, branches, pull>> /\ OnlyWorld

\* The label is taken off, or the issue closed.
Unlabel(i) ==
  /\ i \in labelled /\ labelled' = labelled \ {i}
  /\ UNCHANGED <<runState, branches, pull>> /\ OnlyWorld

-----------------------------------------------------------------------------

Init ==
  /\ lock = NoLock /\ purged = 0
  /\ policy = [p \in Repositories |-> NotSelected] /\ byUpdate = <<>>
  /\ selectedUnder = [p \in Repositories |-> 0]
  /\ finding = [i \in Issues |-> NoFinding] /\ claims = [i \in Issues |-> {}]
  /\ index = {}
  /\ selecting = [p \in Repositories |-> NotSelecting]
  /\ repair = [r \in Runs |-> NoRepair] /\ retiring = [r \in Runs |-> "no"]
  /\ sweep = NotSweeping
  /\ runState = [r \in Runs |-> "MISSING"]
  /\ branches = {} /\ pull = [r \in Runs |-> "none"]
  /\ labelled = {} /\ faults = 0

Next ==
  \/ \E p \in Repositories :
       \/ \E q \in Policies : BeginSelect(p, q)
       \/ EndSelect(p) \/ RemoveRepository(p) \/ Discover(p)
  \/ ListRuns
  \/ \E r \in Runs : RepairNext(r) \/ RetireStep(r) \/ RetirementFails(r)
  \/ SweepStep \/ SweepBlocked
  \/ \E i \in Issues : IngestIssue(i)
  \/ \E r \in Runs : IngestMerged(r) \/ IngestWorkflow(r)
  \/ RaiseFence \/ LowerFence \/ PurgeAccount \/ Restart
  \/ \E r \in Runs : Publish(r) \/ Decide(r) \/ Stop(r) \/ Merge(r)
  \/ \E i \in Issues : Label(i) \/ Unlabel(i)

Spec == Init /\ [][Next]_vars

\* The cron trigger fires for ever, the sweep goes on, and what it waits for
\* returns.  No webhook need ever arrive.
FairSpec ==
  /\ Spec
  /\ WF_vars(SweepStep)
  /\ \A r \in Runs : WF_vars(RepairStep(r)) /\ WF_vars(RetireStep(r))

-----------------------------------------------------------------------------
(* Properties. *)

TypeOK ==
  /\ lock \in Locks /\ purged \in 0 .. MaxGenerations
  /\ policy \in [Repositories -> AllPolicies] /\ byUpdate \in Seq(Repositories)
  /\ selectedUnder \in [Repositories -> 0 .. MaxGenerations]
  /\ finding \in [Issues -> [state : {"NONE", "OPEN", "REPAIR_QUEUED", "CLOSED"},
                             run : Runs \cup {None}]]
  /\ claims \in [Issues -> SUBSET Runs] /\ index \subseteq Runs
  /\ selecting \in [Repositories -> [busy : BOOLEAN, policy : AllPolicies,
                                     generation : 0 .. MaxGenerations]]
  /\ repair \in [Runs -> [step : RepairSteps, issue : Issues \cup {None},
                          generation : 0 .. MaxGenerations]]
  /\ retiring \in [Runs -> {"no", "checked", "deleted"}]
  /\ sweep \in [step : SweepSteps, left : Seq([repository : Repositories, auto : BOOLEAN]),
                candidate : Issues \cup {None}, repairs : 0 .. MaxRepairs,
                run : Runs \cup {None}, toRetire : SUBSET Runs]
  /\ (sweep.step = "idle") = (sweep.left = <<>>)
  /\ runState \in [Runs -> {"MISSING", "RECEIVED", "QUEUED", "AWAITING", "VERIFIED", "STOPPED"}]
  /\ branches \subseteq Runs
  /\ pull \in [Runs -> {"none", "open", "merged", "mergedMoved"}]
  /\ labelled \subseteq Issues /\ faults \in 0 .. MaxFaults

\* However the owner's request, the sweep and webhooks race for a finding,
\* while it is in the ledger one run claims it, and no other run is recorded
\* and launched for it (startRepair: the claim is a compare-and-set, and the
\* caller goes on only with its own run id).
OneRunPerFinding ==
  \A i \in Issues :
    /\ Cardinality(claims[i]) <= 1
    /\ finding[i].state # "NONE" => claims[i] = {finding[i].run} \ {None}

\* Once an account is purged, no selection, finding or run that was admitted
\* before comes back into its tables, whatever GitHub answers how late.
StaleWritesFenced ==
  /\ \A p \in Repositories : Selected(p) => selectedUnder[p] >= purged
  /\ \A i \in Issues : finding[i].run # None => repair[finding[i].run].generation >= purged
  /\ \A r \in index : repair[r].generation >= purged

\* A branch disappears only with its run verified and its pull request merged
\* at the head that the run published; so does its finding's last mention of
\* an open repair, and not before the branch.
RetiresOnlyVerifiedMerged ==
  [][/\ \A r \in branches \ branches' : runState[r] = "VERIFIED" /\ pull[r] = "merged"
     /\ \A i \in Issues : finding[i].state # "CLOSED" /\ finding'[i].state = "CLOSED" =>
          /\ finding[i].run \notin branches
          /\ runState[finding[i].run] = "VERIFIED" /\ pull[finding[i].run] = "merged"]_vars

\* An issue that stays labelled in a scheduled repository becomes a finding,
\* though its webhook is lost and another repository of the account is not
\* reachable any more.
LabelledIssueFound ==
  \A i \in Issues :
    LET p == RepositoryOf[i]
        waits == i \in labelled /\ Selected(p) /\ policy[p].scheduled /\ p \notin Unreachable
    IN waits ~> finding[i].state # "NONE" \/ ~waits

\* The branch of a verified repair that was merged at its head is retired and
\* its finding closed, though webhooks are lost and a retirement fails or stops
\* half way, as long as the repository stays selected for it.
MergedBranchRetired ==
  \A r \in Runs, p \in Repositories \ Unreachable :
    (QueuedIn(r, p) /\ RetirementEligible(r) /\ CanPublish(p) /\ policy[p].scheduled)
      ~> (r \notin branches /\ ~QueuedIn(r, p)) \/ ~CanPublish(p) \/ ~policy[p].scheduled

=============================================================================
