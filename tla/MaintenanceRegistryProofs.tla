--------------------- MODULE MaintenanceRegistryProofs ---------------------
(* Theorems about MaintenanceRegistry, for any repositories, issues, runs and *)
(* policies, and any number of faults and deletions.                          *)
EXTENDS MaintenanceRegistry, FiniteSetTheorems, SequenceTheorems, TLAPS

-----------------------------------------------------------------------------
(* Types of the tables, the repairs and the runs; what is left is at the end. *)

FindingStates == {"NONE", "OPEN", "REPAIR_QUEUED", "CLOSED"}
Findings == [state : FindingStates, run : Runs \cup {None}]
Repairs == [step : RepairSteps, issue : Issues \cup {None}, generation : Nat]
RunStates == {"MISSING", "RECEIVED", "QUEUED", "AWAITING", "VERIFIED", "STOPPED"}

TableTypes ==
  /\ lock \in Locks /\ purged \in Nat
  /\ byUpdate \in Seq(Repositories) /\ selectedUnder \in [Repositories -> Nat]
  /\ selecting \in [Repositories -> [busy : BOOLEAN, policy : AllPolicies, generation : Nat]]
  /\ finding \in [Issues -> Findings] /\ claims \in [Issues -> SUBSET Runs]
  /\ index \subseteq Runs

RunTypes ==
  /\ repair \in [Runs -> Repairs]
  /\ \A r \in Runs : repair[r].step = "waiting" => repair[r].issue \in Issues
  /\ retiring \in [Runs -> {"no", "checked", "deleted"}]
  /\ runState \in [Runs -> RunStates]
  /\ branches \subseteq Runs /\ pull \in [Runs -> {"none", "open", "merged", "mergedMoved"}]

Types == TableTypes /\ RunTypes

-----------------------------------------------------------------------------
(* What the tables are given. *)

\* The rows but one are rows.
LEMMA WithoutType ==
  ASSUME byUpdate \in Seq(Repositories), NEW p \in Repositories
  PROVE  /\ Without(p) \in Seq(Repositories)
         /\ \A m \in DOMAIN Without(p) : \E n \in DOMAIN byUpdate : byUpdate[n] = Without(p)[m]
<1>1. CASE ~Selected(p)
  BY <1>1 DEF Without
<1>2. CASE Selected(p)
  <2> DEFINE n == CHOOSE n \in DOMAIN byUpdate : byUpdate[n] = p
             source(m) == IF m < n THEN m ELSE m + 1
  <2>1. n \in 1 .. Len(byUpdate)
    BY <1>2 DEF Selected
  <2>2. Without(p) = [m \in 1 .. Len(byUpdate) - 1 |-> byUpdate[source(m)]]
    BY <1>2 DEF Without
  <2> HIDE DEF n
  <2>3. \A m \in 1 .. Len(byUpdate) - 1 : source(m) \in DOMAIN byUpdate
    BY <2>1
  <2> HIDE DEF source
  <2>4. \A m \in 1 .. Len(byUpdate) - 1 : Without(p)[m] = byUpdate[source(m)]
    BY <2>2
  <2>5. Without(p) \in Seq(Repositories)
    BY <2>1, <2>2, <2>3
  <2>6. DOMAIN Without(p) = 1 .. Len(byUpdate) - 1
    BY <2>2
  <2> QED
    BY <2>3, <2>4, <2>5, <2>6
<1> QED
  BY <1>1, <1>2

\* Findings that are taken up are findings.
LEMMA UpsertedType ==
  ASSUME finding \in [Issues -> Findings], NEW S
  PROVE  /\ Upserted(S) \in [Issues -> Findings]
         /\ \A i \in Issues :
              \/ Upserted(S)[i] = finding[i]
              \/ /\ finding[i].state = "NONE"
                 /\ Upserted(S)[i].state = "OPEN" /\ Upserted(S)[i].run = None
BY DEF Upserted, Findings, FindingStates

-----------------------------------------------------------------------------
(* The steps, by what they do to the tables, to the repairs and to the runs.   *)

others == <<lock, purged, byUpdate, selectedUnder, selecting>>
repairs == <<repair, index>>
outside == <<runState, branches, pull>>
core == <<others, ledger, repairs, retiring, outside>>

\* A repair is begun for an issue, possibly one that is found by that.
Begun ==
  /\ \E S \in SUBSET Issues : finding' = Upserted(S)
  /\ \/ UNCHANGED repair
     \/ \E r \in Runs, i \in Issues : repair[r].step = "unused" /\ Asks(r, i)
  /\ UNCHANGED <<others, claims, index, retiring, outside>>

\* A repair that claims its finding.
Claimed(r) ==
  LET i == repair[r].issue
  IN /\ Admits(lock, repair[r].generation) /\ Claimable(i)
     /\ Step(r, "waiting", "claimed")
     /\ finding' = [finding EXCEPT ![i] = [state |-> "REPAIR_QUEUED", run |-> r]]
     /\ claims' = [claims EXCEPT ![i] = @ \cup {r}]
     /\ UNCHANGED <<others, index, retiring, outside>>

\* One that gives up before.
GaveUp(r) ==
  /\ repair[r].step = "waiting" /\ repair' = [repair EXCEPT ![r] = NoRepair]
  /\ UNCHANGED <<others, ledger, index, retiring, outside>>

\* One that goes on after.
WentOn(r) ==
  \/ /\ Admits(lock, repair[r].generation)
     /\ Step(r, "claimed", "recorded") /\ index' = index \cup {r} /\ UNCHANGED outside
  \/ Step(r, "claimed", "ended") /\ UNCHANGED <<index, outside>>
  \/ /\ Step(r, "recorded", "ended")
     /\ \E state \in RunStates \ {"VERIFIED", "AWAITING"} : SetRun(r, state)
     /\ index' \in {index, index \ {r}} /\ UNCHANGED <<branches, pull>>
  \/ /\ Step(r, "recorded", "ended") /\ index' = index \ {r} /\ UNCHANGED outside

\* The branch of a run is retired.
RetiringStep(r) ==
  \/ /\ retiring[r] = "no" /\ RetirementEligible(r) /\ SetRetiring(r, "checked")
     /\ UNCHANGED <<ledger, branches>>
  \/ DeleteBranch(r) /\ UNCHANGED ledger
  \/ /\ retiring[r] = "checked" /\ SetRetiring(r, "no")
     /\ branches' \in {branches, branches \ {r}} /\ UNCHANGED ledger
  \/ /\ retiring[r] = "deleted" /\ SetRetiring(r, "no")
     /\ finding' = Closed(r) /\ UNCHANGED <<claims, branches>>

\* A run goes on.
RunGoesOn(r) ==
  /\ UNCHANGED <<others, ledger, repairs, retiring>>
  /\ \/ Publish(r) \/ Stop(r) \/ Merge(r)
     \/ /\ runState[r] = "AWAITING" /\ \E state \in {"VERIFIED", "STOPPED"} : SetRun(r, state)
        /\ UNCHANGED <<branches, pull>>

CoreStep ==
  \/ UNCHANGED core
  \/ \E p \in Repositories :
       \/ \E q \in Policies : BeginSelect(p, q)
       \/ EndSelect(p) \/ RemoveRepository(p)
  \/ Begun \/ ListRuns
  \/ \E r \in Runs :
       \/ Claimed(r) \/ GaveUp(r) \/ RunGoesOn(r)
       \/ WentOn(r) /\ UNCHANGED <<others, ledger, retiring>>
       \/ RetiringStep(r) /\ UNCHANGED <<others, repairs, runState, pull>>
  \/ RaiseFence \/ LowerFence \/ PurgeAccount \/ Restart

\* Findings that are not taken up are as they were.
LEMMA NothingUpserted ==
  ASSUME finding \in [Issues -> Findings]
  PROVE  Upserted({}) = finding
BY DEF Upserted

\* The steps of a repair.
LEMMA RepairIsCore ==
  ASSUME Types, NEW r \in Runs, RepairNext(r)
  PROVE  CoreStep
<1>1. ASSUME NEW i \in Issues, AskRepair(r, i) PROVE Begun
  <2>1. finding' = Upserted({})
    BY <1>1, NothingUpserted DEF AskRepair, tables, ledger, Types, TableTypes
  <2> QED
    BY <1>1, <2>1 DEF AskRepair, Begun, Unused, tables, fence, selection, ledger, world, github,
                      others, outside
<1>2. CASE Claim(r)
  <2>1. UNCHANGED <<others, index, retiring, outside>>
    BY <1>2 DEF Claim, fence, selection, world, github, others, outside
  <2>2. Claimed(r) \/ GaveUp(r)
    BY <1>2, <2>1 DEF Claim, Claimed, GaveUp, ledger
  <2> QED
    BY <2>2 DEF CoreStep
<1>3. CASE RecordRun(r) \/ Launch(r) \/ LaunchRefused(r) \/ LaunchFails(r)
  <2>1. UNCHANGED <<others, ledger, retiring>>
    BY <1>3 DEF RecordRun, Launch, LaunchRefused, LaunchFails, DropRun, tables, fence, selection,
                ledger, others
  <2>2. ASSUME RecordRun(r) PROVE WentOn(r)
    BY <2>2 DEF RecordRun, WentOn, world, github, outside
  <2>3. ASSUME Launch(r) PROVE WentOn(r)
    BY <2>3 DEF Launch, Step, SetRun, WentOn, tables, github, RunStates
  <2>4. ASSUME LaunchRefused(r) PROVE WentOn(r)
    BY <2>4 DEF LaunchRefused, DropRun, Step, WentOn, github, outside
  <2>5. ASSUME LaunchFails(r) PROVE WentOn(r)
    BY <2>5 DEF LaunchFails, DropRun, Step, SetRun, WentOn, github, RunStates
  <2> QED
    BY <1>3, <2>1, <2>2, <2>3, <2>4, <2>5 DEF CoreStep
<1>4. CASE AskFails(r)
  <2>1. GaveUp(r)
    BY <1>4 DEF AskFails, GaveUp, tables, fence, selection, world, github, others, outside
  <2> QED
    BY <2>1 DEF CoreStep
<1> QED
  BY <1>1, <1>2, <1>3, <1>4 DEF RepairNext, RepairStep, CoreStep

\* A webhook that asks for a repair begins it.
LEMMA BeginsIsCore ==
  ASSUME Types, NEW i \in Issues, IngestIssue(i)
  PROVE  CoreStep
<1>1. finding' = Upserted({i}) /\ {i} \in SUBSET Issues
  BY DEF IngestIssue
<1>2. \/ UNCHANGED repair
      \/ \E r \in Runs, j \in Issues : repair[r].step = "unused" /\ Asks(r, j)
  BY DEF IngestIssue, Unused
<1>3. UNCHANGED <<others, claims, index, retiring, outside>>
  BY DEF IngestIssue, fence, selection, world, github, others, outside
<1> QED
  BY <1>1, <1>2, <1>3 DEF CoreStep, Begun

\* So does the sweep.
LEMMA RepairSweepIsCore == ASSUME Types, SweepRepair PROVE CoreStep
<1>1. UNCHANGED <<others, ledger, index, retiring, outside>>
  BY DEF SweepRepair, tables, fence, selection, world, github, others, outside
<1>2. finding' = Upserted({}) /\ {} \in SUBSET Issues
  BY <1>1, NothingUpserted DEF ledger, Types, TableTypes
<1>3. CASE UNCHANGED repair
  BY <1>1, <1>2, <1>3 DEF CoreStep, Begun, ledger
<1>4. CASE ~UNCHANGED repair
  <2>1. PICK r \in Unused : sweep.candidate \in Issues /\ Asks(r, sweep.candidate)
    BY <1>4 DEF SweepRepair
  <2>2. r \in Runs /\ repair[r].step = "unused"
    BY <2>1 DEF Unused
  <2> QED
    BY <1>1, <1>2, <2>1, <2>2 DEF CoreStep, Begun, ledger
<1> QED
  BY <1>3, <1>4

\* The other steps of the sweep, and discovery.
LEMMA SweepIsCore ==
  ASSUME Types, BeginSweep \/ SweepDiscover \/ SweepRetire \/ SweepBlocked
                \/ \E p \in Repositories : Discover(p)
  PROVE  CoreStep
<1>1. CASE BeginSweep \/ SweepBlocked
  <2>1. UNCHANGED core
    BY <1>1 DEF BeginSweep, SweepBlocked, tables, fence, selection, ledger, world, github, core,
                others, repairs, outside
  <2> QED
    BY <2>1 DEF CoreStep
<1>2. CASE SweepDiscover \/ \E p \in Repositories : Discover(p)
  <2>1. UNCHANGED <<others, claims, index, repair, retiring, outside>>
    BY <1>2 DEF SweepDiscover, Discover, fence, selection, handlers, world, github, others, outside
  <2>2. \E S \in SUBSET Issues : finding' = Upserted(S)
    <3>1. CASE UNCHANGED finding
      BY <3>1, NothingUpserted DEF Types, TableTypes
    <3>2. ASSUME NEW p, finding' = Discovered(p)
          PROVE  \E S \in SUBSET Issues : finding' = Upserted(S)
      <4>1. IssuesOf(p) \cap labelled \in SUBSET Issues
        BY DEF IssuesOf
      <4> QED
        BY <3>2, <4>1 DEF Discovered
    <3> QED
      BY <1>2, <3>1, <3>2 DEF SweepDiscover, Discover
  <2> QED
    BY <2>1, <2>2 DEF CoreStep, Begun
<1>3. CASE SweepRetire
  <2>1. UNCHANGED <<others, ledger, repairs, outside>>
    BY <1>3 DEF SweepRetire, tables, fence, selection, ledger, world, github, others, repairs,
                outside
  <2>2. CASE UNCHANGED retiring
    BY <2>1, <2>2 DEF CoreStep, core
  <2>3. CASE ~UNCHANGED retiring
    <3>1. PICK r \in sweep.toRetire : Retires(r) /\ SetRetiring(r, "checked")
      BY <1>3, <2>3 DEF SweepRetire
    <3>2. r \in Runs
      BY <2>3, <3>1 DEF SetRetiring, Types, RunTypes
    <3>3. RetiringStep(r)
      BY <2>1, <3>1 DEF Retires, RetiringStep, outside
    <3> QED
      BY <2>1, <3>2, <3>3 DEF CoreStep, outside
  <2> QED
    BY <2>2, <2>3
<1> QED
  BY <1>1, <1>2, <1>3

\* Retirement, by whoever asked for it.
LEMMA RetirementIsCore ==
  ASSUME Types, NEW r \in Runs, RetireStep(r) \/ RetirementFails(r) \/ IngestMerged(r)
  PROVE  CoreStep
<1>1. UNCHANGED <<others, repairs, runState, pull>>
  BY DEF RetireStep, DeleteBranch, CloseFinding, RetirementFails, IngestMerged, tables, fence,
         selection, world, github, others, repairs
<1>2. CASE CloseFinding(r) \/ RetirementFails(r) \/ IngestMerged(r)
  <2>1. RetiringStep(r)
    BY <1>2 DEF CloseFinding, RetirementFails, IngestMerged, Retires, RetiringStep, tables, ledger,
                world, github
  <2> QED
    BY <1>1, <2>1 DEF CoreStep
<1>3. CASE DeleteBranch(r)
  <2>1. RetiringStep(r)
    BY <1>3 DEF DeleteBranch, RetiringStep, tables, ledger
  <2> QED
    BY <1>1, <2>1 DEF CoreStep
<1> QED
  BY <1>2, <1>3 DEF RetireStep

\* Runs and GitHub.
LEMMA WorldIsCore ==
  ASSUME NEW r \in Runs,
         IngestWorkflow(r) \/ Publish(r) \/ Decide(r) \/ Stop(r) \/ Merge(r)
  PROVE  CoreStep
<1>1. RunGoesOn(r)
  BY DEF IngestWorkflow, Decide, Publish, Stop, Merge, RunGoesOn, OnlyWorld, tables, fence,
         selection, ledger, handlers, github, others, repairs
<1> QED
  BY <1>1 DEF CoreStep

\* Every step does one of these things to what the theorems are about.
LEMMA NextIsCore == Types /\ [Next]_vars => CoreStep
<1> SUFFICES ASSUME Types, [Next]_vars PROVE CoreStep
  OBVIOUS
<1>1. ASSUME NEW i \in Issues, Label(i) \/ Unlabel(i) PROVE CoreStep
  <2>1. UNCHANGED core
    BY <1>1 DEF Label, Unlabel, OnlyWorld, tables, fence, selection, handlers, core, others, ledger,
                repairs, outside
  <2> QED
    BY <2>1 DEF CoreStep
<1>2. CASE UNCHANGED vars
  <2>1. UNCHANGED core
    BY <1>2 DEF vars, tables, fence, selection, handlers, world, github, core, others, ledger,
                repairs, outside
  <2> QED
    BY <2>1 DEF CoreStep
<1>3. ASSUME NEW i \in Issues, IngestIssue(i) PROVE CoreStep
  BY <1>3, BeginsIsCore
<1>4. CASE SweepRepair
  BY <1>4, RepairSweepIsCore
<1> QED
  BY <1>1, <1>2, <1>3, <1>4, RepairIsCore, SweepIsCore, RetirementIsCore, WorldIsCore
     DEF Next, SweepStep, CoreStep

-----------------------------------------------------------------------------
(* The inductive invariant.                                                    *)

\* A finding that waits for a repair has no run; any other has the one run that
\* ever claimed it.
LedgerSound ==
  \A i \in Issues :
    IF finding[i].state \in {"NONE", "OPEN"}
    THEN finding[i].run = None /\ claims[i] = {}
    ELSE finding[i].run \in Runs /\ claims[i] = {finding[i].run}

\* A run that is on record went past its claim, under a generation that is not
\* older than the last purge.
OnRecord(r) == repair[r].step \notin {"unused", "waiting"} /\ repair[r].generation >= purged

FenceSound ==
  /\ lock.generation >= purged
  /\ \A p \in Repositories : Selected(p) => selectedUnder[p] >= purged
  /\ \A i \in Issues : finding[i].run \in Runs => OnRecord(finding[i].run)
  /\ \A r \in index : OnRecord(r)

\* A run is there only after its launch; a retirement that was begun is still due,
\* and one that is to be noted has no branch left.
RunsSound ==
  \A r \in Runs :
    /\ runState[r] # "MISSING" => repair[r].step = "ended"
    /\ retiring[r] # "no" => RetirementEligible(r)
    /\ retiring[r] = "deleted" => r \notin branches

Inv == Types /\ LedgerSound /\ FenceSound /\ RunsSound

\* Nothing is there at first.
LEMMA InvInit == Init => Inv
<1> SUFFICES ASSUME Init PROVE Inv
  OBVIOUS
<1>1. NoFinding \in Findings /\ NoRepair \in Repairs /\ NoLock \in Locks
  BY DEF NoFinding, Findings, FindingStates, NoRepair, Repairs, RepairSteps, NoLock, Locks
<1>2. NotSelecting \in [busy : BOOLEAN, policy : AllPolicies, generation : Nat]
  BY DEF NotSelecting, NotSelected, AllPolicies
<1>3. TableTypes
  <2>1. <<>> \in Seq(Repositories) /\ 0 \in Nat /\ {} \in SUBSET Runs
    OBVIOUS
  <2> QED
    BY <1>1, <1>2, <2>1, Zenon DEF Init, TableTypes
<1>4. RunTypes
  BY <1>1 DEF Init, RunTypes, RunStates, NoRepair
<1>5. LedgerSound
  BY DEF Init, LedgerSound, NoFinding
<1>6. FenceSound
  BY NoneAssumption DEF Init, FenceSound, NoLock, NoFinding, Selected
<1>7. RunsSound
  BY DEF Init, RunsSound
<1> QED
  BY <1>3, <1>4, <1>5, <1>6, <1>7 DEF Inv, Types

\* Selecting a repository, or removing it, keeps the invariant.
LEMMA SelectionStep ==
  ASSUME Inv, NEW p \in Repositories,
         (\E q \in Policies : BeginSelect(p, q)) \/ EndSelect(p) \/ RemoveRepository(p)
  PROVE  Inv'
<1>1. UNCHANGED <<lock, purged, index, repair, retiring, runState, branches, pull>>
  BY DEF BeginSelect, EndSelect, RemoveRepository, tables, fence, world, github, handlers
<1>2. RunTypes' /\ RunsSound'
  BY <1>1 DEF Inv, Types, RunTypes, RunsSound, RetirementEligible
<1>3. ASSUME NEW q \in Policies, BeginSelect(p, q) PROVE Inv'
  <2>1. UNCHANGED <<byUpdate, selectedUnder, finding, claims>>
    BY <1>3 DEF BeginSelect, tables, selection, ledger
  <2>2. selecting' \in [Repositories -> [busy : BOOLEAN, policy : AllPolicies, generation : Nat]]
    BY <1>3, PoliciesAssumption DEF BeginSelect, Inv, Types, TableTypes, Locks
  <2>3. TableTypes'
    BY <1>1, <2>1, <2>2 DEF Inv, Types, TableTypes
  <2>4. LedgerSound' /\ FenceSound'
    BY <1>1, <2>1 DEF Inv, LedgerSound, FenceSound, OnRecord, Selected
  <2> QED
    BY <1>2, <2>3, <2>4 DEF Inv, Types
<1>4. CASE EndSelect(p)
  <2>1. UNCHANGED <<finding, claims>>
    BY <1>4 DEF EndSelect, ledger
  <2>2. NotSelecting \in [busy : BOOLEAN, policy : AllPolicies, generation : Nat]
    BY DEF NotSelecting, NotSelected, AllPolicies
  <2>3. selecting' \in [Repositories -> [busy : BOOLEAN, policy : AllPolicies, generation : Nat]]
    BY <1>4, <2>2 DEF EndSelect, Inv, Types, TableTypes
  <2>4. LedgerSound'
    BY <2>1 DEF Inv, LedgerSound
  <2>5. CASE UNCHANGED selection
    <3>1. TableTypes'
      BY <1>1, <2>1, <2>3, <2>5 DEF selection, Inv, Types, TableTypes
    <3>2. FenceSound'
      BY <1>1, <2>1, <2>5 DEF selection, Inv, FenceSound, OnRecord, Selected
    <3> QED
      BY <1>2, <2>4, <3>1, <3>2 DEF Inv, Types
  <2>6. ASSUME Admits(lock, selecting[p].generation), byUpdate' = Append(Without(p), p),
               selectedUnder' = [selectedUnder EXCEPT ![p] = selecting[p].generation]
        PROVE  Inv'
    <3>1. /\ Without(p) \in Seq(Repositories) /\ byUpdate' \in Seq(Repositories)
          /\ \A m \in DOMAIN Without(p) : \E n \in DOMAIN byUpdate : byUpdate[n] = Without(p)[m]
      BY <2>6, WithoutType DEF Inv, Types, TableTypes
    <3>2. selectedUnder' \in [Repositories -> Nat]
      BY <2>6 DEF Inv, Types, TableTypes
    <3>3. TableTypes'
      BY <1>1, <2>1, <2>3, <3>1, <3>2 DEF Inv, Types, TableTypes
    <3>4. \A q \in Repositories : Selected(q)' => Selected(q) \/ q = p
      <4>1. SUFFICES ASSUME NEW q \in Repositories, q # p, NEW m \in DOMAIN byUpdate',
                            byUpdate'[m] = q
                     PROVE  Selected(q)
        BY DEF Selected
      <4>2. m \in DOMAIN Without(p) /\ Without(p)[m] = q
        BY <2>6, <3>1, <4>1
      <4> QED
        BY <3>1, <4>2 DEF Selected
    <3>5. selectedUnder'[p] >= purged
      BY <2>6 DEF Admits, Inv, Types, TableTypes, FenceSound
    <3>6. \A q \in Repositories : Selected(q)' => selectedUnder'[q] >= purged
      BY <2>6, <3>4, <3>5 DEF Inv, Types, TableTypes, FenceSound
    <3>7. FenceSound'
      BY <1>1, <2>1, <3>6 DEF Inv, FenceSound, OnRecord
    <3> QED
      BY <1>2, <2>4, <3>3, <3>7 DEF Inv, Types
  <2> QED
    BY <1>4, <2>5, <2>6 DEF EndSelect
<1>5. CASE RemoveRepository(p)
  <2>1. UNCHANGED <<selecting, selectedUnder>> /\ byUpdate' = Without(p)
    BY <1>5 DEF RemoveRepository, handlers
  <2>2. /\ Without(p) \in Seq(Repositories)
        /\ \A m \in DOMAIN Without(p) : \E n \in DOMAIN byUpdate : byUpdate[n] = Without(p)[m]
    BY WithoutType DEF Inv, Types, TableTypes
  <2>3. \A i \in Issues :
          \/ finding'[i] = finding[i] /\ claims'[i] = claims[i]
          \/ finding'[i] = NoFinding /\ claims'[i] = {}
    BY <1>5 DEF RemoveRepository, DropFindings
  <2>4. NoFinding \in Findings /\ NoFinding.state = "NONE" /\ NoFinding.run = None
    BY DEF NoFinding, Findings, FindingStates
  <2>5. finding' \in [Issues -> Findings] /\ claims' \in [Issues -> SUBSET Runs]
    BY <1>5, <2>4 DEF RemoveRepository, DropFindings, Inv, Types, TableTypes
  <2>6. TableTypes'
    BY <1>1, <2>1, <2>2, <2>5 DEF Inv, Types, TableTypes
  <2>7. LedgerSound'
    BY <2>3, <2>4 DEF Inv, LedgerSound
  <2>8. \A q \in Repositories : Selected(q)' => Selected(q)
    BY <2>1, <2>2 DEF Selected
  <2>9. FenceSound'
    BY <1>1, <2>1, <2>3, <2>4, <2>8, NoneAssumption DEF Inv, FenceSound, OnRecord
  <2> QED
    BY <1>2, <2>6, <2>7, <2>9 DEF Inv, Types
<1> QED
  BY <1>3, <1>4, <1>5

\* Beginning a repair keeps it: the run is not on record yet.
LEMMA BegunStep == ASSUME Inv, Begun PROVE Inv'
<1>1. UNCHANGED <<lock, purged, byUpdate, selectedUnder, selecting, claims, index, retiring,
                  runState, branches, pull>>
  BY DEF Begun, others, outside
<1>2. /\ finding' \in [Issues -> Findings]
      /\ \A i \in Issues :
           \/ finding'[i] = finding[i]
           \/ /\ finding[i].state = "NONE" /\ finding'[i].state = "OPEN" /\ finding'[i].run = None
  BY UpsertedType DEF Begun, Inv, Types, TableTypes
<1>3. TableTypes'
  BY <1>1, <1>2 DEF Inv, Types, TableTypes
<1>4. LedgerSound'
  BY <1>1, <1>2 DEF Inv, LedgerSound
<1>5. /\ repair' \in [Runs -> Repairs]
      /\ \A r \in Runs : repair'[r].step = "waiting" => repair'[r].issue \in Issues
      /\ \A r \in Runs : repair'[r] = repair[r] \/ repair[r].step = "unused"
  <2>1. CASE UNCHANGED repair
    BY <2>1 DEF Inv, Types, RunTypes
  <2>2. ASSUME NEW r \in Runs, NEW i \in Issues, repair[r].step = "unused", Asks(r, i)
        PROVE  <1>5
    BY <2>2 DEF Asks, Repairs, RepairSteps, Inv, Types, TableTypes, RunTypes, Locks
  <2> QED
    BY <2>1, <2>2 DEF Begun
<1>6. RunTypes'
  BY <1>1, <1>5 DEF Inv, Types, RunTypes
<1>7. RunsSound'
  BY <1>1, <1>5 DEF Inv, RunsSound, RetirementEligible
<1>8. \A r \in Runs : OnRecord(r) => OnRecord(r)'
  BY <1>1, <1>5 DEF OnRecord
<1>9. FenceSound'
  BY <1>1, <1>2, <1>8, NoneAssumption DEF Inv, Types, TableTypes, FenceSound, Selected
<1> QED
  BY <1>3, <1>4, <1>6, <1>7, <1>9 DEF Inv, Types

\* The index takes up runs on record.
LEMMA ListRunsStep == ASSUME Inv, ListRuns PROVE Inv'
<1>1. UNCHANGED <<lock, purged, byUpdate, selectedUnder, selecting, finding, claims, repair,
                  retiring, runState, branches, pull>>
  BY DEF ListRuns, fence, selection, ledger, handlers, world, github
<1>2. index' \subseteq index \cup {r \in Runs : \E i \in Issues : finding[i].run = r}
  BY DEF ListRuns, Inv, Types, TableTypes, Findings
<1>3. TableTypes' /\ RunTypes'
  BY <1>1, <1>2 DEF Inv, Types, TableTypes, RunTypes
<1>4. LedgerSound' /\ RunsSound'
  BY <1>1 DEF Inv, LedgerSound, RunsSound, RetirementEligible
<1>5. FenceSound'
  BY <1>1, <1>2 DEF Inv, FenceSound, OnRecord, Selected
<1> QED
  BY <1>3, <1>4, <1>5 DEF Inv, Types

\* A claim is made once, on a finding that nobody claimed, under the fence's
\* generation.
LEMMA ClaimedStep == ASSUME Inv, NEW r \in Runs, Claimed(r) PROVE Inv'
<1> DEFINE i == repair[r].issue
<1>1. /\ UNCHANGED <<lock, purged, byUpdate, selectedUnder, selecting, index, retiring,
                     runState, branches, pull>>
      /\ i \in Issues /\ Admits(lock, repair[r].generation) /\ finding[i].state = "OPEN"
      /\ repair[r].step = "waiting" /\ repair' = [repair EXCEPT ![r].step = "claimed"]
      /\ finding' = [finding EXCEPT ![i] = [state |-> "REPAIR_QUEUED", run |-> r]]
      /\ claims' = [claims EXCEPT ![i] = @ \cup {r}]
  BY DEF Claimed, Claimable, Step, others, outside, Inv, Types, RunTypes
<1> HIDE DEF i
<1>2. /\ finding'[i].state = "REPAIR_QUEUED" /\ finding'[i].run = r /\ claims'[i] = {r}
      /\ \A j \in Issues \ {i} : finding'[j] = finding[j] /\ claims'[j] = claims[j]
  BY <1>1 DEF Inv, Types, TableTypes, LedgerSound
<1>3. TableTypes'
  BY <1>1 DEF Inv, Types, TableTypes, Findings, FindingStates
<1>4. /\ repair' \in [Runs -> Repairs]
      /\ repair'[r].step = "claimed" /\ repair'[r].generation = repair[r].generation
      /\ \A s \in Runs \ {r} : repair'[s] = repair[s]
  BY <1>1 DEF Inv, Types, RunTypes, Repairs, RepairSteps
<1>5. RunTypes'
  BY <1>1, <1>4 DEF Inv, Types, RunTypes
<1>6. LedgerSound'
  BY <1>2 DEF Inv, LedgerSound
<1>7. OnRecord(r)' /\ \A s \in Runs : OnRecord(s) => OnRecord(s)'
  BY <1>1, <1>4 DEF OnRecord, Admits, Inv, FenceSound
<1>8. FenceSound'
  BY <1>1, <1>2, <1>7 DEF Inv, Types, TableTypes, FenceSound, Selected
<1>9. RunsSound'
  BY <1>1, <1>4 DEF Inv, RunsSound, RetirementEligible
<1> QED
  BY <1>3, <1>5, <1>6, <1>8, <1>9 DEF Inv, Types

\* A repair that gives up before its claim is not on record.
LEMMA GaveUpStep == ASSUME Inv, NEW r \in Runs, GaveUp(r) PROVE Inv'
<1>1. /\ UNCHANGED <<lock, purged, byUpdate, selectedUnder, selecting, finding, claims, index,
                     retiring, runState, branches, pull>>
      /\ repair[r].step = "waiting" /\ repair' = [repair EXCEPT ![r] = NoRepair]
  BY DEF GaveUp, others, ledger, outside
<1>2. /\ repair' \in [Runs -> Repairs] /\ repair'[r].step = "unused"
      /\ \A s \in Runs \ {r} : repair'[s] = repair[s]
  BY <1>1 DEF NoRepair, Repairs, RepairSteps, Inv, Types, RunTypes
<1>3. TableTypes' /\ RunTypes'
  BY <1>1, <1>2 DEF Inv, Types, TableTypes, RunTypes
<1>4. LedgerSound' /\ RunsSound'
  BY <1>1, <1>2 DEF Inv, LedgerSound, RunsSound, RetirementEligible
<1>5. \A s \in Runs : OnRecord(s) => OnRecord(s)'
  BY <1>1, <1>2 DEF OnRecord
<1>6. FenceSound'
  BY <1>1, <1>5 DEF Inv, Types, TableTypes, FenceSound, Selected
<1> QED
  BY <1>3, <1>4, <1>6 DEF Inv, Types

\* After its claim it stays on record, and its run is there once it is launched.
LEMMA WentOnStep ==
  ASSUME Inv, NEW r \in Runs, WentOn(r), UNCHANGED <<others, ledger, retiring>>
  PROVE  Inv'
<1>1. UNCHANGED <<lock, purged, byUpdate, selectedUnder, selecting, finding, claims,
                  retiring, branches, pull>>
  BY DEF WentOn, others, ledger, outside
<1>2. PICK to \in {"recorded", "ended"} :
        /\ repair' = [repair EXCEPT ![r].step = to]
        /\ repair[r].step \in {"claimed", "recorded"}
        /\ \/ UNCHANGED runState
           \/ to = "ended" /\ repair[r].step = "recorded"
              /\ \E state \in RunStates \ {"VERIFIED", "AWAITING"} : SetRun(r, state)
        /\ index' \subseteq index
           \/ (to = "recorded" /\ index' = index \cup {r} /\ Admits(lock, repair[r].generation))
  BY DEF WentOn, Step, outside
<1>3. /\ repair' \in [Runs -> Repairs] /\ repair'[r].step = to
      /\ repair'[r].generation = repair[r].generation
      /\ \A s \in Runs \ {r} : repair'[s] = repair[s]
  BY <1>2 DEF Repairs, RepairSteps, Inv, Types, RunTypes
<1>4. /\ runState' \in [Runs -> RunStates] /\ \A s \in Runs \ {r} : runState'[s] = runState[s]
      /\ runState'[r] = runState[r] \/ (to = "ended" /\ runState[r] = "MISSING")
  BY <1>2 DEF SetRun, Inv, Types, RunTypes, RunsSound
<1>5. TableTypes' /\ RunTypes'
  BY <1>1, <1>2, <1>3, <1>4 DEF Inv, Types, TableTypes, RunTypes
<1>6. LedgerSound'
  BY <1>1 DEF Inv, LedgerSound
<1>7. RunsSound'
  BY <1>1, <1>2, <1>3, <1>4 DEF Inv, RunsSound, RetirementEligible
<1>8. /\ \A s \in Runs : OnRecord(s) => OnRecord(s)'
      /\ Admits(lock, repair[r].generation) => OnRecord(r)'
  BY <1>1, <1>2, <1>3 DEF OnRecord, Admits, Inv, FenceSound
<1>9. FenceSound'
  BY <1>1, <1>2, <1>8 DEF Inv, Types, TableTypes, FenceSound, Selected
<1> QED
  BY <1>5, <1>6, <1>7, <1>9 DEF Inv, Types

\* A retirement goes on only for a run that is eligible, and stays so: nothing
\* is published again, nor merged, nor decided, once it was verified and merged.
LEMMA RetiringIsSound ==
  ASSUME Inv, NEW r \in Runs, RetiringStep(r), UNCHANGED <<others, repairs, runState, pull>>
  PROVE  Inv'
<1>1. /\ UNCHANGED <<lock, purged, byUpdate, selectedUnder, selecting, claims, index, repair,
                     runState, pull>>
      /\ branches' \subseteq branches
  BY DEF RetiringStep, DeleteBranch, others, repairs, ledger
<1>2. PICK step \in {"no", "checked", "deleted"} :
        /\ retiring' = [retiring EXCEPT ![r] = step]
        /\ step # "no" => RetirementEligible(r)
        /\ step = "deleted" => r \notin branches'
  BY DEF RetiringStep, DeleteBranch, SetRetiring, Inv, RunsSound
<1>3. RunTypes' /\ RunsSound'
  BY <1>1, <1>2 DEF Inv, Types, RunTypes, RunsSound, RetirementEligible
<1>4. /\ finding' \in [Issues -> Findings]
      /\ \A i \in Issues :
           \/ finding'[i] = finding[i]
           \/ /\ finding[i].state = "REPAIR_QUEUED" /\ finding'[i].state = "CLOSED"
              /\ finding'[i].run = finding[i].run
  <2>1. CASE UNCHANGED finding
    BY <2>1 DEF Inv, Types, TableTypes
  <2>2. CASE finding' = Closed(r)
    <3>1. \A i \in Issues : finding[i] \in Findings
      BY DEF Inv, Types, TableTypes
    <3>2. \A i \in Issues :
            \/ finding'[i] = finding[i]
            \/ /\ finding[i].state = "REPAIR_QUEUED"
               /\ finding'[i] = [state |-> "CLOSED", run |-> finding[i].run]
      BY <2>2, <3>1 DEF Closed, Findings
    <3>3. finding' = [i \in Issues |-> finding'[i]]
      BY <2>2 DEF Closed
    <3>4. ASSUME NEW i \in Issues PROVE finding'[i] \in Findings
      <4>1. CASE finding'[i] = finding[i]
        BY <3>1, <4>1
      <4>2. CASE finding'[i] = [state |-> "CLOSED", run |-> finding[i].run]
        BY <3>1, <4>2 DEF Findings, FindingStates
      <4> QED
        BY <3>2, <4>1, <4>2
    <3> QED
      BY <3>2, <3>3, <3>4
  <2> QED
    BY <2>1, <2>2 DEF RetiringStep, ledger
<1>5. TableTypes'
  BY <1>1, <1>4 DEF Inv, Types, TableTypes
<1>6. LedgerSound'
  BY <1>1, <1>4 DEF Inv, LedgerSound
<1>7. FenceSound'
  BY <1>1, <1>4 DEF Inv, FenceSound, OnRecord, Selected
<1> QED
  BY <1>3, <1>5, <1>6, <1>7 DEF Inv, Types

\* A run and its pull request go on, but not once the run is verified and merged.
LEMMA RunGoesOnStep == ASSUME Inv, NEW r \in Runs, RunGoesOn(r) PROVE Inv'
<1>1. UNCHANGED <<lock, purged, byUpdate, selectedUnder, selecting, finding, claims, index,
                  repair, retiring>>
  BY DEF RunGoesOn, others, ledger, repairs
<1>2. TableTypes' /\ LedgerSound' /\ FenceSound'
  BY <1>1 DEF Inv, Types, TableTypes, LedgerSound, FenceSound, OnRecord, Selected
<1>3. RunTypes'
  BY <1>1 DEF RunGoesOn, Publish, Stop, Merge, SetRun, github, RunStates, Inv, Types, RunTypes
<1>4. \A s \in Runs :
        /\ runState[s] = "MISSING" => runState'[s] = "MISSING"
        /\ RetirementEligible(s) => RetirementEligible(s)' /\ (s \in branches' => s \in branches)
  BY DEF RunGoesOn, Publish, Stop, Merge, SetRun, github, RetirementEligible, Inv, Types, RunTypes
<1>5. RunsSound'
  BY <1>1, <1>4 DEF Inv, RunsSound
<1> QED
  BY <1>2, <1>3, <1>5 DEF Inv, Types

\* Raising the fence, lowering it and the purge behind it.
LEMMA FenceStep == ASSUME Inv, RaiseFence \/ LowerFence \/ PurgeAccount PROVE Inv'
<1>1. UNCHANGED <<selectedUnder, selecting, repair, retiring, runState, branches, pull>>
  BY DEF RaiseFence, LowerFence, PurgeAccount, selection, handlers, world, github
<1>2. RunTypes' /\ RunsSound'
  BY <1>1 DEF Inv, Types, RunTypes, RunsSound, RetirementEligible
<1>3. /\ lock' \in Locks
      /\ lock'.generation \in {lock.generation, lock.generation + 1}
      /\ lock.generation \in Nat
  <2>1. lock \in Locks
    BY DEF Inv, Types, TableTypes
  <2>2. CASE RaiseFence
    BY <2>1, <2>2 DEF RaiseFence, BeginDeletion, Locks
  <2>3. CASE LowerFence \/ PurgeAccount
    BY <2>1, <2>3 DEF LowerFence, PurgeAccount, EndDeletion, Locks
  <2> QED
    BY <2>2, <2>3
<1>4. CASE RaiseFence \/ LowerFence
  <2>1. UNCHANGED <<purged, byUpdate, finding, claims, index>>
    BY <1>4 DEF RaiseFence, LowerFence, selection, ledger
  <2>2. TableTypes' /\ LedgerSound'
    BY <1>1, <1>3, <2>1 DEF Inv, Types, TableTypes, LedgerSound
  <2>3. FenceSound'
    BY <1>1, <1>3, <2>1 DEF Inv, Types, TableTypes, FenceSound, OnRecord, Selected, Locks
  <2> QED
    BY <1>2, <2>2, <2>3 DEF Inv, Types
<1>5. CASE PurgeAccount
  <2>1. /\ purged' = lock.generation /\ byUpdate' = <<>> /\ index' = {}
        /\ finding' = [i \in Issues |-> NoFinding] /\ claims' = [i \in Issues |-> {}]
    BY <1>5 DEF PurgeAccount, DropFindings
  <2>2. NoFinding \in Findings /\ NoFinding.state = "NONE" /\ NoFinding.run = None
    BY DEF NoFinding, Findings, FindingStates
  <2>3. TableTypes'
    BY <1>1, <1>3, <2>1, <2>2 DEF Inv, Types, TableTypes, Locks
  <2>4. LedgerSound'
    BY <2>1, <2>2 DEF LedgerSound
  <2>5. FenceSound'
    BY <1>3, <2>1, <2>2, NoneAssumption DEF FenceSound, Selected, Locks
  <2> QED
    BY <1>2, <2>3, <2>4, <2>5 DEF Inv, Types
<1> QED
  BY <1>4, <1>5

\* A restart forgets requests, and repairs that have not claimed.
LEMMA RestartStep == ASSUME Inv, Restart PROVE Inv'
<1>1. UNCHANGED <<lock, purged, byUpdate, selectedUnder, finding, claims, index, runState,
                  branches, pull>>
  BY DEF Restart, tables, fence, selection, ledger, world, github
<1>2. NotSelecting \in [busy : BOOLEAN, policy : AllPolicies, generation : Nat]
  BY DEF NotSelecting, NotSelected, AllPolicies
<1>3. TableTypes'
  BY <1>1, <1>2 DEF Restart, Inv, Types, TableTypes
<1>4. \A r \in Runs :
        \/ repair[r].step = "waiting" /\ repair'[r] = NoRepair
        \/ repair[r].step \in {"unused", "ended"} /\ repair'[r] = repair[r]
        \/ /\ repair[r].step \in {"claimed", "recorded"}
           /\ repair'[r] = [repair[r] EXCEPT !.step = "ended"]
  BY DEF Restart, Inv, Types, RunTypes, Repairs, RepairSteps
<1>5. \A r \in Runs :
        /\ repair'[r] \in Repairs /\ repair'[r].step # "waiting"
        /\ repair[r].step = "ended" => repair'[r] = repair[r]
        /\ repair[r].step \notin {"unused", "waiting"} =>
             /\ repair'[r].step \notin {"unused", "waiting"}
             /\ repair'[r].generation = repair[r].generation
  <2> SUFFICES ASSUME NEW r \in Runs
               PROVE  /\ repair'[r] \in Repairs /\ repair'[r].step # "waiting"
                      /\ repair[r].step = "ended" => repair'[r] = repair[r]
                      /\ repair[r].step \notin {"unused", "waiting"} =>
                           /\ repair'[r].step \notin {"unused", "waiting"}
                           /\ repair'[r].generation = repair[r].generation
    OBVIOUS
  <2>1. repair[r] \in Repairs
    BY DEF Inv, Types, RunTypes
  <2>2. CASE repair[r].step = "waiting" /\ repair'[r] = NoRepair
    BY <2>2 DEF NoRepair, Repairs, RepairSteps
  <2>3. CASE repair[r].step \in {"unused", "ended"} /\ repair'[r] = repair[r]
    BY <2>1, <2>3
  <2>4. CASE /\ repair[r].step \in {"claimed", "recorded"}
             /\ repair'[r] = [repair[r] EXCEPT !.step = "ended"]
    <3>1. /\ repair'[r] \in Repairs /\ repair'[r].step = "ended"
          /\ repair'[r].generation = repair[r].generation
      BY <2>1, <2>4 DEF Repairs, RepairSteps
    <3> QED
      BY <2>4, <3>1
  <2> QED
    BY <1>4, <2>2, <2>3, <2>4
<1>6. repair' \in [Runs -> Repairs]
  <2>1. repair' = [r \in Runs |-> repair'[r]]
    BY DEF Restart
  <2> QED
    BY <1>5, <2>1
<1>7. retiring' = [r \in Runs |-> "no"]
  BY DEF Restart
<1>8. RunTypes'
  BY <1>1, <1>5, <1>6, <1>7 DEF Inv, Types, RunTypes
<1>9. LedgerSound' /\ RunsSound'
  BY <1>1, <1>5, <1>7 DEF Inv, LedgerSound, RunsSound
<1>10. \A r \in Runs : OnRecord(r) => OnRecord(r)'
  BY <1>1, <1>5 DEF OnRecord
<1>11. FenceSound'
  BY <1>1, <1>10 DEF Inv, Types, TableTypes, FenceSound, Selected
<1> QED
  BY <1>3, <1>8, <1>9, <1>11 DEF Inv, Types

\* Every step keeps the invariant.
LEMMA InvStep == Inv /\ [Next]_vars => Inv'
<1> SUFFICES ASSUME Inv, [Next]_vars PROVE Inv'
  OBVIOUS
<1>1. CoreStep
  BY NextIsCore DEF Inv
<1>2. CASE UNCHANGED core
  BY <1>2 DEF core, others, ledger, repairs, outside, Inv, Types, TableTypes, RunTypes,
              LedgerSound, FenceSound, RunsSound, OnRecord, Selected, RetirementEligible
<1>3. ASSUME NEW r \in Runs,
             \/ Claimed(r) \/ GaveUp(r) \/ RunGoesOn(r)
             \/ WentOn(r) /\ UNCHANGED <<others, ledger, retiring>>
             \/ RetiringStep(r) /\ UNCHANGED <<others, repairs, runState, pull>>
      PROVE  Inv'
  BY <1>3, ClaimedStep, GaveUpStep, RunGoesOnStep, WentOnStep, RetiringIsSound
<1> QED
  BY <1>1, <1>2, <1>3, SelectionStep, BegunStep, ListRunsStep, FenceStep, RestartStep DEF CoreStep

\* The invariant holds throughout.
THEOREM RegistryInvariant == Spec => []Inv
BY InvInit, InvStep, PTL DEF Spec

-----------------------------------------------------------------------------
(* The theorems. *)

\* However many requests, sweeps and webhooks race for a finding, through faults
\* and restarts: one run claims it.
THEOREM OneRunOwnsAFinding == Spec => []OneRunPerFinding
<1>1. Inv => OneRunPerFinding
  <2> SUFFICES ASSUME Inv, NEW i \in Issues
               PROVE  /\ Cardinality(claims[i]) <= 1
                      /\ finding[i].state # "NONE" => claims[i] = {finding[i].run} \ {None}
    BY DEF OneRunPerFinding
  <2>1. CASE claims[i] = {} /\ finding[i].run = None
    BY <2>1, FS_EmptySet
  <2>2. CASE claims[i] = {finding[i].run} /\ finding[i].run \in Runs
    <3>1. Cardinality(claims[i]) = 1
      BY <2>2, FS_Singleton
    <3> QED
      BY <2>2, <3>1, NoneAssumption
  <2> QED
    BY <2>1, <2>2 DEF Inv, LedgerSound
<1> QED
  BY <1>1, RegistryInvariant, PTL

\* Whatever waited while an account was deleted, and for how many deletions: what
\* it writes is fenced.
THEOREM StaleWritesAreFenced == Spec => []StaleWritesFenced
<1>1. Inv => StaleWritesFenced
  BY DEF Inv, Types, TableTypes, FenceSound, OnRecord, Findings, StaleWritesFenced
<1> QED
  BY <1>1, RegistryInvariant, PTL

\* The body of RetiresOnlyVerifiedMerged.
Retired ==
  /\ \A r \in branches \ branches' : runState[r] = "VERIFIED" /\ pull[r] = "merged"
  /\ \A i \in Issues : finding[i].state # "CLOSED" /\ finding'[i].state = "CLOSED" =>
       /\ finding[i].run \notin branches
       /\ runState[finding[i].run] = "VERIFIED" /\ pull[finding[i].run] = "merged"

\* A branch goes and a finding closes only by the retirement of an eligible run.
LEMMA RetiredStep == Inv /\ [Next]_vars => Retired
<1> SUFFICES ASSUME Inv, [Next]_vars PROVE Retired
  OBVIOUS
<1>1. CoreStep
  BY NextIsCore DEF Inv
<1>2. ASSUME NEW r \in Runs, RetiringStep(r), UNCHANGED <<others, repairs, runState, pull>>
      PROVE  Retired
  <2>1. ASSUME NEW s \in branches \ branches' PROVE RetirementEligible(s)
    BY <1>2, <2>1 DEF RetiringStep, DeleteBranch, Inv, RunsSound
  <2>2. ASSUME NEW i \in Issues, finding[i].state # "CLOSED", finding'[i].state = "CLOSED"
        PROVE  finding[i].run = r /\ retiring[r] = "deleted"
    BY <1>2, <2>2 DEF RetiringStep, DeleteBranch, tables, ledger, Closed
  <2>3. retiring[r] = "deleted" => RetirementEligible(r) /\ r \notin branches
    BY DEF Inv, RunsSound
  <2> QED
    BY <2>1, <2>2, <2>3 DEF Retired, RetirementEligible
<1>3. CASE branches \subseteq branches' /\ \A i \in Issues :
             finding'[i].state = "CLOSED" => finding[i].state = "CLOSED"
  BY <1>3 DEF Retired
<1>4. ASSUME NEW p \in Repositories,
             (\E q \in Policies : BeginSelect(p, q)) \/ EndSelect(p) \/ RemoveRepository(p)
      PROVE  Retired
  <2>1. UNCHANGED branches
    BY <1>4 DEF BeginSelect, EndSelect, RemoveRepository, world, github
  <2>2. \A i \in Issues : finding'[i] = finding[i] \/ finding'[i] = NoFinding
    BY <1>4 DEF BeginSelect, EndSelect, RemoveRepository, DropFindings, tables, ledger
  <2> QED
    BY <1>3, <2>1, <2>2 DEF NoFinding
<1>5. CASE Begun
  BY <1>3, <1>5, UpsertedType DEF Begun, outside, Inv, Types, TableTypes
<1>6. CASE ListRuns \/ RaiseFence \/ LowerFence \/ Restart \/ UNCHANGED core
  <2>1. UNCHANGED <<branches, finding>>
    BY <1>6 DEF ListRuns, RaiseFence, LowerFence, Restart, core, tables, ledger, world, github,
                outside
  <2> QED
    BY <1>3, <2>1
<1>7. CASE PurgeAccount
  <2>1. UNCHANGED branches /\ finding' = [i \in Issues |-> NoFinding]
    BY <1>7 DEF PurgeAccount, DropFindings, world, github
  <2> QED
    BY <1>3, <2>1 DEF NoFinding
<1>8. ASSUME NEW r \in Runs,
             \/ GaveUp(r) \/ RunGoesOn(r) \/ (WentOn(r) /\ UNCHANGED <<others, ledger, retiring>>)
      PROVE  Retired
  <2>1. UNCHANGED finding /\ branches \subseteq branches'
    BY <1>8 DEF GaveUp, RunGoesOn, WentOn, Publish, Stop, Merge, OnlyWorld, ledger, outside, github
  <2> QED
    BY <1>3, <2>1
<1>9. ASSUME NEW r \in Runs, Claimed(r) PROVE Retired
  <2>1. UNCHANGED branches
    BY <1>9 DEF Claimed, outside
  <2>2. \A i \in Issues : finding'[i] = finding[i] \/ finding'[i].state = "REPAIR_QUEUED"
    BY <1>9 DEF Claimed, Inv, Types, TableTypes
  <2> QED
    BY <1>3, <2>1, <2>2
<1>10. ASSUME NEW r \in Runs,
             \/ Claimed(r) \/ GaveUp(r) \/ RunGoesOn(r)
             \/ WentOn(r) /\ UNCHANGED <<others, ledger, retiring>>
             \/ RetiringStep(r) /\ UNCHANGED <<others, repairs, runState, pull>>
       PROVE  Retired
  <2>1. CASE Claimed(r)
    BY <1>9, <2>1
  <2>2. CASE GaveUp(r) \/ RunGoesOn(r) \/ (WentOn(r) /\ UNCHANGED <<others, ledger, retiring>>)
    BY <1>8, <2>2
  <2>3. CASE RetiringStep(r) /\ UNCHANGED <<others, repairs, runState, pull>>
    BY <1>2, <2>3
  <2> QED
    BY <1>10, <2>1, <2>2, <2>3
<1> QED
  BY <1>1, <1>4, <1>5, <1>6, <1>7, <1>10 DEF CoreStep

\* A branch is deleted, and its finding closed, only for work that was verified
\* and merged as it was verified.
THEOREM OnlyVerifiedMergedRetired == Spec => RetiresOnlyVerifiedMerged
<1>1. Inv /\ [Next]_vars => [Retired]_vars
  BY RetiredStep
<1> QED
  BY <1>1, RegistryInvariant, PTL DEF Spec, RetiresOnlyVerifiedMerged, Retired

-----------------------------------------------------------------------------
(* The types that are left: how far generations count, what the owner and the  *)
(* world chose, and the sweep.                                                  *)

Bounded ==
  /\ lock.generation <= MaxGenerations /\ purged <= MaxGenerations
  /\ \A p \in Repositories :
       /\ selectedUnder[p] <= MaxGenerations /\ selecting[p].generation <= MaxGenerations
  /\ \A r \in Runs : repair[r].generation <= MaxGenerations

\* A generation is always that of the lock, then or before.
LEMMA BoundedStep == Inv /\ Bounded /\ [Next]_vars => Bounded'
<1> SUFFICES ASSUME Inv, Bounded, [Next]_vars PROVE Bounded'
  OBVIOUS
<1> USE GenerationsAssumption
<1>1. CoreStep
  BY NextIsCore DEF Inv
<1>2. ASSUME UNCHANGED <<lock, purged, selectedUnder, selecting>>,
             \A r \in Runs : repair'[r].generation \in {0, repair[r].generation, lock.generation}
      PROVE  Bounded'
  BY <1>2 DEF Bounded
<1>3. ASSUME NEW p \in Repositories,
             (\E q \in Policies : BeginSelect(p, q)) \/ EndSelect(p) \/ RemoveRepository(p)
      PROVE  Bounded'
  <2>1. UNCHANGED <<lock, purged, repair>>
    BY <1>3 DEF BeginSelect, EndSelect, RemoveRepository, tables, fence, handlers
  <2>2. \A q \in Repositories :
          /\ selecting'[q].generation \in {0, selecting[q].generation, lock.generation}
          /\ selectedUnder'[q] \in {selectedUnder[q], selecting[q].generation}
    BY <1>3 DEF BeginSelect, EndSelect, RemoveRepository, tables, selection, handlers, NotSelecting,
                Inv, Types, TableTypes
  <2> QED
    BY <2>1, <2>2 DEF Bounded
<1>4. CASE UNCHANGED core \/ ListRuns
  BY <1>2, <1>4 DEF core, others, repairs, ListRuns, fence, selection, handlers
<1>5. CASE Begun
  BY <1>2, <1>5 DEF Begun, others, Asks, Inv, Types, RunTypes
<1>6. ASSUME NEW r \in Runs,
             \/ Claimed(r) \/ GaveUp(r) \/ RunGoesOn(r)
             \/ WentOn(r) /\ UNCHANGED <<others, ledger, retiring>>
             \/ RetiringStep(r) /\ UNCHANGED <<others, repairs, runState, pull>>
      PROVE  Bounded'
  <2>1. UNCHANGED others
    BY <1>6 DEF Claimed, GaveUp, RunGoesOn
  <2>2. \/ UNCHANGED repair \/ repair' = [repair EXCEPT ![r] = NoRepair]
        \/ \E to \in RepairSteps : repair' = [repair EXCEPT ![r].step = to]
    BY <1>6 DEF Claimed, GaveUp, RunGoesOn, WentOn, Step, RepairSteps, repairs
  <2>3. \A s \in Runs : repair'[s].generation \in {0, repair[s].generation}
    BY <2>2 DEF NoRepair, Inv, Types, RunTypes, Repairs
  <2> QED
    BY <1>2, <2>1, <2>3 DEF others
<1>7. CASE RaiseFence \/ LowerFence \/ PurgeAccount
  <2>1. UNCHANGED <<selectedUnder, selecting, repair>>
    BY <1>7 DEF RaiseFence, LowerFence, PurgeAccount, selection, handlers
  <2>2. purged' \in {purged, lock.generation}
    BY <1>7 DEF RaiseFence, LowerFence, PurgeAccount
  <2>3. lock'.generation <= MaxGenerations
    <3>1. lock \in Locks
      BY DEF Inv, Types, TableTypes
    <3> QED
      BY <1>7, <3>1 DEF RaiseFence, LowerFence, PurgeAccount, BeginDeletion, EndDeletion, Locks,
                        Bounded
  <2> QED
    BY <2>1, <2>2, <2>3 DEF Bounded
<1>8. CASE Restart
  <2>1. UNCHANGED <<lock, purged, selectedUnder>>
    BY <1>8 DEF Restart, tables, fence, selection
  <2>2. \A p \in Repositories : selecting'[p].generation = 0
    BY <1>8 DEF Restart, NotSelecting
  <2>3. \A r \in Runs : \/ repair'[r] = NoRepair \/ repair'[r] = repair[r]
                        \/ repair'[r] = [repair[r] EXCEPT !.step = "ended"]
    BY <1>8 DEF Restart, Inv, Types, RunTypes, Repairs, RepairSteps
  <2>4. \A r \in Runs : repair'[r].generation \in {0, repair[r].generation}
    <3> SUFFICES ASSUME NEW r \in Runs
                 PROVE  repair'[r].generation \in {0, repair[r].generation}
      OBVIOUS
    <3>1. [repair[r] EXCEPT !.step = "ended"].generation = repair[r].generation
      BY DEF Inv, Types, RunTypes, Repairs
    <3>2. NoRepair.generation = 0
      BY DEF NoRepair
    <3> HIDE DEF NoRepair
    <3> QED
      BY <2>3, <3>1, <3>2
  <2> QED
    BY <2>1, <2>2, <2>4 DEF Bounded
<1> QED
  BY <1>1, <1>3, <1>4, <1>5, <1>6, <1>7, <1>8 DEF CoreStep

Chosen ==
  /\ policy \in [Repositories -> AllPolicies] /\ labelled \subseteq Issues
  /\ faults \in 0 .. MaxFaults

\* What a repository is selected with was asked for by a request.
LEMMA ChosenStep == Inv /\ Chosen /\ [Next]_vars => Chosen'
<1> SUFFICES ASSUME Inv, Chosen, [Next]_vars PROVE Chosen'
  OBVIOUS
<1>1. policy' \in [Repositories -> AllPolicies]
  <2>1. NotSelected \in AllPolicies
    BY DEF NotSelected, AllPolicies
  <2>2. CASE UNCHANGED policy
    BY <2>2 DEF Chosen
  <2>3. ASSUME NEW p \in Repositories, NEW q \in AllPolicies, policy' = [policy EXCEPT ![p] = q]
        PROVE  <1>1
    BY <2>3 DEF Chosen
  <2>4. CASE policy' = [p \in Repositories |-> NotSelected]
    BY <2>1, <2>4
  <2>5. \/ UNCHANGED policy \/ policy' = [p \in Repositories |-> NotSelected]
        \/ \E p \in Repositories, q \in AllPolicies : policy' = [policy EXCEPT ![p] = q]
    <3>1. ASSUME NEW p \in Repositories, EndSelect(p) \/ RemoveRepository(p)
          PROVE  UNCHANGED policy \/ \E q \in AllPolicies : policy' = [policy EXCEPT ![p] = q]
      <4>1. selecting[p].policy \in AllPolicies
        BY DEF Inv, Types, TableTypes
      <4> QED
        BY <2>1, <3>1, <4>1 DEF EndSelect, RemoveRepository, selection
    <3>2. ASSUME NEW r \in Runs, RepairNext(r) \/ RetireStep(r) \/ RetirementFails(r)
          PROVE  UNCHANGED policy
      BY <3>2 DEF RepairNext, AskRepair, RepairStep, Claim, RecordRun, Launch, LaunchRefused,
                  LaunchFails, DropRun, AskFails, RetireStep, DeleteBranch, CloseFinding,
                  RetirementFails, tables, selection
    <3>3. CASE SweepStep \/ SweepBlocked
      BY <3>3 DEF SweepStep, BeginSweep, SweepDiscover, SweepRepair, SweepRetire, SweepBlocked,
                  tables, selection
    <3>4. ASSUME NEW r \in Runs, IngestMerged(r) \/ IngestWorkflow(r) \/ Publish(r) \/ Decide(r)
                                 \/ Stop(r) \/ Merge(r)
          PROVE  UNCHANGED policy
      BY <3>4 DEF IngestMerged, IngestWorkflow, Publish, Decide, Stop, Merge, OnlyWorld, tables,
                  selection
    <3>5. ASSUME NEW i \in Issues, IngestIssue(i) \/ Label(i) \/ Unlabel(i)
          PROVE  UNCHANGED policy
      BY <3>5 DEF IngestIssue, Label, Unlabel, OnlyWorld, tables, selection
    <3>6. CASE RaiseFence \/ LowerFence \/ PurgeAccount \/ Restart
      BY <3>6 DEF RaiseFence, LowerFence, PurgeAccount, Restart, tables, selection
    <3>7. CASE ListRuns \/ UNCHANGED vars
      BY <3>7 DEF ListRuns, vars, tables, selection
    <3>8. ASSUME NEW p \in Repositories, (\E q \in Policies : BeginSelect(p, q)) \/ Discover(p)
          PROVE  UNCHANGED policy
      BY <3>8 DEF BeginSelect, Discover, tables, selection
    <3> QED
      BY <3>1, <3>2, <3>3, <3>4, <3>5, <3>6, <3>7, <3>8 DEF Next
  <2> QED
    BY <2>2, <2>3, <2>4, <2>5
<1>2. labelled' \subseteq Issues /\ faults' \in 0 .. MaxFaults
  <2>1. ASSUME NEW i \in Issues, Label(i) \/ Unlabel(i) PROVE <1>2
    BY <2>1 DEF Label, Unlabel, OnlyWorld, Chosen
  <2>2. CASE UNCHANGED labelled /\ UNCHANGED faults
    BY <2>2 DEF Chosen
  <2>3. CASE UNCHANGED labelled /\ Fault
    BY <2>3, LimitsAssumption DEF Fault, Chosen
  <2>4. ASSUME NEW r \in Runs, RepairNext(r) \/ RetireStep(r) \/ RetirementFails(r)
        PROVE  UNCHANGED labelled /\ (UNCHANGED faults \/ Fault)
    <3>1. ASSUME LaunchFails(r) \/ AskFails(r) \/ RetirementFails(r)
          PROVE  UNCHANGED labelled /\ Fault
      BY <3>1 DEF LaunchFails, DropRun, AskFails, RetirementFails, world, github
    <3>2. ASSUME (\E i \in Issues : AskRepair(r, i)) \/ Claim(r) \/ RecordRun(r) \/ Launch(r)
                 \/ LaunchRefused(r) \/ DeleteBranch(r) \/ CloseFinding(r)
          PROVE  UNCHANGED <<labelled, faults>>
      BY <3>2 DEF AskRepair, Claim, RecordRun, Launch, LaunchRefused, DropRun, DeleteBranch,
                  CloseFinding, world, github
    <3> QED
      BY <2>4, <3>1, <3>2 DEF RepairNext, RepairStep, RetireStep
  <2>5. CASE SweepStep \/ SweepBlocked \/ Restart
    BY <2>2, <2>3, <2>5 DEF SweepStep, BeginSweep, SweepDiscover, SweepRepair, SweepRetire,
                            SweepBlocked, Restart, world, github
  <2>6. ASSUME NEW r \in Runs, IngestMerged(r) \/ IngestWorkflow(r) \/ Publish(r) \/ Decide(r)
                               \/ Stop(r) \/ Merge(r)
        PROVE  UNCHANGED <<labelled, faults>>
    BY <2>6 DEF IngestMerged, IngestWorkflow, Publish, Decide, Stop, Merge, OnlyWorld, world, github
  <2>7. ASSUME NEW i \in Issues, IngestIssue(i) PROVE UNCHANGED <<labelled, faults>>
    BY <2>7 DEF IngestIssue, world, github
  <2>8. CASE RaiseFence \/ LowerFence \/ PurgeAccount \/ ListRuns \/ UNCHANGED vars
    BY <2>2, <2>8 DEF RaiseFence, LowerFence, PurgeAccount, ListRuns, vars, world, github
  <2>9. ASSUME NEW p \in Repositories,
               \/ \E q \in Policies : BeginSelect(p, q)
               \/ EndSelect(p) \/ RemoveRepository(p) \/ Discover(p)
        PROVE  UNCHANGED <<labelled, faults>>
    BY <2>9 DEF BeginSelect, EndSelect, RemoveRepository, Discover, world, github
  <2> QED
    BY <2>1, <2>2, <2>3, <2>4, <2>5, <2>6, <2>7, <2>8, <2>9 DEF Next
<1> QED
  BY <1>1, <1>2 DEF Chosen

Rows == [repository : Repositories, auto : BOOLEAN]
Sweeps == [step : SweepSteps, left : Seq(Rows), candidate : Issues \cup {None}, repairs : Nat,
           run : Runs \cup {None}, toRetire : SUBSET Runs]

\* A sweep is under way as long as it has a repository left; while it asks for a
\* repair, the limit is not reached.
Sound(s) ==
  /\ s \in Sweeps /\ (s.step = "idle") = (s.left = <<>>)
  /\ s.repairs <= MaxRepairs
  /\ s.step = "repairing" \/ (s.step = "repair" /\ s.candidate \in Issues) =>
       s.repairs < MaxRepairs

LEMMA NotSweepingSound == Sound(NotSweeping)
BY NoneAssumption, LimitsAssumption DEF Sound, NotSweeping, Sweeps, SweepSteps

\* The steps of a sweep that is under way.
LEMMA NextRepositorySound ==
  ASSUME NEW s, Sound(s), s.step # "idle"
  PROVE  Sound(NextRepository(s))
<1>1. CASE Len(s.left) = 1
  BY <1>1, NotSweepingSound DEF NextRepository
<1>2. CASE Len(s.left) # 1
  <2>1. s.left \in Seq(Rows) /\ s.left # <<>> /\ s.repairs \in Nat /\ s.repairs <= MaxRepairs
    BY DEF Sound, Sweeps
  <2> DEFINE left == Tail(s.left)
  <2>2. left \in Seq(Rows) /\ Len(left) = Len(s.left) - 1
    BY <2>1, HeadTailProperties
  <2> HIDE DEF left
  <2>3. Len(s.left) \in Nat \ {0}
    BY <2>1, EmptySeq
  <2>4. Len(left) # 0
    BY <1>2, <2>2, <2>3
  <2>5. left # <<>>
    BY <2>4, EmptySeq
  <2>6. NextRepository(s) = [step |-> "discover", left |-> left, candidate |-> None,
                             repairs |-> s.repairs, run |-> None, toRetire |-> {}]
    BY <1>2 DEF NextRepository, NotSweeping, left
  <2> QED
    BY <2>1, <2>2, <2>5, <2>6 DEF Sound, Sweeps, SweepSteps
<1> QED
  BY <1>1, <1>2

LEMMA EntersRetireSound ==
  ASSUME NEW s, Sound(s), s.step # "idle"
  PROVE  Sound(EntersRetire(s))
<1> DEFINE due == {r \in Runs : QueuedIn(r, Head(s.left).repository)
                                /\ CanPublish(Head(s.left).repository)}
<1>1. due \subseteq Runs
  OBVIOUS
<1> HIDE DEF due
<1>2. EntersRetire(s) = [s EXCEPT !.step = "retire", !.run = None, !.candidate = None,
                                  !.toRetire = due]
  BY DEF EntersRetire, due
<1>3. EntersRetire(s) = [step |-> "retire", left |-> s.left, candidate |-> None,
                         repairs |-> s.repairs, run |-> None, toRetire |-> due]
  BY <1>2 DEF Sound, Sweeps
<1> QED
  BY <1>1, <1>3 DEF Sound, Sweeps, SweepSteps

LEMMA QueuedSound ==
  ASSUME NEW s, Sound(s),
         s.step = "repairing" \/ (s.step = "repair" /\ s.candidate \in Issues)
  PROVE  Sound(Queued(s))
<1> DEFINE more == [s EXCEPT !.repairs = @ + 1]
           due == {r \in Runs : QueuedIn(r, Head(more.left).repository)
                                /\ CanPublish(Head(more.left).repository)}
<1>1. s.repairs + 1 <= MaxRepairs /\ s.repairs + 1 \in Nat
  BY LimitsAssumption DEF Sound, Sweeps
<1>2. more = [step |-> s.step, left |-> s.left, candidate |-> s.candidate,
              repairs |-> s.repairs + 1, run |-> s.run, toRetire |-> s.toRetire]
  BY DEF Sound, Sweeps
<1>3. due \subseteq Runs
  OBVIOUS
<1>4. Queued(s) = [more EXCEPT !.step = "retire", !.run = None, !.candidate = None,
                               !.toRetire = due]
  BY DEF Queued, EntersRetire
<1> HIDE DEF more, due
<1>5. Queued(s) = [step |-> "retire", left |-> s.left, candidate |-> None,
                   repairs |-> s.repairs + 1, run |-> None, toRetire |-> due]
  BY <1>2, <1>4
<1> QED
  BY <1>1, <1>3, <1>5 DEF Sound, Sweeps, SweepSteps

\* The repositories of a sweep are rows of the table.
LEMMA BeginSweepSound ==
  ASSUME Types, Chosen, BeginSweep
  PROVE  Sound(sweep')
<1> DEFINE scheduled == {n \in DOMAIN byUpdate : policy[byUpdate[n]].scheduled}
           many == IF Cardinality(scheduled) < MaxScheduled THEN Cardinality(scheduled)
                   ELSE MaxScheduled
<1>1. PICK at \in Scheduled :
        /\ at # <<>>
        /\ sweep' = [NotSweeping EXCEPT
                       !.step = "discover",
                       !.left = [n \in DOMAIN at |->
                          [repository |-> byUpdate[at[n]], auto |-> policy[byUpdate[at[n]]].auto]]]
  BY DEF BeginSweep
<1>2. at \in [1 .. many -> scheduled]
  BY <1>1 DEF Scheduled
<1>3. many \in Nat
  <2>1. byUpdate \in Seq(Repositories) /\ Len(byUpdate) \in Nat /\ DOMAIN byUpdate = 1 .. Len(byUpdate)
    BY DEF Types, TableTypes
  <2>2. IsFiniteSet(DOMAIN byUpdate)
    BY <2>1, FS_Interval
  <2>3. IsFiniteSet(scheduled)
    BY <2>2, FS_Subset
  <2>4. Cardinality(scheduled) \in Nat
    BY <2>3, FS_CardinalityType
  <2> HIDE DEF scheduled
  <2> QED
    BY <2>4, LimitsAssumption
<1>4. scheduled \subseteq DOMAIN byUpdate
  OBVIOUS
<1> HIDE DEF scheduled, many
<1> DEFINE row(n) == [repository |-> byUpdate[at[n]], auto |-> policy[byUpdate[at[n]]].auto]
           left == [n \in 1 .. many |-> row(n)]
<1>5. ASSUME NEW n \in 1 .. many PROVE row(n) \in Rows
  <2>1. byUpdate[at[n]] \in Repositories
    <3>1. at[n] \in DOMAIN byUpdate
      BY <1>2, <1>4, <1>5
    <3> QED
      BY <3>1 DEF Types, TableTypes
  <2>2. policy[byUpdate[at[n]]].auto \in BOOLEAN
    BY <2>1 DEF Chosen, AllPolicies
  <2> QED
    BY <2>1, <2>2 DEF Rows
<1>6. sweep' = [NotSweeping EXCEPT !.step = "discover", !.left = left]
  BY <1>1, <1>2
<1> HIDE DEF row
<1>7. left \in Seq(Rows) /\ Len(left) = many
  BY <1>3, <1>5
<1>8. many # 0
  <2>1. ASSUME many = 0 PROVE at = <<>>
    <3>1. at \in Seq(scheduled) /\ Len(at) = 0
      BY <1>2, <2>1
    <3> QED
      BY <3>1, EmptySeq
  <2> QED
    BY <1>1, <2>1
<1>9. left # <<>>
  <2> HIDE DEF left
  <2> QED
    BY <1>7, <1>8
<1> HIDE DEF left
<1>10. sweep' = [step |-> "discover", left |-> left, candidate |-> None, repairs |-> 0,
                 run |-> None, toRetire |-> {}]
  BY <1>6 DEF NotSweeping
<1> QED
  BY <1>7, <1>9, <1>10, LimitsAssumption DEF Sound, Sweeps, SweepSteps

\* The fields that a step of the sweep changes.
LEMMA SweepFieldsSound ==
  ASSUME NEW s, Sound(s), s.step # "idle"
  PROVE  /\ \A i \in Issues \cup {None} : (i \in Issues => s.repairs < MaxRepairs) =>
              Sound([s EXCEPT !.step = "repair", !.candidate = i])
         /\ \A r \in Runs : s.repairs < MaxRepairs =>
              Sound([s EXCEPT !.step = "repairing", !.run = r])
         /\ \A r \in Runs :
              Sound([s EXCEPT !.step = "retiring", !.run = r, !.toRetire = @ \ {r}])
         /\ s.step = "retire" => \A r \in Runs : Sound([s EXCEPT !.toRetire = @ \ {r}])
         /\ Sound([s EXCEPT !.step = "retire", !.run = None])
<1>0. s \in Sweeps
  BY DEF Sound
<1>1. /\ s.left \in Seq(Rows) /\ s.left # <<>> /\ s.repairs \in Nat /\ s.repairs <= MaxRepairs
      /\ s.candidate \in Issues \cup {None} /\ s.run \in Runs \cup {None}
      /\ s.toRetire \in SUBSET Runs
  BY DEF Sound, Sweeps
<1>2. ASSUME NEW i \in Issues \cup {None}, i \in Issues => s.repairs < MaxRepairs
      PROVE  Sound([s EXCEPT !.step = "repair", !.candidate = i])
  <2> SUFFICES ASSUME NEW t, t = [s EXCEPT !.step = "repair", !.candidate = i] PROVE Sound(t)
    OBVIOUS
  <2>1. t = [step |-> "repair", left |-> s.left, candidate |-> i, repairs |-> s.repairs,
             run |-> s.run, toRetire |-> s.toRetire]
    BY <1>0 DEF Sweeps
  <2> QED
    BY <1>1, <1>2, <2>1 DEF Sound, Sweeps, SweepSteps
<1>3. ASSUME NEW r \in Runs, s.repairs < MaxRepairs
      PROVE  Sound([s EXCEPT !.step = "repairing", !.run = r])
  <2> SUFFICES ASSUME NEW t, t = [s EXCEPT !.step = "repairing", !.run = r] PROVE Sound(t)
    OBVIOUS
  <2>1. t = [step |-> "repairing", left |-> s.left, candidate |-> s.candidate,
             repairs |-> s.repairs, run |-> r, toRetire |-> s.toRetire]
    BY <1>0 DEF Sweeps
  <2> QED
    BY <1>1, <1>3, <2>1 DEF Sound, Sweeps, SweepSteps
<1>4. ASSUME NEW r \in Runs
      PROVE  Sound([s EXCEPT !.step = "retiring", !.run = r, !.toRetire = @ \ {r}])
  <2> SUFFICES ASSUME NEW t, t = [s EXCEPT !.step = "retiring", !.run = r, !.toRetire = @ \ {r}]
               PROVE  Sound(t)
    OBVIOUS
  <2>1. t = [step |-> "retiring", left |-> s.left, candidate |-> s.candidate,
             repairs |-> s.repairs, run |-> r, toRetire |-> s.toRetire \ {r}]
    BY <1>0 DEF Sweeps
  <2> QED
    BY <1>1, <2>1 DEF Sound, Sweeps, SweepSteps
<1>5. ASSUME NEW r \in Runs, s.step = "retire" PROVE Sound([s EXCEPT !.toRetire = @ \ {r}])
  <2> SUFFICES ASSUME NEW t, t = [s EXCEPT !.toRetire = @ \ {r}] PROVE Sound(t)
    OBVIOUS
  <2>1. t = [step |-> "retire", left |-> s.left, candidate |-> s.candidate,
             repairs |-> s.repairs, run |-> s.run, toRetire |-> s.toRetire \ {r}]
    BY <1>0, <1>5 DEF Sweeps
  <2> QED
    BY <1>1, <2>1 DEF Sound, Sweeps, SweepSteps
<1>6. Sound([s EXCEPT !.step = "retire", !.run = None])
  <2> SUFFICES ASSUME NEW t, t = [s EXCEPT !.step = "retire", !.run = None] PROVE Sound(t)
    OBVIOUS
  <2>1. t = [step |-> "retire", left |-> s.left, candidate |-> s.candidate,
             repairs |-> s.repairs, run |-> None, toRetire |-> s.toRetire]
    BY <1>0 DEF Sweeps
  <2> QED
    BY <1>1, <2>1 DEF Sound, Sweeps, SweepSteps
<1> QED
  BY <1>2, <1>3, <1>4, <1>5, <1>6

\* The steps of scheduledSweep().
LEMMA SweepStepSound ==
  ASSUME Types, Chosen, Sound(sweep), SweepStep \/ SweepBlocked
  PROVE  Sound(sweep')
<1>1. CASE BeginSweep
  BY <1>1, BeginSweepSound
<1>2. CASE SweepDiscover
  <2>1. sweep.step = "discover" /\ Sound(NextRepository(sweep))
    BY <1>2, NextRepositorySound DEF SweepDiscover
  <2>2. CASE sweep' = NextRepository(sweep)
    BY <2>1, <2>2
  <2>3. CASE sweep' # NextRepository(sweep)
    <3> DEFINE open == {i \in IssuesOf(Here) : Discovered(Here)[i].state = "OPEN"}
    <3>1. PICK i \in IF MayRepair /\ open # {} THEN open ELSE {None} :
            sweep' = [sweep EXCEPT !.step = "repair", !.candidate = i]
      BY <1>2, <2>3 DEF SweepDiscover
    <3>2. i \in Issues \cup {None} /\ (i \in Issues => sweep.repairs < MaxRepairs)
      BY <3>1, NoneAssumption DEF IssuesOf, MayRepair
    <3> QED
      BY <2>1, <3>1, <3>2, SweepFieldsSound
  <2> QED
    BY <2>2, <2>3
<1>3. CASE SweepBlocked
  BY <1>3, NextRepositorySound DEF SweepBlocked
<1>4. CASE SweepRepair
  <2>1. sweep.step = "repair"
    BY <1>4 DEF SweepRepair
  <2>2. sweep.candidate \in Issues => sweep.repairs < MaxRepairs
    BY <2>1 DEF Sound
  <2>3. \/ sweep' = EntersRetire(sweep)
        \/ sweep.candidate \in Issues /\ sweep' = Queued(sweep)
        \/ sweep' = NextRepository(sweep)
        \/ /\ sweep.candidate \in Issues
           /\ \E r \in Runs : sweep' = [sweep EXCEPT !.step = "repairing", !.run = r]
    BY <1>4 DEF SweepRepair, Unused
  <2>4. Sound(EntersRetire(sweep)) /\ Sound(NextRepository(sweep))
    BY <2>1, EntersRetireSound, NextRepositorySound
  <2>5. sweep.candidate \in Issues => Sound(Queued(sweep))
    BY <2>1, QueuedSound
  <2>6. sweep.candidate \in Issues =>
          \A r \in Runs : Sound([sweep EXCEPT !.step = "repairing", !.run = r])
    BY <2>1, <2>2, SweepFieldsSound
  <2> QED
    BY <2>3, <2>4, <2>5, <2>6
<1>5. CASE SweepRetire
  <2>1. sweep.step = "retire" /\ sweep.toRetire \subseteq Runs
    BY <1>5 DEF SweepRetire, Sound, Sweeps
  <2>2. \/ sweep' = NextRepository(sweep)
        \/ \E r \in sweep.toRetire :
             \/ sweep' = [sweep EXCEPT !.step = "retiring", !.run = r, !.toRetire = @ \ {r}]
             \/ sweep' = [sweep EXCEPT !.toRetire = @ \ {r}]
    BY <1>5 DEF SweepRetire
  <2>3. Sound(NextRepository(sweep))
    BY <2>1, NextRepositorySound
  <2>4. \A r \in Runs :
          /\ Sound([sweep EXCEPT !.step = "retiring", !.run = r, !.toRetire = @ \ {r}])
          /\ Sound([sweep EXCEPT !.toRetire = @ \ {r}])
    BY <2>1, SweepFieldsSound
  <2> QED
    BY <2>1, <2>2, <2>3, <2>4
<1> QED
  BY <1>1, <1>2, <1>3, <1>4, <1>5 DEF SweepStep

\* A repair or a retirement returns to the sweep that waits for it, or to nobody.
LEMMA ReturnsSound ==
  ASSUME Sound(sweep), NEW r \in Runs,
         RepairReturns(r) \/ RepairThrows(r) \/ RetirementReturns(r)
  PROVE  Sound(sweep')
<1>1. CASE UNCHANGED sweep
  BY <1>1
<1>2. CASE RepairReturns(r) /\ IsSweeps(r)
  BY <1>2, QueuedSound DEF RepairReturns, IsSweeps
<1>3. CASE RepairThrows(r) /\ IsSweeps(r)
  BY <1>3, NextRepositorySound DEF RepairThrows, IsSweeps
<1>4. CASE sweep.step = "retiring" /\ sweep' = [sweep EXCEPT !.step = "retire", !.run = None]
  BY <1>4, SweepFieldsSound
<1> QED
  BY <1>1, <1>2, <1>3, <1>4 DEF RepairReturns, RepairThrows, RetirementReturns

\* No other step is one of the sweep's.
LEMMA SoundStep == Inv /\ Chosen /\ Sound(sweep) /\ [Next]_vars => Sound(sweep')
<1> SUFFICES ASSUME Inv, Chosen, Sound(sweep), [Next]_vars PROVE Sound(sweep')
  OBVIOUS
<1>1. CASE UNCHANGED sweep
  BY <1>1
<1>2. CASE SweepStep \/ SweepBlocked
  BY <1>2, SweepStepSound DEF Inv
<1>3. CASE Restart
  BY <1>3, NotSweepingSound DEF Restart
<1>4. ASSUME NEW r \in Runs, RepairNext(r) PROVE Sound(sweep')
  <2>1. UNCHANGED sweep \/ RepairReturns(r) \/ RepairThrows(r)
    BY <1>4 DEF RepairNext, AskRepair, RepairStep, Claim, RecordRun, Launch, LaunchRefused,
                LaunchFails, DropRun, AskFails
  <2> QED
    BY <1>1, <2>1, ReturnsSound
<1>5. ASSUME NEW r \in Runs, RetireStep(r) \/ RetirementFails(r) PROVE Sound(sweep')
  <2>1. UNCHANGED sweep \/ RetirementReturns(r)
    BY <1>5 DEF RetireStep, DeleteBranch, CloseFinding, RetirementFails
  <2> QED
    BY <1>1, <2>1, ReturnsSound
<1>6. ASSUME NEW p \in Repositories,
             \/ \E q \in Policies : BeginSelect(p, q)
             \/ EndSelect(p) \/ RemoveRepository(p) \/ Discover(p)
      PROVE  UNCHANGED sweep
  BY <1>6 DEF BeginSelect, EndSelect, RemoveRepository, Discover, handlers
<1>7. ASSUME NEW r \in Runs,
             IngestMerged(r) \/ IngestWorkflow(r) \/ Publish(r) \/ Decide(r) \/ Stop(r) \/ Merge(r)
      PROVE  UNCHANGED sweep
  BY <1>7 DEF IngestMerged, IngestWorkflow, Publish, Decide, Stop, Merge, OnlyWorld, handlers
<1>8. ASSUME NEW i \in Issues, IngestIssue(i) \/ Label(i) \/ Unlabel(i) PROVE UNCHANGED sweep
  BY <1>8 DEF IngestIssue, Label, Unlabel, OnlyWorld, handlers
<1>9. CASE ListRuns \/ RaiseFence \/ LowerFence \/ PurgeAccount \/ UNCHANGED vars
  BY <1>1, <1>9 DEF ListRuns, RaiseFence, LowerFence, PurgeAccount, vars, handlers
<1> QED
  BY <1>1, <1>2, <1>3, <1>4, <1>5, <1>6, <1>7, <1>8, <1>9 DEF Next

AllTypes == Inv /\ Bounded /\ Chosen /\ Sound(sweep)

\* Whatever is interleaved, everything in the registry has its type; the
\* sweep is under way exactly as long as it has a repository left.
THEOREM TypeCorrect == Spec => []TypeOK
<1>1. Init => AllTypes
  <2> SUFFICES ASSUME Init PROVE AllTypes
    OBVIOUS
  <2>1. NotSelected \in AllPolicies
    BY DEF NotSelected, AllPolicies
  <2>2. Bounded
    BY GenerationsAssumption DEF Init, Bounded, NoLock, NotSelecting, NoRepair
  <2>3. Chosen
    BY <2>1, LimitsAssumption DEF Init, Chosen
  <2>4. Sound(sweep)
    BY NotSweepingSound DEF Init
  <2> QED
    BY <2>2, <2>3, <2>4, InvInit DEF AllTypes
<1>2. AllTypes /\ [Next]_vars => AllTypes'
  BY InvStep, BoundedStep, ChosenStep, SoundStep DEF AllTypes
<1>3. AllTypes => TypeOK
  <2> SUFFICES ASSUME AllTypes PROVE TypeOK
    OBVIOUS
  <2>1. lock \in Locks /\ purged \in 0 .. MaxGenerations
    BY GenerationsAssumption DEF AllTypes, Inv, Types, TableTypes, Bounded
  <2>2. selectedUnder \in [Repositories -> 0 .. MaxGenerations]
    BY GenerationsAssumption DEF AllTypes, Inv, Types, TableTypes, Bounded
  <2>3. selecting \in [Repositories -> [busy : BOOLEAN, policy : AllPolicies,
                                        generation : 0 .. MaxGenerations]]
    BY GenerationsAssumption DEF AllTypes, Inv, Types, TableTypes, Bounded
  <2>4. repair \in [Runs -> [step : RepairSteps, issue : Issues \cup {None},
                             generation : 0 .. MaxGenerations]]
    BY GenerationsAssumption DEF AllTypes, Inv, Types, RunTypes, Repairs, Bounded
  <2>5. /\ sweep \in [step : SweepSteps, left : Seq([repository : Repositories, auto : BOOLEAN]),
                      candidate : Issues \cup {None}, repairs : 0 .. MaxRepairs,
                      run : Runs \cup {None}, toRetire : SUBSET Runs]
        /\ (sweep.step = "idle") = (sweep.left = <<>>)
    BY LimitsAssumption DEF AllTypes, Sound, Sweeps, Rows
  <2> QED
    BY <2>1, <2>2, <2>3, <2>4, <2>5
       DEF AllTypes, Inv, Types, TableTypes, RunTypes, RunStates, Findings, FindingStates, Chosen,
           TypeOK
<1> QED
  BY <1>1, <1>2, <1>3, PTL DEF Spec

=============================================================================
