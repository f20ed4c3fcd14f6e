------------------------ MODULE AccountDeletionProofs ------------------------
(* Theorems about AccountDeletion, for any number of runs, of requests and of *)
(* deletions that overlap.                                                    *)
EXTENDS AccountDeletion, CredentialVaultProofs

-----------------------------------------------------------------------------
(* The vault among its callers is CredentialVault: every step of the system is *)
(* a call of the vault, or leaves it alone.                                    *)

\* A request to connect a key carries a generation that the vault has had.
StoresKnown ==
  store \in [Stores -> [step : StoreSteps, registry : Nat, vault : 0 .. MaxGenerations]]

FenceType ==
  /\ vaultLock \in Locks /\ vaultLock.generation <= MaxGenerations
  /\ registryLock \in Locks
  /\ StoresKnown

\* Requests and runs reach the vault through the lease only.
LEMMA RunCallsVault ==
  ASSUME NEW r \in Runs, RequestNext(r) \/ RunNext(r)
  PROVE  [VaultNext]_vaultVars /\ UNCHANGED <<vaultLock, store, registryLock>>
<1>1. CASE RequestNext(r)
  BY <1>1 DEF RequestNext, Admit, RefuseRecord, RecordRun, Create, Recheck, StartCreated,
         StartRun, LeaveReceived, CallFails, PurgeFailed, AskToStart, StartAsked,
         DeleteObjective, RemoveRun, RequestDies, registry, vaultVars, vault
<1>2. CASE Cancel(r)
  <2>1. CancelLease(r)
    BY <1>2 DEF Cancel
  <2> QED
    BY <1>2, <2>1 DEF Cancel, CancelLease, Lease, VaultNext, registry
<1>3. CASE Cancelled(r) \/ AlarmRefused(r) \/ MoveOn(r) \/ Recover(r)
  BY <1>3 DEF Cancelled, AlarmRefused, MoveOn, Recover, OnlyRun, registry, vaultVars, vault
<1>4. CASE Alarm(r)
  <2>1. BeginAcquire(r)
    BY <1>4 DEF Alarm
  <2> QED
    BY <1>4, <2>1 DEF Alarm, OnlyRun, BeginAcquire, vault, VaultNext, registry
<1>5. CASE Acquired(r) \/ AcquireRefused(r)
  <2>1. GrantLease(r) \/ DenyLease(r)
    BY <1>5 DEF Acquired, AcquireRefused
  <2> QED
    BY <1>5, <2>1
       DEF Acquired, AcquireRefused, OnlyRun, GrantLease, DenyLease, Lease, VaultNext, registry
<1>6. CASE Finish(r) \/ Keep(r)
  <2>1. EndExecution(r) \/ KeepLease(r)
    BY <1>6 DEF Finish, Keep
  <2> QED
    BY <1>6, <2>1
       DEF Finish, Keep, OnlyRun, EndExecution, KeepLease, vault, VaultNext, registry
<1>7. CASE Return(r)
  <2>1. ReturnLease(r)
    BY <1>7 DEF Return
  <2> QED
    BY <1>7, <2>1 DEF Return, OnlyRun, ReturnLease, Lease, VaultNext, registry
<1> QED
  BY <1>1, <1>2, <1>3, <1>4, <1>5, <1>6, <1>7 DEF RunNext

\* A request to connect a key seals it for the generation it was told.
LEMMA StoreCallsVault ==
  ASSUME FenceType, NEW s \in Stores, StoreNext(s)
  PROVE  [VaultNext]_vaultVars /\ FenceType'
<1> USE DEF FenceType, StoresKnown
<1>1. CASE AskRegistry(s) \/ AskVault(s) \/ AskRegistryAgain(s)
  <2>1. UNCHANGED <<vaultVars, vaultLock, registryLock>>
    BY <1>1 DEF AskRegistry, AskVault, AskRegistryAgain, registry, vaultVars, vault
  <2>2. StoresKnown'
    <3>1. CASE AskRegistry(s)
      BY <3>1 DEF AskRegistry, Locks, StoreSteps
    <3>2. CASE AskVault(s)
      <4>1. vaultLock.generation \in 0 .. MaxGenerations
        BY GenerationsAssumption DEF Locks
      <4>2. NoStore \in [step : StoreSteps, registry : Nat, vault : 0 .. MaxGenerations]
        BY GenerationsAssumption DEF NoStore, StoreSteps
      <4> QED
        BY <3>2, <4>1, <4>2 DEF AskVault, StoreSteps
    <3>3. CASE AskRegistryAgain(s)
      <4>1. NoStore \in [step : StoreSteps, registry : Nat, vault : 0 .. MaxGenerations]
        BY GenerationsAssumption DEF NoStore, StoreSteps
      <4> QED
        BY <3>3, <4>1 DEF AskRegistryAgain, StoreSteps
    <3> QED
      BY <1>1, <3>1, <3>2, <3>3
  <2> QED
    BY <2>1, <2>2
<1>2. CASE BeginStore(s) \/ EndStore(s)
  <2>1. /\ store[s].vault \in 0 .. MaxGenerations
        /\ \/ BeginStoreCredential(s, store[s].vault)
           \/ EndStoreCredential(s, store[s].vault)
           \/ UNCHANGED vaultVars
    BY <1>2 DEF BeginStore, EndStore
  <2>2. UNCHANGED <<vaultLock, registryLock>>
    BY <1>2, <2>1 DEF BeginStore, EndStore, BeginStoreCredential, EndStoreCredential,
                 vaultVars, vault, registry
  <2>3. StoresKnown'
    <3>1. NoStore \in [step : StoreSteps, registry : Nat, vault : 0 .. MaxGenerations]
      BY GenerationsAssumption DEF NoStore, StoreSteps
    <3> QED
      BY <1>2, <3>1 DEF BeginStore, EndStore, StoreSteps
  <2> QED
    BY <2>1, <2>2, <2>3 DEF VaultNext
<1> QED
  BY <1>1, <1>2 DEF StoreNext

\* A deletion locks, reads, unlocks and purges the vault.
LEMMA DeletionCallsVault ==
  ASSUME FenceType, NEW d \in Deletions, DeletionNext(d)
  PROVE  [VaultNext]_vaultVars /\ FenceType'
<1> USE DEF FenceType, StoresKnown
<1>1. UNCHANGED store
  BY DEF DeletionNext, At, LockRegistry, LockVaultToo, ListRuns, ReadLease, ViewRun, PurgeRun,
         UnlockVaultFirst, UnlockRegistry, PurgeVaultNext, PurgeRegistry, DeletionDies
<1>2. CASE LockRegistry(d) \/ UnlockRegistry(d) \/ PurgeRegistry(d)
  <2>1. UNCHANGED vaultVars /\ vaultLock' = vaultLock
    BY <1>2 DEF LockRegistry, UnlockRegistry, PurgeRegistry, vaultVars, vault
  <2>2. registryLock' \in {registryLock, BeginDeletion(registryLock), EndDeletion(registryLock)}
    BY <1>2 DEF LockRegistry, UnlockRegistry, PurgeRegistry, registry
  <2>3. registryLock' \in Locks
    <3>1. BeginDeletion(registryLock) \in Locks
      BY DEF BeginDeletion, Locks
    <3>2. EndDeletion(registryLock) \in Locks
      BY DEF EndDeletion, Locks
    <3> QED
      BY <2>2, <3>1, <3>2
  <2> QED
    BY <1>1, <2>1, <2>3
<1>3. CASE \/ ListRuns(d) \/ ReadLease(d) \/ DeletionDies(d)
           \/ \E r \in Runs : ViewRun(d, r) \/ PurgeRun(d, r)
  BY <1>1, <1>3 DEF ListRuns, ReadLease, DeletionDies, ViewRun, PurgeRun, registry,
               vaultVars, vault
<1>4. CASE LockVaultToo(d)
  <2>1. LockVault /\ UNCHANGED registryLock
    BY <1>4 DEF LockVaultToo, registry
  <2>2. vaultLock' \in Locks /\ vaultLock'.generation <= MaxGenerations
    BY <2>1, GenerationsAssumption DEF LockVault, BeginDeletion, Locks
  <2> QED
    BY <1>1, <2>1, <2>2 DEF VaultNext
<1>5. CASE UnlockVaultFirst(d)
  <2>1. UnlockVault /\ UNCHANGED registryLock
    BY <1>5 DEF UnlockVaultFirst, registry
  <2>2. vaultLock' \in Locks /\ vaultLock'.generation <= MaxGenerations
    BY <2>1 DEF UnlockVault, EndDeletion, Locks
  <2> QED
    BY <1>1, <2>1, <2>2 DEF VaultNext
<1>6. CASE PurgeVaultNext(d)
  <2>1. (PurgeVault \/ RefusePurge) /\ UNCHANGED registryLock
    BY <1>6 DEF PurgeVaultNext, registry
  <2>2. vaultLock' \in Locks /\ vaultLock'.generation <= MaxGenerations
    BY <2>1 DEF PurgeVault, RefusePurge, Lease, EndDeletion, Locks
  <2> QED
    BY <1>1, <2>1, <2>2 DEF VaultNext
<1> QED
  BY <1>2, <1>3, <1>4, <1>5, <1>6 DEF DeletionNext

\* What VaultCalled needs holds at the start.
LEMMA FenceInit == Init => FenceType
<1>1. NoStore \in [step : StoreSteps, registry : Nat, vault : 0 .. MaxGenerations]
  BY GenerationsAssumption DEF NoStore, StoreSteps
<1>2. NoLock \in Locks /\ NoLock.generation <= MaxGenerations
  BY GenerationsAssumption DEF NoLock, Locks
<1> QED
  BY <1>1, <1>2 DEF Init, VaultInit, FenceType, StoresKnown

\* Every step of the system is one of the vault, or none.
LEMMA VaultCalled == FenceType /\ [Next]_vars => FenceType' /\ [VaultNext]_vaultVars
<1> SUFFICES ASSUME FenceType, [Next]_vars PROVE FenceType' /\ [VaultNext]_vaultVars
  OBVIOUS
<1>1. ASSUME NEW r \in Runs, RequestNext(r) \/ RunNext(r)
      PROVE  FenceType' /\ [VaultNext]_vaultVars
  BY <1>1, RunCallsVault DEF FenceType, StoresKnown
<1>2. ASSUME NEW s \in Stores, StoreNext(s) PROVE FenceType' /\ [VaultNext]_vaultVars
  BY <1>2, StoreCallsVault
<1>3. ASSUME NEW d \in Deletions, DeletionNext(d) PROVE FenceType' /\ [VaultNext]_vaultVars
  BY <1>3, DeletionCallsVault
<1>4. CASE VaultOnly
  <2>1. (Disconnect \/ Midnight \/ LeaseLapses) /\ UNCHANGED <<registry, store>>
    BY <1>4 DEF VaultOnly
  <2> QED
    BY <2>1 DEF Disconnect, Midnight, LeaseLapses, Lease, VaultNext, FenceType,
           StoresKnown, registry
<1>5. CASE UNCHANGED vars
  BY <1>5 DEF vars, vaultVars, vault, registry, FenceType, StoresKnown
<1> QED
  BY <1>1, <1>2, <1>3, <1>4, <1>5 DEF Next

\* Account deletion, runs and requests use the vault as CredentialVault says, so
\* what its theorems say holds here too.
THEOREM ImplementsVault == Spec => VaultSpec
<1>1. Init => VaultInit
  BY DEF Init
<1> QED
  BY <1>1, FenceInit, VaultCalled, PTL DEF Spec, VaultSpec

\* No key of a request from before a deletion is stored after its purge.
THEOREM AccountKeysFenced == Spec => []StaleKeyFenced
BY ImplementsVault, StaleKeysFenced, PTL

-----------------------------------------------------------------------------
(* The index. *)

\* What StaleRequestsFenced needs to be inductive: no request was admitted ahead
\* of the registry's generation, and a deletion that completed is one of its own.
IndexInv ==
  /\ registryLock \in Locks
  /\ registryPurged \in Nat /\ registryPurged <= registryLock.generation
  /\ admitted \in [Runs -> Nat]
  /\ \A r \in Runs : admitted[r] <= registryLock.generation
  /\ index \subseteq Runs
  /\ StaleRequestsFenced

\* No run is indexed, and no deletion has begun.
LEMMA IndexInit == Init => IndexInv
<1>1. NoLock \in Locks /\ NoLock.generation = 0 /\ ~NoLock.deleting
  BY DEF NoLock, Locks
<1> QED
  BY <1>1 DEF Init, IndexInv, StaleRequestsFenced

\* Admission, the index and the fence change in six steps.
LEMMA IndexStep == IndexInv /\ [Next]_vars => IndexInv'
<1> SUFFICES ASSUME IndexInv, [Next]_vars PROVE IndexInv'
  OBVIOUS
<1> USE DEF IndexInv, StaleRequestsFenced
<1>u. ASSUME UNCHANGED <<registry, admitted>> PROVE IndexInv'
  BY <1>u DEF registry
<1>1. ASSUME NEW r \in Runs, Admit(r) PROVE IndexInv'
  <2>1. admitted' = [admitted EXCEPT ![r] = registryLock.generation]
        /\ ~registryLock.deleting /\ UNCHANGED <<registryLock, index, registryPurged>>
    BY <1>1 DEF Admit, Writable, registry
  <2> QED
    BY <2>1 DEF Locks
<1>2. ASSUME NEW r \in Runs, RecordRun(r) PROVE IndexInv'
  BY <1>2 DEF RecordRun, Admits, Writable, Locks
<1>3. ASSUME NEW r \in Runs, RemoveRun(r) PROVE IndexInv'
  BY <1>3 DEF RemoveRun
<1>4. ASSUME NEW r \in Runs, RequestNext(r), ~Admit(r), ~RecordRun(r), ~RemoveRun(r)
      PROVE IndexInv'
  <2>1. UNCHANGED <<registry, admitted>>
    BY <1>4 DEF RequestNext, RefuseRecord, Create, Recheck, StartCreated, StartRun,
           LeaveReceived, CallFails, PurgeFailed, AskToStart, StartAsked,
           DeleteObjective, RequestDies
  <2> QED
    BY <2>1, <1>u
<1>5. ASSUME NEW r \in Runs, RunNext(r) PROVE IndexInv'
  <2>1. UNCHANGED <<registry, admitted>>
    BY <1>5 DEF RunNext, Cancel, Cancelled, Alarm, AlarmRefused, Acquired, AcquireRefused,
           MoveOn, Finish, Return, Keep, Recover, OnlyRun, requests
  <2> QED
    BY <2>1, <1>u
<1>6. ASSUME NEW s \in Stores, StoreNext(s) PROVE IndexInv'
  <2>1. UNCHANGED <<registry, admitted>>
    BY <1>6 DEF StoreNext, AskRegistry, AskVault, AskRegistryAgain, BeginStore, EndStore,
           requests
  <2> QED
    BY <2>1, <1>u
<1>7. ASSUME NEW d \in Deletions, LockRegistry(d) PROVE IndexInv'
  BY <1>7 DEF LockRegistry, At, requests, BeginDeletion, Locks
<1>8. ASSUME NEW d \in Deletions, UnlockRegistry(d) \/ PurgeRegistry(d) PROVE IndexInv'
  <2>1. /\ UNCHANGED admitted
        /\ registryLock' \in {registryLock, EndDeletion(registryLock)}
        /\ \/ UNCHANGED <<index, registryPurged>>
           \/ index' = {} /\ registryPurged' = registryLock.generation
    BY <1>8 DEF UnlockRegistry, PurgeRegistry, At, requests, registry
  <2>2. /\ registryLock' \in Locks
        /\ registryLock'.generation = registryLock.generation
        /\ registryLock'.deleting => registryLock.deleting
    BY <2>1 DEF EndDeletion, Locks
  <2>3. registryLock.generation \in Nat
    BY DEF Locks
  <2> QED
    BY <2>1, <2>2, <2>3
<1>9. ASSUME NEW d \in Deletions, DeletionNext(d),
             ~LockRegistry(d), ~UnlockRegistry(d), ~PurgeRegistry(d)
      PROVE IndexInv'
  <2>1. UNCHANGED <<registry, admitted>>
    BY <1>9 DEF DeletionNext, At, LockVaultToo, ListRuns, ReadLease, ViewRun, PurgeRun,
           UnlockVaultFirst, PurgeVaultNext, DeletionDies, requests
  <2> QED
    BY <2>1, <1>u
<1>10. CASE VaultOnly \/ UNCHANGED vars
  <2>1. UNCHANGED <<registry, admitted>>
    BY <1>10 DEF VaultOnly, vars, requests
  <2> QED
    BY <2>1, <1>u
<1> QED
  BY <1>1, <1>2, <1>3, <1>4, <1>5, <1>6, <1>7, <1>8, <1>9, <1>10 DEF Next

\* A run that is indexed after a deletion was admitted after it.
THEOREM IndexFenced == Spec => []StaleRequestsFenced
<1>1. IndexInv => StaleRequestsFenced
  BY DEF IndexInv
<1> QED
  BY <1>1, IndexInit, IndexStep, PTL DEF Spec

-----------------------------------------------------------------------------
(* Types. *)

DeletionRows ==
  [step : DeletionSteps, toView : SUBSET Runs, active : BOOLEAN, toPurge : SUBSET Runs]

\* What the theorems above have not typed yet: runs, requests and deletions.
WorkTypes ==
  /\ runState \in [Runs -> RunStates]
  /\ cancelling \in [Runs -> BOOLEAN]
  /\ createdUnder \in [Runs -> Nat]
  /\ request \in [Runs -> RequestSteps]
  /\ deletion \in [Deletions -> DeletionRows]

Types == FenceType /\ IndexInv /\ WorkTypes

\* An idle deletion is typed, and so is one at the start of any of its steps.
LEMMA NoDeletionType ==
  /\ NoDeletion \in DeletionRows
  /\ \A step \in DeletionSteps : [NoDeletion EXCEPT !.step = step] \in DeletionRows
BY DEF NoDeletion, DeletionRows, DeletionSteps

\* A request moves its own step and its run.
LEMMA RequestTypes ==
  ASSUME WorkTypes, registryLock \in Locks, NEW r \in Runs, RequestNext(r)
  PROVE  WorkTypes'
<1>1. UNCHANGED <<cancelling, deletion>>
  BY DEF RequestNext, Admit, RefuseRecord, RecordRun, Create, Recheck, StartCreated, StartRun,
         LeaveReceived, CallFails, PurgeFailed, AskToStart, StartAsked, DeleteObjective,
         RemoveRun, RequestDies, runs
<1>2. request' \in [Runs -> RequestSteps]
  <2>1. \E to \in RequestSteps : request' = [request EXCEPT ![r] = to]
    BY DEF RequestNext, Admit, RefuseRecord, RecordRun, Create, Recheck, StartCreated,
           LeaveReceived, CallFails, PurgeFailed, AskToStart, StartAsked, DeleteObjective,
           RemoveRun, RequestDies, RequestSteps, Step
  <2> QED
    BY <2>1 DEF WorkTypes
<1>3. runState' \in [Runs -> RunStates]
  <2>1. ASSUME NEW state \in RunStates, SetRun(r, state) PROVE runState' \in [Runs -> RunStates]
    BY <2>1 DEF SetRun, WorkTypes
  <2>2. runState[r] \in RunStates /\ {"MISSING", "RECEIVED", "QUEUED"} \subseteq RunStates
    BY DEF WorkTypes, RunStates
  <2>3. UNCHANGED runState \/ \E state \in RunStates : SetRun(r, state)
    BY <2>2 DEF RequestNext, Admit, RefuseRecord, RecordRun, Create, Recheck, StartCreated,
           StartRun, LeaveReceived, CallFails, PurgeFailed, AskToStart, StartAsked,
           DeleteObjective, RemoveRun, RequestDies, runs
  <2> QED
    BY <2>1, <2>3 DEF WorkTypes
<1>4. createdUnder' \in [Runs -> Nat]
  <2>1. UNCHANGED createdUnder \/ Create(r)
    BY DEF RequestNext, Admit, RefuseRecord, RecordRun, Recheck, StartCreated, StartRun,
           LeaveReceived, CallFails, PurgeFailed, AskToStart, StartAsked, DeleteObjective,
           RemoveRun, RequestDies, runs
  <2> QED
    BY <2>1 DEF Create, WorkTypes, Locks
<1> QED
  BY <1>1, <1>2, <1>3, <1>4 DEF WorkTypes

\* A run's handler and its cancellation write the run.
LEMMA RunTypes == ASSUME WorkTypes, NEW r \in Runs, RunNext(r) PROVE WorkTypes'
<1>1. UNCHANGED <<createdUnder, request, deletion>>
  BY DEF RunNext, Cancel, Cancelled, Alarm, AlarmRefused, Acquired, AcquireRefused, MoveOn,
         Finish, Return, Keep, Recover, OnlyRun, requests
<1>2. runState' \in [Runs -> RunStates]
  <2>1. ASSUME NEW state \in RunStates, SetRun(r, state) PROVE runState' \in [Runs -> RunStates]
    BY <2>1 DEF SetRun, WorkTypes
  <2>2. runState[r] \in RunStates /\ {"MISSING", "RESTING", "EXECUTING"} \subseteq RunStates
    BY DEF WorkTypes, RunStates
  <2>3. UNCHANGED runState \/ \E state \in RunStates : SetRun(r, state)
    BY <2>2 DEF RunNext, Cancel, Cancelled, Alarm, AlarmRefused, Acquired, AcquireRefused,
           MoveOn, Finish, Return, Keep, Recover, Rest
  <2> QED
    BY <2>1, <2>3 DEF WorkTypes
<1>3. cancelling' \in [Runs -> BOOLEAN]
  <2>1. \/ UNCHANGED cancelling
        \/ \E busy \in BOOLEAN : cancelling' = [cancelling EXCEPT ![r] = busy]
    BY DEF RunNext, Cancel, Cancelled, Alarm, AlarmRefused, Acquired, AcquireRefused, MoveOn,
           Finish, Return, Keep, Recover, OnlyRun
  <2> QED
    BY <2>1 DEF WorkTypes
<1> QED
  BY <1>1, <1>2, <1>3 DEF WorkTypes

\* A deletion writes its own row and the runs it purges.
LEMMA DeletionTypes ==
  ASSUME WorkTypes, index \subseteq Runs, NEW d \in Deletions, DeletionNext(d)
  PROVE  WorkTypes'
<1>1. UNCHANGED <<cancelling, createdUnder, request>>
  BY DEF DeletionNext, At, LockRegistry, LockVaultToo, ListRuns, ReadLease, ViewRun, PurgeRun,
         UnlockVaultFirst, UnlockRegistry, PurgeVaultNext, PurgeRegistry, DeletionDies, requests
<1>2. deletion[d] \in DeletionRows
  BY DEF WorkTypes
<1>3. runState' \in [Runs -> RunStates]
  <2>1. UNCHANGED runState \/ \E r \in Runs : SetRun(r, "MISSING")
    BY DEF DeletionNext, LockRegistry, LockVaultToo, ListRuns, ReadLease, ViewRun, PurgeRun,
           UnlockVaultFirst, UnlockRegistry, PurgeVaultNext, PurgeRegistry, DeletionDies
  <2> QED
    BY <2>1 DEF SetRun, WorkTypes, RunStates
<1>4. deletion' \in [Deletions -> DeletionRows]
  <2>1. ASSUME NEW row \in DeletionRows, Become(d, row) PROVE deletion' \in [Deletions -> DeletionRows]
    BY <2>1 DEF Become, WorkTypes
  <2>2. CASE LockRegistry(d) \/ LockVaultToo(d) \/ UnlockVaultFirst(d) \/ UnlockRegistry(d)
             \/ PurgeVaultNext(d) \/ PurgeRegistry(d) \/ DeletionDies(d)
    BY <2>1, <2>2, NoDeletionType DEF LockRegistry, LockVaultToo, UnlockVaultFirst, UnlockRegistry,
       PurgeVaultNext, PurgeRegistry, DeletionDies, GiveUp, DeletionSteps
  <2>3. CASE ListRuns(d)
    <3>1. [NoDeletion EXCEPT !.step = "lease", !.toView = index] \in DeletionRows
      BY DEF NoDeletion, DeletionRows, DeletionSteps
    <3> QED
      BY <2>1, <2>3, <3>1, NoDeletionType DEF ListRuns, GiveUp
  <2>4. CASE ReadLease(d)
    <3>1. [deletion[d] EXCEPT !.step = "view", !.active = ReportsActiveRun] \in DeletionRows
      BY <1>2 DEF DeletionRows, DeletionSteps, ReportsActiveRun
    <3> QED
      BY <2>1, <2>4, <3>1 DEF ReadLease
  <2>5. ASSUME NEW r \in Runs, ViewRun(d, r) PROVE deletion' \in [Deletions -> DeletionRows]
    <3>1. [deletion[d] EXCEPT !.toView = @ \ {r},
                              !.active = @ \/ (Exists(r) /\ ~Deletable(r)),
                              !.toPurge = IF Exists(r) THEN @ \cup {r} ELSE @] \in DeletionRows
      BY <1>2 DEF DeletionRows
    <3> QED
      BY <2>1, <2>5, <3>1 DEF ViewRun
  <2>6. ASSUME NEW r \in Runs, PurgeRun(d, r) PROVE deletion' \in [Deletions -> DeletionRows]
    <3>1. [deletion[d] EXCEPT !.toPurge = @ \ {r}] \in DeletionRows
      BY <1>2 DEF DeletionRows
    <3> QED
      BY <2>1, <2>6, <3>1, NoDeletionType DEF PurgeRun, GiveUp
  <2> QED
    BY <2>2, <2>3, <2>4, <2>5, <2>6 DEF DeletionNext
<1> QED
  BY <1>1, <1>3, <1>4 DEF WorkTypes

\* The initial states are typed.
LEMMA TypesInit == Init => Types
<1>1. Init => WorkTypes
  BY NoDeletionType DEF Init, WorkTypes, RunStates, RequestSteps
<1> QED
  BY <1>1, FenceInit, IndexInit DEF Types

\* Every step keeps the types.
LEMMA TypesStep == Types /\ [Next]_vars => Types'
<1>1. SUFFICES ASSUME Types, [Next]_vars PROVE WorkTypes'
  BY VaultCalled, IndexStep DEF Types
<1>2. WorkTypes /\ registryLock \in Locks /\ index \subseteq Runs
  BY <1>1 DEF Types, IndexInv
<1>3. ASSUME UNCHANGED <<runs, request, deletion>> PROVE WorkTypes'
  BY <1>2, <1>3 DEF WorkTypes, runs
<1>4. ASSUME NEW s \in Stores, StoreNext(s) PROVE WorkTypes'
  BY <1>3, <1>4 DEF StoreNext, AskRegistry, AskVault, AskRegistryAgain, BeginStore, EndStore,
     requests
<1>5. CASE VaultOnly \/ UNCHANGED vars
  BY <1>3, <1>5 DEF VaultOnly, vars, requests
<1> QED
  BY <1>1, <1>2, <1>4, <1>5, RequestTypes, RunTypes, DeletionTypes DEF Next

\* Every variable of the account has its type, the vault's among its callers too.
THEOREM AccountTypeCorrect == Spec => []TypeOK
<1>1. Types /\ VaultTypeOK => TypeOK
  BY DEF Types, FenceType, StoresKnown, IndexInv, WorkTypes, DeletionRows, TypeOK
<1>2. Spec => []VaultTypeOK
  BY ImplementsVault, VaultTypeCorrect, PTL
<1> QED
  BY <1>1, <1>2, TypesInit, TypesStep, PTL DEF Spec

-----------------------------------------------------------------------------
(* A deletion that is not overlapped by another is complete.                   *)

\* What the slots of Deletions stand for, when deletions do not overlap.
OneAtATime == \A d, e \in Deletions : d = e

\* While a deletion goes on the registry is locked, and until it lets go of the
\* vault the vault is.
LocksHeld(d) ==
  /\ deletion[d].step # "idle" => registryLock.deleting
  /\ deletion[d].step \in {"list", "lease", "view"} => vaultLock.deleting

\* A request to connect a key has no generation of the vault ahead of it, and
\* one of before its lock when that is set.
StoresBehind ==
  \A s \in Stores :
    /\ store[s].vault <= vaultLock.generation
    /\ vaultLock.deleting /\ store[s].step \in {"vault", "rechecked", "sealing"} =>
         store[s].vault < vaultLock.generation

\* From the purge of the vault on there is no key, and no request is left that
\* could store one: those that passed the registry were admitted to the vault before.
NoKeyAgain(d) ==
  deletion[d].step = "purgeRegistry" =>
    /\ ~credential
    /\ \A s \in Stores : store[s].step \in {"rechecked", "sealing"} =>
         store[s].vault < vaultLock.generation

\* From its list on a deletion has every run before it that the index leads to,
\* but for those created since the registry was locked.
RunsInHand(d) ==
  /\ deletion[d].step \in {"lease", "view", "purgeRegistry"} =>
       \A r \in index : Exists(r) /\ createdUnder[r] # registryLock.generation =>
         r \in deletion[d].toView \cup deletion[d].toPurge
  /\ deletion[d].step = "purgeRegistry" =>
       deletion[d].toView = {} /\ deletion[d].toPurge = {}

CompleteInv ==
  StoresBehind /\ \A d \in Deletions : LocksHeld(d) /\ NoKeyAgain(d) /\ RunsInHand(d)

\* No deletion has begun, and no request.
LEMMA CompleteInit == Init => CompleteInv
<1>1. SUFFICES ASSUME Init PROVE CompleteInv
  OBVIOUS
<1>2. /\ vaultLock.generation = 0 /\ ~vaultLock.deleting
      /\ \A s \in Stores : store[s].vault = 0
      /\ \A d \in Deletions : deletion[d].step = "idle"
  BY <1>1 DEF Init, VaultInit, NoLock, NoStore, NoDeletion
<1> QED
  BY <1>2 DEF CompleteInv, StoresBehind, LocksHeld, NoKeyAgain, RunsInHand

\* What requests and runs do to the index and the runs of it: it grows only while the
\* registry is open, and a run that comes to be was created under its generation.
RunsCalm ==
  /\ UNCHANGED registryLock
  /\ index' \subseteq index \/ Writable(registryLock)
  /\ \A r \in Runs : runState'[r] # "MISSING" =>
       \/ Exists(r) /\ createdUnder'[r] = createdUnder[r]
       \/ createdUnder'[r] = registryLock.generation

\* What they leave alone: the fences, the requests to connect a key and the deletions;
\* and no key comes to be.
OthersCalm == UNCHANGED <<vaultLock, store, deletion>> /\ (credential' => credential)

\* A request keeps calm.
LEMMA RequestCalm ==
  ASSUME Types, NEW r \in Runs, RequestNext(r)
  PROVE  RunsCalm /\ OthersCalm
<1>1. UNCHANGED <<vaultLock, credential, store, deletion, registryLock>>
  BY DEF RequestNext, Admit, RefuseRecord, RecordRun, Create, Recheck, StartCreated, StartRun,
         LeaveReceived, CallFails, PurgeFailed, AskToStart, StartAsked, DeleteObjective,
         RemoveRun, RequestDies, vaultVars, vault, rows, registry
<1>2. index' \subseteq index \/ Writable(registryLock)
  BY DEF RequestNext, Admit, RefuseRecord, RecordRun, Create, Recheck, StartCreated, StartRun,
         LeaveReceived, CallFails, PurgeFailed, AskToStart, StartAsked, DeleteObjective,
         RemoveRun, RequestDies, registry, Admits
<1>3. runState \in [Runs -> RunStates] /\ createdUnder \in [Runs -> Nat]
  BY DEF Types, WorkTypes
<1>4. \/ UNCHANGED createdUnder /\ UNCHANGED runState
      \/ UNCHANGED createdUnder /\ SetRun(r, "MISSING")
      \/ UNCHANGED createdUnder /\ SetRun(r, runState[r])
      \/ UNCHANGED createdUnder /\ runState[r] = "RECEIVED" /\ SetRun(r, "QUEUED")
      \/ /\ createdUnder' = [createdUnder EXCEPT ![r] = registryLock.generation]
         /\ SetRun(r, "RECEIVED")
  BY DEF RequestNext, Admit, RefuseRecord, RecordRun, Create, Recheck, StartCreated, StartRun,
         LeaveReceived, CallFails, PurgeFailed, AskToStart, StartAsked, DeleteObjective,
         RemoveRun, RequestDies, runs
<1>5. \A q \in Runs : runState'[q] # "MISSING" =>
        \/ Exists(q) /\ createdUnder'[q] = createdUnder[q]
        \/ createdUnder'[q] = registryLock.generation
  BY <1>3, <1>4 DEF SetRun, Exists
<1> QED
  BY <1>1, <1>2, <1>5 DEF RunsCalm, OthersCalm

\* So does a run, and what the vault does by itself.
LEMMA RunCalm ==
  ASSUME Types, NEW r \in Runs, RunNext(r)
  PROVE  RunsCalm /\ OthersCalm
<1>1. UNCHANGED <<store, deletion, registryLock, index, createdUnder>>
  BY DEF RunNext, Cancel, Cancelled, Alarm, AlarmRefused, Acquired, AcquireRefused, MoveOn,
         Finish, Return, Keep, Recover, OnlyRun, requests, registry
<1>2. UNCHANGED <<vaultLock, credential>>
  BY DEF RunNext, Cancel, Cancelled, Alarm, AlarmRefused, Acquired, AcquireRefused, MoveOn,
         Finish, Return, Keep, Recover, CancelLease, BeginAcquire, GrantLease, DenyLease,
         EndExecution, ReturnLease, KeepLease, Lease, vaultVars, vault, rows
<1>3. runState \in [Runs -> RunStates]
  BY DEF Types, WorkTypes
<1>4. \/ UNCHANGED runState
      \/ SetRun(r, "MISSING") \/ SetRun(r, runState[r])
      \/ Exists(r) /\ \E state \in RunStates : SetRun(r, state)
  BY DEF RunNext, Cancel, Cancelled, Alarm, AlarmRefused, Acquired, AcquireRefused, MoveOn,
         Finish, Return, Keep, Recover, Rest, Exists, RunStates
<1>5. \A q \in Runs : runState'[q] # "MISSING" => Exists(q)
  BY <1>3, <1>4 DEF SetRun, Exists
<1> QED
  BY <1>1, <1>2, <1>5 DEF RunsCalm, OthersCalm

\* Runs stay in the hands of a deletion while the others keep calm.
LEMMA InHandKept ==
  ASSUME Types, NEW d \in Deletions, LocksHeld(d), RunsInHand(d), RunsCalm, UNCHANGED deletion
  PROVE  RunsInHand(d)'
<1>1. CASE deletion[d].step \in {"lease", "view", "purgeRegistry"}
  <2>1. ~Writable(registryLock)
    BY <1>1 DEF LocksHeld, Writable
  <2>2. index' \subseteq index /\ index \subseteq Runs /\ registryLock' = registryLock
    BY <2>1 DEF RunsCalm, Types, IndexInv
  <2>3. ASSUME NEW r \in index', runState'[r] # "MISSING", createdUnder'[r] # registryLock.generation
        PROVE  r \in deletion[d].toView \cup deletion[d].toPurge
    <3>1. r \in index /\ Exists(r) /\ createdUnder[r] # registryLock.generation
      BY <2>2, <2>3 DEF RunsCalm
    <3> QED
      BY <1>1, <3>1 DEF RunsInHand
  <2> QED
    BY <1>1, <2>2, <2>3 DEF RunsInHand, Exists
<1>2. CASE deletion[d].step \notin {"lease", "view", "purgeRegistry"}
  BY <1>2 DEF RunsInHand
<1> QED
  BY <1>1, <1>2

\* A step that keeps calm keeps the invariant.
LEMMA CalmStep == ASSUME Types, CompleteInv, RunsCalm, OthersCalm PROVE CompleteInv'
<1>1. StoresBehind'
  BY DEF CompleteInv, StoresBehind, OthersCalm
<1>2. ASSUME NEW d \in Deletions PROVE LocksHeld(d)' /\ NoKeyAgain(d)' /\ RunsInHand(d)'
  <2>1. LocksHeld(d) /\ NoKeyAgain(d) /\ RunsInHand(d)
    BY DEF CompleteInv
  <2>2. UNCHANGED <<vaultLock, store, deletion, registryLock>> /\ (credential' => credential)
    BY DEF RunsCalm, OthersCalm
  <2>3. LocksHeld(d)'
    BY <2>1, <2>2 DEF LocksHeld
  <2>4. NoKeyAgain(d)'
    BY <2>1, <2>2 DEF NoKeyAgain
  <2>5. RunsInHand(d)'
    BY <2>1, <2>2, InHandKept
  <2> QED
    BY <2>3, <2>4, <2>5
<1> QED
  BY <1>1, <1>2 DEF CompleteInv

\* A request to connect a key that passed the registry before its lock cannot store it.
LEMMA StoreStep ==
  ASSUME Types, CompleteInv, NEW s \in Stores, StoreNext(s)
  PROVE  CompleteInv'
<1>1. /\ UNCHANGED <<vaultLock, deletion, registryLock, index, runState, createdUnder>>
  BY DEF StoreNext, AskRegistry, AskVault, AskRegistryAgain, BeginStore, EndStore,
         BeginStoreCredential, EndStoreCredential, vaultVars, vault, registry, runs
<1>2. /\ store \in [Stores -> [step : StoreSteps, registry : Nat, vault : 0 .. MaxGenerations]]
      /\ vaultLock.generation \in Nat
  BY DEF Types, FenceType, StoresKnown, Locks
<1>3. RunsCalm
  BY <1>1 DEF RunsCalm, Exists
\* What may become of its row.
<1>4. /\ \A t \in Stores : t # s => store'[t] = store[t]
      /\ \/ store'[s] = NoStore
         \/ store'[s].step = "registry" /\ store'[s].vault = store[s].vault
         \/ /\ store'[s].step = "vault" /\ Writable(vaultLock)
            /\ store'[s].vault = vaultLock.generation
         \/ /\ store'[s].step = "rechecked" /\ store[s].step = "vault"
            /\ Writable(registryLock) /\ store'[s].vault = store[s].vault
         \/ /\ store'[s].step = "sealing" /\ store[s].step = "rechecked"
            /\ store'[s].vault = store[s].vault
  <2>1. CASE AskRegistry(s)
    <3>1. store' = [store EXCEPT ![s] = [store[s] EXCEPT !.step = "registry",
                                                         !.registry = registryLock.generation]]
      BY <2>1 DEF AskRegistry
    <3> QED
      BY <1>2, <3>1
  <2>2. CASE AskVault(s)
    BY <1>2, <2>2 DEF AskVault
  <2>3. CASE AskRegistryAgain(s)
    BY <1>2, <2>3 DEF AskRegistryAgain, Admits
  <2>4. CASE BeginStore(s)
    <3>1. \/ store' = [store EXCEPT ![s] = [store[s] EXCEPT !.step = "sealing"]]
          \/ store' = [store EXCEPT ![s] = NoStore]
      BY <2>4 DEF BeginStore
    <3> QED
      BY <1>2, <2>4, <3>1 DEF BeginStore
  <2>5. CASE EndStore(s)
    BY <1>2, <2>5 DEF EndStore
  <2> QED
    BY <2>1, <2>2, <2>3, <2>4, <2>5 DEF StoreNext
<1>5. credential' # credential => store[s].step = "sealing" /\ store[s].vault = vaultLock.generation
  BY DEF StoreNext, AskRegistry, AskVault, AskRegistryAgain, BeginStore, EndStore,
         BeginStoreCredential, EndStoreCredential, vaultVars, vault, rows, Admits
<1>6. NoStore.step = "idle" /\ NoStore.vault = 0
  BY DEF NoStore
<1>7. \A t \in Stores : store[t].vault \in Nat /\ store[t].vault <= vaultLock.generation
  BY <1>2 DEF CompleteInv, StoresBehind
<1>8. StoresBehind'
  <2>1. ASSUME NEW t \in Stores
        PROVE  /\ store'[t].vault <= vaultLock.generation
               /\ vaultLock.deleting /\ store'[t].step \in {"vault", "rechecked", "sealing"} =>
                    store'[t].vault < vaultLock.generation
    BY <1>2, <1>4, <1>6, <1>7 DEF CompleteInv, StoresBehind, Writable
  <2> QED
    BY <1>1, <2>1 DEF StoresBehind
<1>9. ASSUME NEW d \in Deletions PROVE LocksHeld(d)' /\ NoKeyAgain(d)' /\ RunsInHand(d)'
  <2>1. LocksHeld(d) /\ NoKeyAgain(d) /\ RunsInHand(d)
    BY DEF CompleteInv
  <2>2. LocksHeld(d)'
    BY <1>1, <2>1 DEF LocksHeld
  <2>3. CASE deletion[d].step = "purgeRegistry"
    <3>1. ~credential /\ ~Writable(registryLock)
      BY <2>1, <2>3 DEF NoKeyAgain, LocksHeld, Writable
    <3>2. \A t \in Stores : store[t].step \in {"rechecked", "sealing"} =>
            store[t].vault < vaultLock.generation
      BY <2>1, <2>3 DEF NoKeyAgain
    <3>3. credential' = credential
      BY <1>2, <1>5, <3>2
    <3>4. \A t \in Stores : store'[t].step \in {"rechecked", "sealing"} =>
            store'[t].vault < vaultLock.generation
      BY <1>4, <1>6, <3>1, <3>2
    <3> QED
      BY <1>1, <3>1, <3>3, <3>4, <2>1, <2>2, <1>3, InHandKept DEF NoKeyAgain
  <2>4. CASE deletion[d].step # "purgeRegistry"
    BY <1>1, <1>3, <2>1, <2>2, <2>4, InHandKept DEF NoKeyAgain
  <2> QED
    BY <2>3, <2>4
<1> QED
  BY <1>8, <1>9 DEF CompleteInv

\* A deletion that is not overlapped takes its own steps only.
LEMMA DeletionStep ==
  ASSUME OneAtATime, Types, CompleteInv, NEW d \in Deletions, DeletionNext(d)
  PROVE  CompleteInv'
<1> DEFINE row == deletion[d]
<1>1. /\ vaultLock \in Locks /\ registryLock \in Locks /\ index \subseteq Runs
      /\ deletion \in [Deletions -> DeletionRows] /\ row \in DeletionRows
      /\ runState \in [Runs -> RunStates]
      /\ \A s \in Stores : store[s].vault \in Nat
  BY DEF Types, FenceType, StoresKnown, IndexInv, WorkTypes
<1>2. StoresBehind /\ LocksHeld(d) /\ NoKeyAgain(d) /\ RunsInHand(d)
  BY DEF CompleteInv
<1>3. UNCHANGED <<store, createdUnder>>
  BY DEF DeletionNext, At, LockRegistry, LockVaultToo, ListRuns, ReadLease, ViewRun, PurgeRun,
         UnlockVaultFirst, UnlockRegistry, PurgeVaultNext, PurgeRegistry, DeletionDies
\* It is the only one.
<1>4. ASSUME StoresBehind', LocksHeld(d)', NoKeyAgain(d)', RunsInHand(d)' PROVE CompleteInv'
  <2>1. \A e \in Deletions : e = d
    BY DEF OneAtATime
  <2> QED
    BY <1>4, <2>1 DEF CompleteInv
<1>5. ASSUME GiveUp(d), StoresBehind' PROVE CompleteInv'
  <2>1. deletion'[d].step = "idle"
    BY <1>1, <1>5 DEF GiveUp, Become, NoDeletion
  <2>2. LocksHeld(d)' /\ NoKeyAgain(d)' /\ RunsInHand(d)'
    BY <2>1 DEF LocksHeld, NoKeyAgain, RunsInHand
  <2> QED
    BY <1>4, <1>5, <2>2
<1>6. UNCHANGED vaultLock => StoresBehind'
  BY <1>2, <1>3 DEF StoresBehind
<1>7. vaultLock' = EndDeletion(vaultLock) =>
        StoresBehind' /\ vaultLock'.generation = vaultLock.generation /\ ~vaultLock'.deleting
  BY <1>1, <1>2, <1>3 DEF StoresBehind, EndDeletion, Locks
<1>8. CASE LockRegistry(d)
  <2>1. /\ UNCHANGED vaultLock /\ registryLock'.deleting /\ deletion'[d].step = "lockVault"
    BY <1>1, <1>8 DEF LockRegistry, vaultVars, vault, BeginDeletion, Locks, Become, NoDeletion
  <2> QED
    BY <1>4, <1>6, <2>1 DEF LocksHeld, NoKeyAgain, RunsInHand
<1>9. CASE LockVaultToo(d)
  <2>1. /\ registryLock' = registryLock /\ registryLock.deleting /\ deletion'[d].step = "list"
    BY <1>1, <1>2, <1>9 DEF LockVaultToo, At, LocksHeld, registry, Become, NoDeletion
  <2>2. vaultLock' = BeginDeletion(vaultLock)
    BY <1>9 DEF LockVaultToo, LockVault
  <2>3. /\ vaultLock'.deleting
        /\ \/ vaultLock' = vaultLock
           \/ vaultLock'.generation = vaultLock.generation + 1
    BY <1>1, <2>2 DEF BeginDeletion, Locks
  <2>4. StoresBehind'
    <3>1. CASE vaultLock' = vaultLock
      BY <1>6, <3>1
    <3>2. CASE vaultLock'.generation = vaultLock.generation + 1
      <4>1. vaultLock.generation \in Nat
        BY <1>1 DEF Locks
      <4>2. \A s \in Stores : store[s].vault < vaultLock'.generation
        BY <1>1, <1>2, <3>2, <4>1 DEF StoresBehind
      <4>3. \A s \in Stores : store[s].vault <= vaultLock'.generation
        BY <1>1, <3>2, <4>1, <4>2
      <4> QED
        BY <1>3, <4>2, <4>3 DEF StoresBehind
    <3> QED
      BY <2>3, <3>1, <3>2
  <2> QED
    BY <1>4, <2>1, <2>3, <2>4 DEF LocksHeld, NoKeyAgain, RunsInHand
<1>10. CASE ListRuns(d)
  <2>1. /\ UNCHANGED <<vaultLock, credential, registryLock, index, runState>>
        /\ row.step = "list"
    BY <1>10 DEF ListRuns, At, vaultVars, vault, rows, registry
  <2>2. CASE GiveUp(d)
    BY <1>5, <1>6, <2>1, <2>2
  <2>3. CASE Become(d, [NoDeletion EXCEPT !.step = "lease", !.toView = index])
    <3>1. deletion'[d].step = "lease" /\ deletion'[d].toView = index
      BY <1>1, <2>3 DEF Become, NoDeletion
    <3>2. LocksHeld(d)' /\ NoKeyAgain(d)' /\ RunsInHand(d)'
      BY <1>2, <2>1, <3>1 DEF LocksHeld, NoKeyAgain, RunsInHand
    <3> QED
      BY <1>4, <1>6, <2>1, <3>2
  <2> QED
    BY <1>10, <2>2, <2>3 DEF ListRuns
<1>11. CASE ReadLease(d)
  <2>1. /\ UNCHANGED <<vaultLock, credential, registryLock, index, runState>>
        /\ row.step = "lease"
    BY <1>11 DEF ReadLease, At, vaultVars, vault, rows, registry
  <2>2. /\ deletion'[d].step = "view" /\ deletion'[d].toView = row.toView
        /\ deletion'[d].toPurge = row.toPurge
    BY <1>1, <1>11 DEF ReadLease, Become, DeletionRows
  <2>3. LocksHeld(d)' /\ NoKeyAgain(d)' /\ RunsInHand(d)'
    BY <1>2, <1>3, <2>1, <2>2 DEF LocksHeld, NoKeyAgain, RunsInHand, Exists
  <2> QED
    BY <1>4, <1>6, <2>1, <2>3
<1>12. ASSUME NEW r \in Runs, ViewRun(d, r) PROVE CompleteInv'
  <2>1. /\ UNCHANGED <<vaultLock, credential, registryLock, index, runState>>
        /\ row.step = "view"
    BY <1>12 DEF ViewRun, At, vaultVars, vault, rows, registry
  <2>2. /\ deletion'[d].step = "view" /\ deletion'[d].toView = row.toView \ {r}
        /\ deletion'[d].toPurge = IF Exists(r) THEN row.toPurge \cup {r} ELSE row.toPurge
    BY <1>1, <1>12, <2>1 DEF ViewRun, Become, DeletionRows
  <2>3. LocksHeld(d)' /\ NoKeyAgain(d)' /\ RunsInHand(d)'
    BY <1>2, <1>3, <2>1, <2>2 DEF LocksHeld, NoKeyAgain, RunsInHand, Exists
  <2> QED
    BY <1>4, <1>6, <2>1, <2>3
<1>13. CASE UnlockVaultFirst(d)
  <2>1. /\ vaultLock' = EndDeletion(vaultLock) /\ UNCHANGED registryLock
        /\ row.step = "view" /\ deletion'[d].step = "unlockRegistry"
    BY <1>1, <1>13 DEF UnlockVaultFirst, UnlockVault, At, registry, Become, NoDeletion
  <2>2. LocksHeld(d)' /\ NoKeyAgain(d)' /\ RunsInHand(d)'
    BY <1>2, <2>1 DEF LocksHeld, NoKeyAgain, RunsInHand
  <2> QED
    BY <1>4, <1>7, <2>1, <2>2
<1>14. CASE UnlockRegistry(d) \/ PurgeRegistry(d) \/ DeletionDies(d)
  <2>1. UNCHANGED vaultLock /\ GiveUp(d)
    BY <1>14 DEF UnlockRegistry, PurgeRegistry, DeletionDies, vaultVars, vault
  <2> QED
    BY <1>5, <1>6, <2>1
<1>15. ASSUME NEW r \in Runs, PurgeRun(d, r) PROVE CompleteInv'
  <2>1. /\ UNCHANGED <<vaultLock, credential, registryLock, index>>
        /\ row.step = "view"
    BY <1>15 DEF PurgeRun, At, vaultVars, vault, rows, registry
  <2>2. CASE GiveUp(d)
    BY <1>5, <1>6, <2>1, <2>2
  <2>3. CASE SetRun(r, "MISSING") /\ Become(d, [deletion[d] EXCEPT !.toPurge = @ \ {r}])
    <3>1. /\ deletion'[d].step = "view" /\ deletion'[d].toView = row.toView
          /\ deletion'[d].toPurge = row.toPurge \ {r}
          /\ \A q \in Runs : runState'[q] # "MISSING" => q # r /\ Exists(q)
      BY <1>1, <2>1, <2>3 DEF Become, DeletionRows, SetRun, Exists
    <3>2. LocksHeld(d)' /\ NoKeyAgain(d)'
      BY <1>2, <2>1, <3>1 DEF LocksHeld, NoKeyAgain
    <3>3. RunsInHand(d)'
      <4>1. ASSUME NEW q \in index, runState'[q] # "MISSING",
                   createdUnder[q] # registryLock.generation
            PROVE  q \in row.toView \cup (row.toPurge \ {r})
        BY <1>1, <1>2, <2>1, <3>1, <4>1 DEF RunsInHand
      <4> QED
        BY <1>3, <2>1, <3>1, <4>1 DEF RunsInHand, Exists
    <3> QED
      BY <1>4, <1>6, <2>1, <3>2, <3>3
  <2> QED
    BY <1>15, <2>2, <2>3 DEF PurgeRun
<1>16. CASE PurgeVaultNext(d)
  <2>1. /\ UNCHANGED <<registryLock, index, runState>> /\ row.step = "view"
        /\ row.toView = {} /\ row.toPurge = {}
    BY <1>16 DEF PurgeVaultNext, At, Accepted, registry
  <2>2. CASE RefusePurge /\ GiveUp(d)
    <3>1. UNCHANGED vaultLock
      BY <2>2 DEF RefusePurge, Lease
    <3> QED
      BY <1>5, <1>6, <2>2, <3>1
  <2>3. CASE PurgeVault /\ Become(d, [NoDeletion EXCEPT !.step = "purgeRegistry"])
    <3>1. vaultLock' = EndDeletion(vaultLock) /\ vaultLock.deleting /\ ~credential'
      BY <2>3 DEF PurgeVault, CanPurge
    <3>2. /\ deletion'[d].step = "purgeRegistry"
          /\ deletion'[d].toView = {} /\ deletion'[d].toPurge = {}
      BY <1>1, <2>3 DEF Become, NoDeletion
    <3>3. \A s \in Stores : store[s].step \in {"rechecked", "sealing"} =>
            store[s].vault < vaultLock.generation
      BY <1>2, <3>1 DEF StoresBehind
    <3>4. LocksHeld(d)'
      BY <1>2, <2>1, <3>2 DEF LocksHeld
    <3>5. NoKeyAgain(d)'
      BY <1>3, <1>7, <3>1, <3>3 DEF NoKeyAgain
    <3>6. RunsInHand(d)'
      BY <1>2, <1>3, <2>1, <3>2 DEF RunsInHand, Exists
    <3> QED
      BY <1>4, <1>7, <3>1, <3>4, <3>5, <3>6
  <2> QED
    BY <1>16, <2>2, <2>3 DEF PurgeVaultNext
<1> QED
  BY <1>8, <1>9, <1>10, <1>11, <1>12, <1>13, <1>14, <1>15, <1>16 DEF DeletionNext

\* The invariant of deletions that do not overlap.
LEMMA CompleteStep == OneAtATime /\ Types /\ CompleteInv /\ [Next]_vars => CompleteInv'
<1>1. SUFFICES ASSUME OneAtATime, Types, CompleteInv, [Next]_vars PROVE CompleteInv'
  OBVIOUS
<1>2. CASE VaultOnly
  <2>1. UNCHANGED <<registryLock, index, runState, createdUnder, store, deletion>>
    BY <1>2 DEF VaultOnly, registry, runs
  <2>2. UNCHANGED vaultLock /\ (credential' => credential)
    <3>1. /\ UNCHANGED vaultLock
          /\ credential' = (credential /\ Leased(quota)) \/ credential' = credential
      BY <1>2, Zenon DEF VaultOnly, Disconnect, Midnight, LeaseLapses, Lease
    <3>2. CASE credential /\ Leased(quota)
      BY <3>1, <3>2
    <3>3. CASE ~(credential /\ Leased(quota))
      <4>1. (credential /\ Leased(quota)) = FALSE
        BY <3>3
      <4>2. credential' = FALSE \/ credential' = credential
        BY <3>1, <4>1
      <4>3. CASE credential' = FALSE
        BY <3>1, <4>3, Zenon
      <4>4. CASE credential' = credential
        BY <3>1, <4>4, Zenon
      <4> QED
        BY <4>2, <4>3, <4>4
    <3> QED
      BY <3>2, <3>3
  <2> QED
    BY <1>1, <2>1, <2>2, CalmStep DEF RunsCalm, OthersCalm, Exists
<1>3. CASE UNCHANGED vars
  <2>1. RunsCalm /\ OthersCalm
    BY <1>3 DEF vars, registry, runs, vaultVars, vault, rows, RunsCalm, OthersCalm, Exists
  <2> QED
    BY <1>1, <2>1, CalmStep
<1>4. ASSUME NEW r \in Runs, RequestNext(r) \/ RunNext(r) PROVE CompleteInv'
  BY <1>1, <1>4, RequestCalm, RunCalm, CalmStep
<1> QED
  BY <1>1, <1>2, <1>3, <1>4, StoreStep, DeletionStep DEF Next

\* The index is dropped by PurgeRegistry alone, when there is no key and no run in hand.
LEMMA IndexDropped ==
  ASSUME Types, CompleteInv, [Next]_vars, registryPurged' # registryPurged
  PROVE  ~credential /\ \A r \in index : Exists(r) => createdUnder[r] = registryLock.generation
<1>1. PICK d \in Deletions : PurgeRegistry(d)
  <2>1. ASSUME NEW r \in Runs, RequestNext(r) PROVE UNCHANGED registryPurged
    BY <2>1 DEF RequestNext, Admit, RefuseRecord, RecordRun, Create, Recheck, StartCreated,
       StartRun, LeaveReceived, CallFails, PurgeFailed, AskToStart, StartAsked,
       DeleteObjective, RemoveRun, RequestDies, registry
  <2>2. ASSUME NEW r \in Runs, RunNext(r) PROVE UNCHANGED registryPurged
    BY <2>2 DEF RunNext, Cancel, Cancelled, Alarm, AlarmRefused, Acquired, AcquireRefused,
       MoveOn, Finish, Return, Keep, Recover, OnlyRun, registry
  <2>3. ASSUME NEW s \in Stores, StoreNext(s) PROVE UNCHANGED registryPurged
    BY <2>3 DEF StoreNext, AskRegistry, AskVault, AskRegistryAgain, BeginStore, EndStore, registry
  <2>4. ASSUME NEW d \in Deletions, DeletionNext(d), ~PurgeRegistry(d)
        PROVE  UNCHANGED registryPurged
    BY <2>4 DEF DeletionNext, LockRegistry, LockVaultToo, ListRuns, ReadLease, ViewRun, PurgeRun,
       UnlockVaultFirst, UnlockRegistry, PurgeVaultNext, DeletionDies, registry
  <2>5. VaultOnly \/ UNCHANGED vars => UNCHANGED registryPurged
    BY DEF VaultOnly, vars, registry
  <2> QED
    BY <2>1, <2>2, <2>3, <2>4, <2>5 DEF Next
<1>2. deletion[d].step = "purgeRegistry"
  BY <1>1 DEF PurgeRegistry, At
<1> QED
  BY <1>2 DEF CompleteInv, NoKeyAgain, RunsInHand

\* A deletion that drops the index has deleted every run it was the way to, but for
\* those created behind the fence, and the key is gone: for any runs and requests, any
\* deletions before it that died on the way, and none that overlaps it.
THEOREM CompleteDeletion == ASSUME OneAtATime PROVE Spec => DeletionIsComplete
<1>1. Types /\ CompleteInv /\ [Next]_vars =>
        [registryPurged' # registryPurged =>
           /\ ~credential
           /\ \A r \in index : Exists(r) => createdUnder[r] = registryLock.generation]_vars
  BY IndexDropped
<1>2. Types /\ CompleteInv /\ [Next]_vars => CompleteInv'
  BY CompleteStep
<1> QED
  BY <1>1, <1>2, TypesInit, TypesStep, CompleteInit, PTL DEF Spec, DeletionIsComplete

=============================================================================
