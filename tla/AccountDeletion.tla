--------------------------- MODULE AccountDeletion ---------------------------
(***************************************************************************)
(* The deletion of an account's data (account-data.ts) against everything  *)
(* that goes on meanwhile: requests that create, start and delete runs     *)
(* (server.ts), the runs themselves with the lease they take from the      *)
(* vault (coordinator.ts, reduced to what deletion asks of a run), and a   *)
(* key that is being connected (credential-settings.ts).                   *)
(*                                                                         *)
(* The index of runs and its fence live in the registry                    *)
(* (maintenance-registry.ts), the key and its fence in the vault           *)
(* (CredentialVault), each run in an object of its own.  Every call of one *)
(* of them is a step; a caller may stop between any two.                   *)
(***************************************************************************)
EXTENDS CredentialVault, FiniteSets

CONSTANTS
  Deletions,  \* slots for deletion requests
  IndexLimit  \* the number of runs listRuns() returns at most

ASSUME IndexLimitAssumption == IndexLimit \in Nat

VARIABLES
  registryLock,   \* account_controls
  index,          \* account_runs
  runState,       \* per run: its row, reduced to what deletion asks of it
  cancelling,     \* cancel() has released the lease and not yet written
  request,        \* the request that creates, starts or deletes the run
  admitted,       \* the generation its creation was admitted under
  store,          \* the requests that connect a key
  deletion,       \* the deletions
  createdUnder,   \* observation: the registry's generation at its creation
  registryPurged  \* observation: the generation of the last complete deletion

registry == <<registryLock, index, registryPurged>>
runs == <<runState, cancelling, createdUnder>>
requests == <<request, admitted>>
vars == <<vaultVars, registry, runs, requests, store, deletion>>

\* QUEUED and EXECUTING stand for every state that is not deletable.
RunStates == {"MISSING", "RECEIVED", "QUEUED", "EXECUTING", "RESTING"}
RequestSteps ==
  {"none", "admitted", "recorded", "created", "rechecked", "starting",
   "failed", "removing", "ended"}
StoreSteps == {"idle", "registry", "vault", "rechecked", "sealing"}
DeletionSteps ==
  {"idle", "lockVault", "list", "lease", "view", "purgeRegistry", "unlockRegistry"}

\* DELETABLE_RUN_STATES, which purge() accepts as well.
Deletable(r) == runState[r] = "RESTING"
Exists(r) == runState[r] # "MISSING"

SetRun(r, state) == runState' = [runState EXCEPT ![r] = state]

-----------------------------------------------------------------------------
(* create_objective, start_objective and delete_objective, one at a time for a *)
(* run.                                                                        *)

Step(r, from, to) ==
  /\ request[r] = from
  /\ request' = [request EXCEPT ![r] = to]

\* The account is writable and has a key.
Admit(r) ==
  /\ Step(r, "none", "admitted")
  /\ Writable(registryLock) /\ credential
  /\ admitted' = [admitted EXCEPT ![r] = registryLock.generation]
  /\ UNCHANGED <<vaultVars, registry, runs, store, deletion>>

\* recordRun() throws, and nothing has been made yet.
RefuseRecord(r) ==
  /\ ~Admits(registryLock, admitted[r])
  /\ Step(r, "admitted", "ended")
  /\ UNCHANGED <<vaultVars, registry, runs, admitted, store, deletion>>

RecordRun(r) ==
  /\ Admits(registryLock, admitted[r])
  /\ Step(r, "admitted", "recorded")
  /\ index' = index \cup {r}
  /\ UNCHANGED <<vaultVars, registryLock, registryPurged, runs, admitted, store, deletion>>

Create(r) ==
  /\ Step(r, "recorded", "created")
  /\ SetRun(r, "RECEIVED")
  /\ createdUnder' = [createdUnder EXCEPT ![r] = registryLock.generation]
  /\ UNCHANGED <<vaultVars, registry, cancelling, admitted, store, deletion>>

Recheck(r) ==
  /\ Step(r, "created", IF Admits(registryLock, admitted[r]) THEN "rechecked" ELSE "failed")
  /\ UNCHANGED <<vaultVars, registry, runs, admitted, store, deletion>>

\* start(): only a received run is queued.
StartRun(r) ==
  /\ SetRun(r, IF runState[r] = "RECEIVED" THEN "QUEUED" ELSE runState[r])
  /\ UNCHANGED <<vaultVars, registry, cancelling, createdUnder, admitted, store, deletion>>

\* The run is there and is started, or is left alone without autoStart; or
\* start() throws, or its answer is lost.
StartCreated(r) ==
  \/ Exists(r) /\ Step(r, "rechecked", "ended") /\ StartRun(r)
  \/ Step(r, "rechecked", "failed") /\ StartRun(r)

LeaveReceived(r) ==
  /\ Step(r, "rechecked", "ended")
  /\ UNCHANGED <<vaultVars, registry, runs, admitted, store, deletion>>

\* create() or the check after it fails.
CallFails(r) ==
  /\ \E s \in {"recorded", "created"} : Step(r, s, "failed")
  /\ UNCHANGED <<vaultVars, registry, runs, admitted, store, deletion>>

\* The catch block: purge() of a run that is not deletable throws, which is
\* ignored, and the run leaves the index all the same.
PurgeFailed(r) ==
  /\ Step(r, "failed", "removing")
  /\ SetRun(r, IF Deletable(r) THEN "MISSING" ELSE runState[r])
  /\ UNCHANGED <<vaultVars, registry, cancelling, createdUnder, admitted, store, deletion>>

AskToStart(r) ==
  /\ Exists(r) /\ Writable(registryLock)
  /\ Step(r, "ended", "starting")
  /\ UNCHANGED <<vaultVars, registry, runs, admitted, store, deletion>>

StartAsked(r) == Step(r, "starting", "ended") /\ StartRun(r)

DeleteObjective(r) ==
  /\ Deletable(r)
  /\ Step(r, "ended", "removing")
  /\ SetRun(r, "MISSING")
  /\ UNCHANGED <<vaultVars, registry, cancelling, createdUnder, admitted, store, deletion>>

RemoveRun(r) ==
  /\ Step(r, "removing", "ended")
  /\ index' = index \ {r}
  /\ UNCHANGED <<vaultVars, registryLock, registryPurged, runs, admitted, store, deletion>>

\* The worker that serves the request is gone.
RequestDies(r) ==
  /\ request[r] \notin {"none", "ended"}
  /\ Step(r, request[r], "ended")
  /\ UNCHANGED <<vaultVars, registry, runs, admitted, store, deletion>>

RequestNext(r) ==
  \/ Admit(r) \/ RefuseRecord(r) \/ RecordRun(r) \/ Create(r) \/ Recheck(r)
  \/ StartCreated(r) \/ LeaveReceived(r) \/ CallFails(r) \/ PurgeFailed(r)
  \/ AskToStart(r) \/ StartAsked(r) \/ DeleteObjective(r) \/ RemoveRun(r)
  \/ RequestDies(r)

-----------------------------------------------------------------------------
(* A run: cancel() and the alarm handler, as the vault and deletion see them. *)

OnlyRun == UNCHANGED <<registry, cancelling, createdUnder, requests, store, deletion>>

\* What the handler writes unless the run has come to rest without it.
Rest(r) == SetRun(r, IF runState[r] \in {"QUEUED", "EXECUTING"} THEN "RESTING" ELSE runState[r])

Cancel(r) ==
  /\ runState[r] \in {"RECEIVED", "QUEUED", "EXECUTING"} /\ ~cancelling[r]
  /\ cancelling' = [cancelling EXCEPT ![r] = TRUE]
  /\ CancelLease(r)
  /\ UNCHANGED <<registry, runState, createdUnder, requests, store, deletion>>

Cancelled(r) ==
  /\ cancelling[r]
  /\ cancelling' = [cancelling EXCEPT ![r] = FALSE]
  /\ SetRun(r, IF Exists(r) THEN "RESTING" ELSE "MISSING")
  /\ UNCHANGED <<vaultVars, registry, createdUnder, requests, store, deletion>>

\* alarm() admits a queued run to execution and asks for the key.
Alarm(r) ==
  /\ runState[r] \in {"QUEUED", "EXECUTING"}
  /\ BeginAcquire(r)
  /\ SetRun(r, "EXECUTING") /\ OnlyRun

AlarmRefused(r) ==
  /\ runState[r] \in {"QUEUED", "EXECUTING"} /\ spender[r] = "idle"
  /\ ~CanAcquire
  /\ Rest(r) /\ OnlyRun /\ UNCHANGED vaultVars

Acquired(r) == GrantLease(r) /\ OnlyRun /\ UNCHANGED runState
AcquireRefused(r) == DenyLease(r) /\ Rest(r) /\ OnlyRun

\* A handler that was waiting when CANCELLED was written moves the run on.
MoveOn(r) ==
  /\ spender[r] = "executing" /\ runState[r] = "RESTING"
  /\ SetRun(r, "EXECUTING") /\ OnlyRun /\ UNCHANGED vaultVars

Finish(r) == EndExecution(r) /\ Rest(r) /\ OnlyRun
Return(r) == ReturnLease(r) /\ OnlyRun /\ UNCHANGED runState

\* The handler defers, its object restarts, or its release fails.
Keep(r) == KeepLease(r) /\ OnlyRun /\ UNCHANGED runState

\* After a restart an action is found running: the run stops as ambiguous, and
\* the handler returns before it asks for the key, or returns it.
Recover(r) ==
  /\ runState[r] = "EXECUTING" /\ spender[r] = "idle"
  /\ Rest(r) /\ OnlyRun /\ UNCHANGED vaultVars

RunNext(r) ==
  \/ Cancel(r) \/ Cancelled(r) \/ Alarm(r) \/ AlarmRefused(r) \/ Acquired(r)
  \/ AcquireRefused(r) \/ MoveOn(r) \/ Finish(r) \/ Return(r) \/ Keep(r) \/ Recover(r)

-----------------------------------------------------------------------------
(* finishSetup() connecting a key, disconnect(), and the clock. *)

NoStore == [step |-> "idle", registry |-> 0, vault |-> 0]

AskRegistry(s) ==
  /\ store[s].step = "idle" /\ Writable(registryLock)
  /\ store' = [store EXCEPT ![s].step = "registry", ![s].registry = registryLock.generation]
  /\ UNCHANGED <<vaultVars, registry, runs, requests, deletion>>

AskVault(s) ==
  /\ store[s].step = "registry"
  /\ store' = [store EXCEPT ![s] =
                 IF Writable(vaultLock)
                 THEN [@ EXCEPT !.step = "vault", !.vault = vaultLock.generation]
                 ELSE NoStore]
  /\ UNCHANGED <<vaultVars, registry, runs, requests, deletion>>

\* The key has been tried at its provider meanwhile.
AskRegistryAgain(s) ==
  /\ store[s].step = "vault"
  /\ store' = [store EXCEPT ![s] =
                 IF Admits(registryLock, store[s].registry)
                 THEN [@ EXCEPT !.step = "rechecked"] ELSE NoStore]
  /\ UNCHANGED <<vaultVars, registry, runs, requests, deletion>>

\* The vault is asked again, and storeCredential() asks itself.
BeginStore(s) ==
  /\ store[s].step = "rechecked"
  /\ \/ /\ BeginStoreCredential(s, store[s].vault)
        /\ store' = [store EXCEPT ![s].step = "sealing"]
     \/ /\ ~Admits(vaultLock, store[s].vault)
        /\ store' = [store EXCEPT ![s] = NoStore]
        /\ UNCHANGED vaultVars
  /\ UNCHANGED <<registry, runs, requests, deletion>>

EndStore(s) ==
  /\ store[s].step = "sealing"
  /\ EndStoreCredential(s, store[s].vault)
  /\ store' = [store EXCEPT ![s] = NoStore]
  /\ UNCHANGED <<registry, runs, requests, deletion>>

StoreNext(s) ==
  AskRegistry(s) \/ AskVault(s) \/ AskRegistryAgain(s) \/ BeginStore(s) \/ EndStore(s)

VaultOnly ==
  /\ Disconnect \/ Midnight \/ LeaseLapses
  /\ UNCHANGED <<registry, runs, requests, store, deletion>>

-----------------------------------------------------------------------------
(* deleteIndexedAccountData(). *)

NoDeletion == [step |-> "idle", toView |-> {}, active |-> FALSE, toPurge |-> {}]

At(d, step) == deletion[d].step = step /\ UNCHANGED <<requests, store, cancelling, createdUnder>>
Become(d, state) == deletion' = [deletion EXCEPT ![d] = state]

\* It throws: locks that are set stay set.
GiveUp(d) == Become(d, NoDeletion)

LockRegistry(d) ==
  /\ At(d, "idle")
  /\ registryLock.deleting \/ registryLock.generation < MaxGenerations
  /\ registryLock' = BeginDeletion(registryLock)
  /\ Become(d, [NoDeletion EXCEPT !.step = "lockVault"])
  /\ UNCHANGED <<vaultVars, index, registryPurged, runState>>

LockVaultToo(d) ==
  /\ At(d, "lockVault")
  /\ LockVault
  /\ Become(d, [NoDeletion EXCEPT !.step = "list"])
  /\ UNCHANGED <<registry, runState>>

\* readAccountData() asks for the list, the number of runs and the lease at the
\* same time.  inventoryComplete: the list is below the limit of listRuns(); a
\* list that is not as long as the number ends like a call that fails.
ListRuns(d) ==
  /\ At(d, "list")
  /\ IF Cardinality(index) < IndexLimit
     THEN Become(d, [NoDeletion EXCEPT !.step = "lease", !.toView = index])
     ELSE GiveUp(d)
  /\ UNCHANGED <<vaultVars, registry, runState>>

ReadLease(d) ==
  /\ At(d, "lease")
  /\ Become(d, [deletion[d] EXCEPT !.step = "view", !.active = ReportsActiveRun])
  /\ UNCHANGED <<vaultVars, registry, runState>>

\* Mutant: a run that cannot be deleted is passed over.
MutantViewRun(d, r) ==
  /\ At(d, "view") /\ r \in deletion[d].toView
  /\ Become(d, [deletion[d] EXCEPT
                  !.toView = @ \ {r},
                  !.toPurge = IF Deletable(r) THEN @ \cup {r} ELSE @])
  /\ UNCHANGED <<vaultVars, registry, runState>>

ViewRun(d, r) ==
  /\ At(d, "view") /\ r \in deletion[d].toView
  /\ Become(d, [deletion[d] EXCEPT
                  !.toView = @ \ {r},
                  !.active = @ \/ (Exists(r) /\ ~Deletable(r)),
                  !.toPurge = IF Exists(r) THEN @ \cup {r} ELSE @])
  /\ UNCHANGED <<vaultVars, registry, runState>>

Refused(d) == deletion[d].toView = {} /\ deletion[d].active
Accepted(d) == deletion[d].toView = {} /\ ~deletion[d].active

\* AccountDeletionRefused: both locks are taken back.
UnlockVaultFirst(d) ==
  /\ At(d, "view") /\ Refused(d)
  /\ UnlockVault
  /\ Become(d, [NoDeletion EXCEPT !.step = "unlockRegistry"])
  /\ UNCHANGED <<registry, runState>>

UnlockRegistry(d) ==
  /\ At(d, "unlockRegistry")
  /\ registryLock' = EndDeletion(registryLock)
  /\ GiveUp(d)
  /\ UNCHANGED <<vaultVars, index, registryPurged, runState>>

\* purge() throws when the run is gone or cannot be deleted.
PurgeRun(d, r) ==
  /\ At(d, "view") /\ Accepted(d) /\ r \in deletion[d].toPurge
  /\ IF Deletable(r)
     THEN SetRun(r, "MISSING") /\ Become(d, [deletion[d] EXCEPT !.toPurge = @ \ {r}])
     ELSE GiveUp(d) /\ UNCHANGED runState
  /\ UNCHANGED <<vaultVars, registry>>

PurgeVaultNext(d) ==
  /\ At(d, "view") /\ Accepted(d) /\ deletion[d].toPurge = {}
  /\ \/ PurgeVault /\ Become(d, [NoDeletion EXCEPT !.step = "purgeRegistry"])
     \/ RefusePurge /\ GiveUp(d)
  /\ UNCHANGED <<registry, runState>>

PurgeRegistry(d) ==
  /\ At(d, "purgeRegistry")
  /\ IF registryLock.deleting
     THEN /\ index' = {}
          /\ registryLock' = EndDeletion(registryLock)
          /\ registryPurged' = registryLock.generation
     ELSE UNCHANGED registry
  /\ GiveUp(d)
  /\ UNCHANGED <<vaultVars, runState>>

\* A call fails, or the worker that serves the deletion is gone.
DeletionDies(d) ==
  /\ deletion[d].step # "idle" /\ At(d, deletion[d].step)
  /\ GiveUp(d)
  /\ UNCHANGED <<vaultVars, registry, runState>>

DeletionNext(d) ==
  \/ LockRegistry(d) \/ LockVaultToo(d) \/ ListRuns(d) \/ ReadLease(d)
  \/ \E r \in Runs : ViewRun(d, r) \/ PurgeRun(d, r)
  \/ UnlockVaultFirst(d) \/ UnlockRegistry(d) \/ PurgeVaultNext(d)
  \/ PurgeRegistry(d) \/ DeletionDies(d)

-----------------------------------------------------------------------------

Init ==
  /\ VaultInit
  /\ registryLock = NoLock /\ index = {} /\ registryPurged = 0
  /\ runState = [r \in Runs |-> "MISSING"]
  /\ cancelling = [r \in Runs |-> FALSE]
  /\ createdUnder = [r \in Runs |-> 0]
  /\ request = [r \in Runs |-> "none"]
  /\ admitted = [r \in Runs |-> 0]
  /\ store = [s \in Stores |-> NoStore]
  /\ deletion = [d \in Deletions |-> NoDeletion]

Next ==
  \/ \E r \in Runs : RequestNext(r) \/ RunNext(r)
  \/ \E s \in Stores : StoreNext(s)
  \/ \E d \in Deletions : DeletionNext(d)
  \/ VaultOnly

Spec == Init /\ [][Next]_vars

-----------------------------------------------------------------------------
(* Properties. *)

\* Every variable has its type.
TypeOK ==
  /\ VaultTypeOK
  /\ registryLock \in Locks /\ index \subseteq Runs /\ registryPurged \in Nat
  /\ runState \in [Runs -> RunStates]
  /\ cancelling \in [Runs -> BOOLEAN]
  /\ createdUnder \in [Runs -> Nat]
  /\ request \in [Runs -> RequestSteps]
  /\ admitted \in [Runs -> Nat]
  /\ store \in [Stores -> [step : StoreSteps, registry : Nat, vault : Nat]]
  /\ deletion \in [Deletions ->
       [step : DeletionSteps, toView : SUBSET Runs, active : BOOLEAN, toPurge : SUBSET Runs]]

\* docs/PRIVACY.md:72 of the index: a run that is indexed after a deletion was
\* admitted after it, however many deletions overlap, are refused, fail or are
\* retried, and wherever its request waited.  Equal generations tell before from
\* after because nothing admitted before a fence rose bears its generation.
StaleRequestsFenced ==
  /\ \A r \in index : admitted[r] >= registryPurged
  /\ registryLock.deleting => \A r \in Runs : admitted[r] < registryLock.generation

\* A deletion that drops the index has deleted every run it was the way to, but
\* for those that were created behind the fence; and no key is left.
DeletionIsComplete ==
  [][registryPurged' # registryPurged =>
       /\ ~credential
       /\ \A r \in index : Exists(r) => createdUnder[r] = registryLock.generation]_vars

=============================================================================
