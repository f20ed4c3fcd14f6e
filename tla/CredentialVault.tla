--------------------------- MODULE CredentialVault ---------------------------
(***************************************************************************)
(* The credential vault of one account (credential-vault.ts): the model    *)
(* provider's key, the lease of the one run that may spend it, the daily   *)
(* quota, and the fence that account deletion raises.                      *)
(*                                                                         *)
(* A call of the vault is atomic up to its first wait for cryptography, at *)
(* which other calls interleave.  storeCredential and acquire wait and are *)
(* two actions each; every other call is one.                              *)
(***************************************************************************)
EXTENDS Naturals, Fence

CONSTANTS
  Runs,           \* run ids
  Stores,         \* slots for requests that connect a key
  None,           \* no run
  DailyLimit      \* USER_DAILY_RUN_LIMIT

ASSUME NoneAssumption == None \notin Runs
ASSUME DailyLimitAssumption == DailyLimit \in Nat \ {0}

VARIABLES
  vaultLock,    \* account_control
  credential,   \* there is a credential row
  quota,        \* the quota row, its day and expiry compared with the clock
  sealing,      \* storeCredential calls that seal: slot and generation seen
  spender,      \* what the alarm handler of each run does with the key
  storedUnder,  \* observation: the generation the stored key's request saw
  vaultPurged   \* observation: the generation of the last purge

rows == <<credential, quota>>
vault == <<vaultLock, rows, sealing, storedUnder, vaultPurged>>
vaultVars == <<vault, spender>>

-----------------------------------------------------------------------------
(* The quota row. *)

Quotas ==
  [row : BOOLEAN, today : BOOLEAN, used : 0 .. DailyLimit,
   holder : Runs \cup {None}, live : BOOLEAN]
NoQuota ==
  [row |-> FALSE, today |-> FALSE, used |-> 0, holder |-> None, live |-> FALSE]

Leased(q) == q.holder # None /\ q.live
LeasedTo(r) == quota.holder = r /\ quota.live

EnsureQuota(q) ==
  [row |-> TRUE, today |-> TRUE,
   used |-> IF q.row /\ q.today THEN q.used ELSE 0,
   holder |-> IF q.live THEN q.holder ELSE None,
   live |-> q.live]

\* status().activeRunId: a lease is reported on the day of the row only.
ReportsActiveRun == quota.today /\ Leased(quota)

-----------------------------------------------------------------------------
(* Connecting and disconnecting a key. *)

\* storeCredential() up to the sealing of the key, and after it.
BeginStoreCredential(s, generation) ==
  /\ \A call \in sealing : call[1] # s
  /\ Admits(vaultLock, generation)
  /\ sealing' = sealing \cup {<<s, generation>>}
  /\ UNCHANGED <<vaultLock, rows, storedUnder, vaultPurged, spender>>

EndStoreCredential(s, generation) ==
  /\ <<s, generation>> \in sealing
  /\ sealing' = sealing \ {<<s, generation>>}
  /\ IF Admits(vaultLock, generation)
     THEN credential' = TRUE /\ quota' = EnsureQuota(quota) /\ storedUnder' = generation
     ELSE UNCHANGED <<rows, storedUnder>>
  /\ UNCHANGED <<vaultLock, vaultPurged, spender>>

\* disconnect() refuses while a lease is live.
Disconnect ==
  /\ quota' = EnsureQuota(quota)
  /\ credential' = (credential /\ Leased(quota))
  /\ UNCHANGED <<vaultLock, sealing, storedUnder, vaultPurged, spender>>

-----------------------------------------------------------------------------
(* The lease. *)

Spend(r, from, to) ==
  /\ spender[r] = from
  /\ spender' = [spender EXCEPT ![r] = to]

Lease(q) ==
  /\ quota' = q
  /\ UNCHANGED <<vaultLock, credential, sealing, storedUnder, vaultPurged>>

\* acquire() before it unseals the key, which it must have.
CanAcquire == Writable(vaultLock) /\ credential
BeginAcquire(r) == CanAcquire /\ Spend(r, "idle", "unsealing") /\ UNCHANGED vault

\* Mutant: the runs of the day are not counted.
MutantGrants(r) == LET q == EnsureQuota(quota) IN Leased(q) => q.holder = r

\* acquire() afterwards: the lease is the run's already or is free, and the
\* day's runs are not used up.
Grants(r) ==
  LET q == EnsureQuota(quota)
  IN  IF Leased(q) THEN q.holder = r ELSE q.used < DailyLimit

GrantLease(r) ==
  /\ Grants(r) /\ Spend(r, "unsealing", "executing")
  /\ LET q == EnsureQuota(quota)
     IN  Lease([q EXCEPT !.holder = r, !.live = TRUE,
                         !.used = IF Leased(q) THEN @ ELSE @ + 1])

DenyLease(r) ==
  /\ ~Grants(r) /\ Spend(r, "unsealing", "idle")
  /\ Lease(EnsureQuota(quota))

\* Mutant: the statement does not compare active_run_id.
MutantReleased(r) == [quota EXCEPT !.holder = None, !.live = FALSE]

Released(r) ==
  IF quota.holder = r THEN [quota EXCEPT !.holder = None, !.live = FALSE] ELSE quota

\* The handler is done, and then returns the lease.
EndExecution(r) == Spend(r, "executing", "releasing") /\ UNCHANGED vault
ReturnLease(r) == Spend(r, "releasing", "idle") /\ Lease(Released(r))

\* It keeps the lease, when it defers, or leaves it, when it dies or fails.
KeepLease(r) ==
  /\ \E s \in {"executing", "releasing"} : Spend(r, s, "idle")
  /\ UNCHANGED vault

\* cancel() releases it whatever the handler does.
CancelLease(r) == Lease(Released(r)) /\ UNCHANGED spender

-----------------------------------------------------------------------------
(* Account deletion. *)

LockVault ==
  /\ vaultLock.deleting \/ vaultLock.generation < MaxGenerations
  /\ vaultLock' = BeginDeletion(vaultLock)
  /\ UNCHANGED <<rows, sealing, storedUnder, vaultPurged, spender>>

UnlockVault ==
  /\ vaultLock' = EndDeletion(vaultLock)
  /\ UNCHANGED <<rows, sealing, storedUnder, vaultPurged, spender>>

CanPurge == vaultLock.deleting /\ ~Leased(quota)

PurgeVault ==
  /\ CanPurge
  /\ credential' = FALSE /\ quota' = NoQuota
  /\ vaultLock' = EndDeletion(vaultLock)
  /\ vaultPurged' = vaultLock.generation
  /\ UNCHANGED <<sealing, storedUnder, spender>>

\* purgeAccount() throws; ensureQuota() has written if the lock was there.
RefusePurge ==
  /\ ~CanPurge
  /\ Lease(IF vaultLock.deleting THEN EnsureQuota(quota) ELSE quota)
  /\ UNCHANGED spender

-----------------------------------------------------------------------------
(* The clock. *)

Midnight ==
  /\ quota.today
  /\ Lease([quota EXCEPT !.today = FALSE]) /\ UNCHANGED spender

LeaseLapses ==
  /\ Leased(quota)
  /\ Lease([quota EXCEPT !.live = FALSE]) /\ UNCHANGED spender

-----------------------------------------------------------------------------
(* The vault with any callers. *)

VaultInit ==
  /\ vaultLock = NoLock
  /\ credential = FALSE /\ quota = NoQuota
  /\ sealing = {}
  /\ spender = [r \in Runs |-> "idle"]
  /\ storedUnder = 0 /\ vaultPurged = 0

VaultNext ==
  \/ \E s \in Stores, g \in 0 .. MaxGenerations :
       BeginStoreCredential(s, g) \/ EndStoreCredential(s, g)
  \/ Disconnect
  \/ \E r \in Runs :
       \/ BeginAcquire(r) \/ GrantLease(r) \/ DenyLease(r)
       \/ EndExecution(r) \/ ReturnLease(r) \/ KeepLease(r) \/ CancelLease(r)
  \/ LockVault \/ UnlockVault \/ PurgeVault \/ RefusePurge
  \/ Midnight \/ LeaseLapses

VaultSpec == VaultInit /\ [][VaultNext]_vaultVars

-----------------------------------------------------------------------------
(* Properties. *)

\* Every variable has its type.
VaultTypeOK ==
  /\ vaultLock \in Locks
  /\ credential \in BOOLEAN
  /\ quota \in Quotas
  /\ sealing \subseteq Stores \X Nat
  /\ spender \in [Runs -> {"idle", "unsealing", "executing", "releasing"}]
  /\ storedUnder \in Nat /\ vaultPurged \in Nat

\* docs/PRIVACY.md:72 of the key: a key that is stored after a purge was
\* connected by a request admitted after it, however long the request took to
\* seal it and whatever deletions began, were refused or failed meanwhile.
\* Equal generations tell before from after because nothing that was admitted
\* before a fence rose bears its generation.
StaleKeyFenced ==
  /\ credential => storedUnder >= vaultPurged
  /\ vaultLock.deleting =>
       /\ credential => storedUnder < vaultLock.generation
       /\ \A call \in sealing : call[2] < vaultLock.generation

\* Nobody takes the lease of a run that executes: no other run, neither by
\* acquiring the key nor by a release that comes late, and no deletion.  It ends by
\* lapsing, or by the run's own cancel().  Nor does disconnect() or a deletion
\* take the key from under a lease, on whatever day the lease was taken.
LeaseIsItsHolders ==
  [][ /\ \A r \in Runs :
           LeasedTo(r) /\ spender[r] = "executing" /\ ~LeasedTo(r)'
           => LeaseLapses \/ CancelLease(r)
      /\ credential /\ ~credential' => ~Leased(quota) ]_vaultVars

=============================================================================
