------------------------ MODULE CredentialVaultProofs ------------------------
(* Theorems about CredentialVault, for any number of runs and requests, any *)
(* daily limit and any number of deletions.                                 *)
EXTENDS CredentialVault, TLAPS

-----------------------------------------------------------------------------
(* The operators on the quota row keep its type. *)

\* ensureQuota() leaves a well-formed row with the lease that is live.
LEMMA EnsureQuotaType ==
  ASSUME VaultTypeOK
  PROVE  /\ EnsureQuota(quota) \in Quotas
         /\ Leased(EnsureQuota(quota)) <=> Leased(quota)
         /\ Leased(quota) => EnsureQuota(quota).holder = quota.holder
BY DailyLimitAssumption DEF VaultTypeOK, Quotas, EnsureQuota, Leased

\* A release leaves a well-formed row, and the row of another run as it is.
LEMMA ReleasedType ==
  ASSUME VaultTypeOK, NEW r \in Runs
  PROVE  /\ Released(r) \in Quotas
         /\ quota.holder # r => Released(r) = quota
BY DEF VaultTypeOK, Quotas, Released

-----------------------------------------------------------------------------

\* No row is well formed too.
LEMMA NoQuotaType == NoQuota \in Quotas
<1>1. 0 \in 0 .. DailyLimit
  BY DailyLimitAssumption
<1> QED
  BY <1>1 DEF NoQuota, Quotas

\* The initial state has its type.
LEMMA VaultInitType == VaultInit => VaultTypeOK
<1>1. NoLock \in Locks
  BY DEF NoLock, Locks
<1>2. ASSUME VaultInit
      PROVE  spender \in [Runs -> {"idle", "unsealing", "executing", "releasing"}]
  BY <1>2 DEF VaultInit
<1>3. 0 \in Nat
  OBVIOUS
<1> QED
  BY <1>1, <1>2, <1>3, NoQuotaType, Zenon DEF VaultInit, VaultTypeOK

\* Every call of the vault keeps the types.
LEMMA VaultTypeStep == VaultTypeOK /\ [VaultNext]_vaultVars => VaultTypeOK'
<1> SUFFICES ASSUME VaultTypeOK, [VaultNext]_vaultVars PROVE VaultTypeOK'
  OBVIOUS
<1> USE DEF VaultTypeOK
<1>q. EnsureQuota(quota) \in Quotas
  BY EnsureQuotaType
<1>r. ASSUME NEW r \in Runs PROVE Released(r) \in Quotas
  BY ReleasedType
<1>1. ASSUME NEW s \in Stores, NEW g \in 0 .. MaxGenerations, BeginStoreCredential(s, g)
      PROVE VaultTypeOK'
  BY <1>1, GenerationsAssumption DEF BeginStoreCredential, rows
<1>2. ASSUME NEW s \in Stores, NEW g \in 0 .. MaxGenerations, EndStoreCredential(s, g)
      PROVE VaultTypeOK'
  BY <1>2, <1>q, GenerationsAssumption DEF EndStoreCredential, rows
<1>3. CASE Disconnect
  BY <1>3, <1>q DEF Disconnect
<1>4. ASSUME NEW r \in Runs, GrantLease(r) PROVE VaultTypeOK'
  <2> DEFINE q == EnsureQuota(quota)
  <2>1. /\ q \in Quotas
        /\ Leased(q) \/ q.used < DailyLimit
    BY <1>4, <1>q DEF GrantLease, Grants
  <2>2. quota' = [q EXCEPT !.holder = r, !.live = TRUE,
                           !.used = IF Leased(q) THEN @ ELSE @ + 1]
    BY <1>4 DEF GrantLease, Lease
  <2> HIDE DEF q
  <2>3. quota' \in Quotas
    <3>1. CASE Leased(q)
      BY <2>1, <2>2, <3>1 DEF Quotas
    <3>2. CASE ~Leased(q)
      <4>1. q.used + 1 \in 0 .. DailyLimit
        BY <2>1, <3>2, DailyLimitAssumption DEF Quotas
      <4> QED
        BY <2>1, <2>2, <3>2, <4>1 DEF Quotas
    <3> QED
      BY <3>1, <3>2
  <2> QED
    BY <1>4, <2>3 DEF GrantLease, Lease, Spend
<1>5. ASSUME NEW r \in Runs, DenyLease(r) PROVE VaultTypeOK'
  BY <1>5, <1>q DEF DenyLease, Lease, Spend
<1>6. ASSUME NEW r \in Runs,
             BeginAcquire(r) \/ EndExecution(r) \/ KeepLease(r)
      PROVE VaultTypeOK'
  BY <1>6 DEF BeginAcquire, EndExecution, KeepLease, Spend, vault, rows
<1>7. ASSUME NEW r \in Runs, ReturnLease(r) \/ CancelLease(r) PROVE VaultTypeOK'
  BY <1>7, <1>r DEF ReturnLease, CancelLease, Spend, Lease
<1>8. CASE LockVault
  BY <1>8 DEF LockVault, BeginDeletion, Locks, rows
<1>9. CASE UnlockVault
  BY <1>9 DEF UnlockVault, EndDeletion, Locks, rows
<1>10. CASE PurgeVault
  BY <1>10, NoQuotaType DEF PurgeVault, EndDeletion, Locks
<1>11. CASE RefusePurge
  BY <1>11, <1>q DEF RefusePurge, Lease
<1>12. CASE Midnight \/ LeaseLapses
  BY <1>12 DEF Midnight, LeaseLapses, Lease, Quotas
<1>13. CASE UNCHANGED vaultVars
  BY <1>13 DEF vaultVars, vault, rows
<1> QED
  BY <1>1, <1>2, <1>3, <1>4, <1>5, <1>6, <1>7, <1>8, <1>9, <1>10, <1>11, <1>12, <1>13
     DEF VaultNext

\* The vault has its types whatever its callers do, and the day's limit is never
\* exceeded (the type of the row's counter).
THEOREM VaultTypeCorrect == VaultSpec => []VaultTypeOK
BY VaultInitType, VaultTypeStep, PTL DEF VaultSpec

-----------------------------------------------------------------------------
(* The fence. *)

\* What StaleKeyFenced needs to be inductive: no generation is ahead of the
\* vault's, and a purge is one of its own.
GenerationsKnown ==
  /\ vaultLock.generation <= MaxGenerations
  /\ vaultPurged <= vaultLock.generation
  /\ credential => storedUnder <= vaultLock.generation
  /\ \A call \in sealing : call[2] <= vaultLock.generation

VaultInv == VaultTypeOK /\ GenerationsKnown /\ StaleKeyFenced

\* No key, no deletion, no request.
LEMMA VaultInvInit == VaultInit => VaultInv
BY VaultInitType, GenerationsAssumption
   DEF VaultInv, VaultInit, GenerationsKnown, StaleKeyFenced, NoLock

\* Only four calls touch what the fence is about.
LEMMA VaultInvStep == VaultInv /\ [VaultNext]_vaultVars => VaultInv'
<1> SUFFICES ASSUME VaultInv, [VaultNext]_vaultVars
             PROVE GenerationsKnown' /\ StaleKeyFenced'
  BY VaultTypeStep DEF VaultInv
<1> USE GenerationsAssumption DEF VaultInv, VaultTypeOK, Locks, GenerationsKnown, StaleKeyFenced
<1>1. ASSUME NEW s \in Stores, NEW g \in 0 .. MaxGenerations, BeginStoreCredential(s, g)
      PROVE GenerationsKnown' /\ StaleKeyFenced'
  BY <1>1 DEF BeginStoreCredential, Admits, Writable, rows
<1>2. ASSUME NEW s \in Stores, NEW g \in 0 .. MaxGenerations, EndStoreCredential(s, g)
      PROVE GenerationsKnown' /\ StaleKeyFenced'
  BY <1>2 DEF EndStoreCredential, Admits, Writable, rows
<1>3. CASE Disconnect
  BY <1>3 DEF Disconnect
<1>4. ASSUME NEW r \in Runs,
             GrantLease(r) \/ DenyLease(r) \/ ReturnLease(r) \/ CancelLease(r)
      PROVE GenerationsKnown' /\ StaleKeyFenced'
  BY <1>4 DEF GrantLease, DenyLease, ReturnLease, CancelLease, Lease
<1>5. ASSUME NEW r \in Runs,
             BeginAcquire(r) \/ EndExecution(r) \/ KeepLease(r)
      PROVE GenerationsKnown' /\ StaleKeyFenced'
  BY <1>5 DEF BeginAcquire, EndExecution, KeepLease, vault, rows
<1>6. CASE LockVault
  BY <1>6 DEF LockVault, BeginDeletion, rows
<1>7. CASE UnlockVault
  BY <1>7 DEF UnlockVault, EndDeletion, rows
<1>8. CASE PurgeVault
  BY <1>8 DEF PurgeVault, CanPurge, EndDeletion
<1>9. CASE RefusePurge \/ Midnight \/ LeaseLapses
  BY <1>9 DEF RefusePurge, Midnight, LeaseLapses, Lease
<1>10. CASE UNCHANGED vaultVars
  BY <1>10 DEF vaultVars, vault, rows
<1> QED
  BY <1>1, <1>2, <1>3, <1>4, <1>5, <1>6, <1>7, <1>8, <1>9, <1>10 DEF VaultNext

\* VaultInv holds in every state.
LEMMA VaultInvariant == VaultSpec => []VaultInv
BY VaultInvInit, VaultInvStep, PTL DEF VaultSpec

\* A key that is stored was connected by a request admitted after the last purge,
\* whatever calls of storeCredential and of deletions interleave.
THEOREM StaleKeysFenced == VaultSpec => []StaleKeyFenced
<1>1. VaultInv => StaleKeyFenced
  BY DEF VaultInv
<1> QED
  BY <1>1, VaultInvariant, PTL

-----------------------------------------------------------------------------
(* The lease. *)

\* One step of the vault takes no executing run's lease but by time or cancel().
LEMMA LeaseStep ==
  ASSUME VaultTypeOK, [VaultNext]_vaultVars, NEW r \in Runs,
         LeasedTo(r), spender[r] = "executing", ~LeasedTo(r)'
  PROVE  LeaseLapses \/ CancelLease(r)
<1> USE DEF VaultTypeOK, LeasedTo
<1>l. Leased(quota)
  BY NoneAssumption DEF Leased
<1>q. LET q == EnsureQuota(quota) IN
        q \in Quotas /\ q.holder = r /\ q.live /\ Leased(q)
  BY <1>l, EnsureQuotaType DEF EnsureQuota, Quotas
<1>o. ASSUME NEW p \in Runs, p # r PROVE Released(p) = quota
  BY <1>o, ReleasedType
<1>1. ASSUME NEW s \in Stores, NEW g \in 0 .. MaxGenerations,
             BeginStoreCredential(s, g) \/ EndStoreCredential(s, g)
      PROVE FALSE
  BY <1>1, <1>q DEF BeginStoreCredential, EndStoreCredential, rows
<1>2. CASE Disconnect
  BY <1>2, <1>q DEF Disconnect
<1>3. ASSUME NEW p \in Runs, GrantLease(p) PROVE FALSE
  <2>1. p = r
    BY <1>3, <1>q DEF GrantLease, Grants
  <2> QED
    BY <1>3, <1>q, <2>1 DEF GrantLease, Lease, Quotas
<1>4. ASSUME NEW p \in Runs, DenyLease(p) PROVE FALSE
  BY <1>4, <1>q DEF DenyLease, Lease
<1>5. ASSUME NEW p \in Runs,
             BeginAcquire(p) \/ EndExecution(p) \/ KeepLease(p)
      PROVE FALSE
  BY <1>5 DEF BeginAcquire, EndExecution, KeepLease, vault, rows
<1>6. ASSUME NEW p \in Runs, ReturnLease(p) PROVE FALSE
  <2>1. p # r
    BY <1>6 DEF ReturnLease, Spend
  <2> QED
    BY <1>6, <2>1, <1>o DEF ReturnLease, Lease
<1>7. ASSUME NEW p \in Runs, CancelLease(p) PROVE p = r
  BY <1>7, <1>o DEF CancelLease, Lease
<1>8. CASE LockVault \/ UnlockVault
  BY <1>8 DEF LockVault, UnlockVault, rows
<1>9. CASE PurgeVault
  BY <1>9, <1>l DEF PurgeVault, CanPurge
<1>10. CASE RefusePurge
  BY <1>10, <1>q DEF RefusePurge, Lease
<1>11. CASE Midnight
  BY <1>11 DEF Midnight, Lease, Quotas
<1>12. CASE UNCHANGED vaultVars
  BY <1>12 DEF vaultVars, vault, rows
<1> QED
  BY <1>1, <1>2, <1>3, <1>4, <1>5, <1>6, <1>7, <1>8, <1>9, <1>10, <1>11, <1>12
     DEF VaultNext

\* One step of the vault takes no key from under a lease.
LEMMA KeyStep ==
  ASSUME VaultTypeOK, VaultNext, credential, ~credential'
  PROVE  ~Leased(quota)
<1>1. Disconnect \/ PurgeVault
  BY DEF VaultNext, BeginStoreCredential, EndStoreCredential, BeginAcquire,
         GrantLease, DenyLease, EndExecution, ReturnLease, KeepLease, CancelLease,
         LockVault, UnlockVault, RefusePurge, Midnight, LeaseLapses, Lease, vault, rows
<1> QED
  BY <1>1 DEF Disconnect, PurgeVault, CanPurge

\* The lease of a run that executes is its own: it ends by lapsing or by the run's
\* own cancel(), and by nothing that any number of other runs, requests and
\* deletions do; and no call removes the key from under it.
THEOREM LeasesKept == VaultSpec => LeaseIsItsHolders
<1>1. VaultTypeOK /\ [VaultNext]_vaultVars =>
        [ /\ \A r \in Runs :
               LeasedTo(r) /\ spender[r] = "executing" /\ ~LeasedTo(r)'
               => LeaseLapses \/ CancelLease(r)
          /\ credential /\ ~credential' => ~Leased(quota) ]_vaultVars
  BY LeaseStep, KeyStep
<1> QED
  BY <1>1, VaultTypeCorrect, PTL DEF VaultSpec, LeaseIsItsHolders

=============================================================================
