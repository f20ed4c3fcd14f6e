----------------------------- MODULE Marketplace -----------------------------
(***************************************************************************)
(* What the registry keeps of one GitHub account's Marketplace purchase    *)
(* (maintenance-registry.ts), and the requests that write it               *)
(* (github-marketplace.ts): webhooks, which GitHub sends late, twice or in *)
(* another order, and which leave a receipt when they fail, and the        *)
(* browser that comes back from an installation.                           *)
(***************************************************************************)
EXTENDS Integers, Sequences, FiniteSets, SequencesExt

CONSTANTS
  Deliveries,    \* delivery ids
  Handlers,      \* bound of the model: webhook requests at once
  Installs,      \* one-time states of an installation
  Callbacks,     \* bound of the model: browsers that come back at once
  Histories,     \* bound of the model: what GitHub may send, by delivery id
  MaxTime,       \* bound of the model
  Day,           \* how long a failure is reported (24 hours)
  Retention,     \* how long a receipt is kept (30 days)
  LogLimit,      \* how many receipts are kept (500)
  None

ASSUME TimesAssumption ==
  /\ {MaxTime, Day, Retention} \subseteq Nat /\ LogLimit \in Nat \ {0}
  /\ Day <= Retention

VARIABLES
  now,
  type,         \* of the account
  sent,         \* per delivery id: the event of GitHub, which arrives late, repeatedly
                \* or not at all
  entitlement,  \* the row of the account, or None
  delivered,    \* webhook_deliveries, in the order of arrival
  receipts,     \* marketplace_webhook_failures, by row
  handler,      \* per webhook request: where it is
  pending,      \* the installations whose state is stored
  callback,     \* per browser: where it is
  since,        \* history: how many deliveries had arrived at the last purge
  failing       \* history: per delivery, when its processing failed, or None: not within a
                \* day, or it has been recorded

external == <<type, sent>>
rows == <<entitlement, delivered, since>>
log == <<receipts, failing>>
vars == <<now, external, rows, log, handler, pending, callback>>

Times == 0 .. MaxTime
Actions == {"purchased", "changed", "cancelled", "pending_change", "pending_change_cancelled"}
Events == [action : Actions, effective : Times]

ASSUME HistoriesAssumption == Histories \subseteq [Deliveries -> Events]

marketplaceState(action) ==
  CASE action = "cancelled" -> "CANCELLED"
    [] action = "pending_change" -> "PENDING_CHANGE"
    [] OTHER -> "ACTIVE"

\* The plan and the names of a row are those of the event it is `from`.
Entitlements ==
  [state : {"ACTIVE", "PENDING_CHANGE", "CANCELLED"}, effective : Times,
   authorized : BOOLEAN, from : Deliveries \cup Installs]
\* A receipt, by the delivery whose processing failed, and whether something has
\* resolved it since; a failure of the configuration is resolved by anything.
Receipts == [about : Deliveries \cup {"configuration", "resolved"}, at : Times]

Arrived == ToSet(delivered)
Idle == [step |-> "idle"]

\* The rows of the table; which of them a receipt has does not matter.
Slots == 1 .. LogLimit

ASSUME NamesAssumption ==
  /\ Deliveries \cap {"configuration", "resolved"} = {} /\ Deliveries \cap Installs = {}
  /\ None \notin Times /\ None \notin Entitlements

-----------------------------------------------------------------------------
(* recordMarketplacePurchase(). *)

\* Mutant: the upsert has no WHERE.
MutantSupersedes(effective) == TRUE

Supersedes(effective) == entitlement = None \/ entitlement.effective <= effective

\* COALESCE(excluded, stored).
Authorized(authorized) == authorized \/ (entitlement # None /\ entitlement.authorized)

Recorded(action, effective, authorized, from) ==
  IF Supersedes(effective)
  THEN [state |-> marketplaceState(action), effective |-> effective,
        authorized |-> Authorized(authorized), from |-> from]
  ELSE entitlement

-----------------------------------------------------------------------------
(* The webhook. *)

At(h, step) == handler[h].step = step
Goes(h, step) == handler' = [handler EXCEPT ![h].step = step]
Ends(h) == handler' = [handler EXCEPT ![h] = Idle]

Young == { n \in DOMAIN receipts : receipts[n].at >= now - Retention }

\* Mutant: the order of the receipts is the other one.
MutantOldest(rows_) == { n \in rows_ : \A m \in rows_ : receipts[m].at <= receipts[n].at }

Oldest(rows_) == { n \in rows_ : \A m \in rows_ : receipts[n].at <= receipts[m].at }

\* Receipts that are too old go, and when there are too many still, an oldest one:
\* of those of one time any may be that one, the new one too (ORDER BY observed_at).
recordMarketplaceWebhookFailure(about) ==
  LET full == Cardinality(Young) >= LogLimit
      room == IF full THEN Oldest(Young) ELSE {CHOOSE n \in Slots : n \notin Young}
  IN \/ \E n \in room :
          receipts' = [ m \in Young \cup {n} |->
                          IF m = n THEN [about |-> about, at |-> now] ELSE receipts[m] ]
     \/ /\ full /\ \A n \in Young : receipts[n].at = now
        /\ receipts' = [n \in Young |-> receipts[n]]

\* By a delivery that was accepted, with includeConfiguration.
Resolves(x, d) == x.about \in {d, "configuration"}

resolveMarketplaceWebhookFailures(d) ==
  receipts' = [n \in DOMAIN receipts |->
    IF Resolves(receipts[n], d) THEN [receipts[n] EXCEPT !.about = "resolved"] ELSE receipts[n]]

\* A webhook that finds no secret, as any deployment may leave it.
RefuseUnconfigured ==
  /\ recordMarketplaceWebhookFailure("configuration")
  /\ UNCHANGED <<now, external, rows, failing, handler, pending, callback>>

Ping ==
  /\ resolveMarketplaceWebhookFailures("configuration")
  /\ UNCHANGED <<now, external, rows, failing, handler, pending, callback>>

\* A pending change is announced before it takes effect.
Occurred(d) == sent[d].effective <= now \/ sent[d].action = "pending_change"

Receive(h, d) ==
  /\ At(h, "idle") /\ Occurred(d)
  /\ handler' = [handler EXCEPT ![h] = [step |-> "ingest", delivery |-> d]]
  /\ UNCHANGED <<now, external, rows, log, pending, callback>>

\* Mutant: the deliveries are not asked.
MutantDuplicate(d) == FALSE

Duplicate(d) == d \in Arrived

\* ingestMarketplaceWebhook(): one turn of the registry.  A duplicate of an
\* account that was purged since throws.
Ingest(h) ==
  LET d == handler[h].delivery
      e == sent[d]
  IN /\ At(h, "ingest")
     /\ IF Duplicate(d)
        THEN /\ Goes(h, IF entitlement = None THEN "failed" ELSE "resolve")
             /\ UNCHANGED rows
        ELSE /\ entitlement' = Recorded(e.action, e.effective, FALSE, d)
             /\ delivered' = Append(delivered, d)
             /\ \/ Goes(h, "resolve")
                \/ Goes(h, "failed")     \* the answer of the registry is lost
             /\ UNCHANGED since
     /\ failing' = [failing EXCEPT ![d] = None]
     /\ UNCHANGED <<now, external, receipts, pending, callback>>

ResolveFailures(h) ==
  /\ At(h, "resolve")
  /\ resolveMarketplaceWebhookFailures(handler[h].delivery)
  /\ \/ Ends(h)
     \/ Goes(h, "failed")
  /\ UNCHANGED <<now, external, rows, failing, pending, callback>>

\* Either call to the registry throws.
CallFails(h) ==
  /\ At(h, "ingest") \/ At(h, "resolve")
  /\ Goes(h, "failed")
  /\ UNCHANGED <<now, external, rows, log, pending, callback>>

RecordFailure(h) ==
  LET d == handler[h].delivery
  IN /\ At(h, "failed")
     /\ recordMarketplaceWebhookFailure(d)
     /\ failing' = IF d \in Arrived THEN failing ELSE [failing EXCEPT ![d] = now]
     /\ Ends(h)
     /\ UNCHANGED <<now, external, rows, pending, callback>>

\* The receipt cannot be written either, or the worker dies.
HandlerDies(h) ==
  /\ handler[h] # Idle /\ Ends(h)
  /\ UNCHANGED <<now, external, rows, log, pending, callback>>

-----------------------------------------------------------------------------
(* The installation. *)

beginMarketplaceInstall(i) ==
  /\ i \notin pending /\ pending' = pending \cup {i}
  /\ UNCHANGED <<now, external, rows, log, handler, callback>>

Expire(i) ==
  /\ i \in pending /\ pending' = pending \ {i}
  /\ UNCHANGED <<now, external, rows, log, handler, callback>>

\* completeMarketplaceInstall(): OAUTH_KV.get ...
ReadState(c, i) ==
  /\ callback[c] = Idle /\ i \in pending
  /\ callback' = [callback EXCEPT ![c] = [step |-> "read", install |-> i]]
  /\ UNCHANGED <<now, external, rows, log, handler, pending>>

\* ... and OAUTH_KV.delete.
DeleteState(c) ==
  /\ callback[c].step = "read"
  /\ pending' = pending \ {callback[c].install}
  /\ callback' = [callback EXCEPT ![c].step = "asking"]
  /\ UNCHANGED <<now, external, rows, log, handler>>

\* getAuthenticatedMarketplacePurchases() has found one for the plan, at some time
\* since; it is recorded as of the present time.
RecordPurchase(c) ==
  /\ callback[c].step = "asking"
  /\ entitlement' = Recorded("purchased", now, TRUE, callback[c].install)
  /\ callback' = [callback EXCEPT ![c] = Idle]
  /\ UNCHANGED <<now, external, delivered, since, log, handler, pending>>

\* There is no purchase, a call fails, or the worker dies.
CallbackEnds(c) ==
  /\ callback[c] # Idle
  /\ callback' = [callback EXCEPT ![c] = Idle]
  /\ UNCHANGED <<now, external, rows, log, handler, pending>>

-----------------------------------------------------------------------------
(* The rest of the system. *)

\* purgeAccount() of the account, or of the organization's authoriser.  What
\* was delivered is remembered.
purgeAccount ==
  /\ entitlement # None
  /\ IF type = "User"
     THEN entitlement' = None /\ since' = Len(delivered)
     ELSE entitlement' = [entitlement EXCEPT !.authorized = FALSE] /\ UNCHANGED since
  /\ UNCHANGED <<now, external, delivered, log, handler, pending, callback>>

Tick ==
  /\ now < MaxTime /\ now' = now + 1
  /\ failing' = [d \in Deliveries |->
       IF failing[d] # None /\ failing[d] >= now' - Day THEN failing[d] ELSE None]
  /\ UNCHANGED <<external, rows, receipts, handler, pending, callback>>

-----------------------------------------------------------------------------
Init ==
  /\ now = 0 /\ type \in {"User", "Organization"}
  /\ sent \in Histories
  /\ entitlement = None /\ delivered = <<>> /\ since = 0
  /\ receipts = [n \in {} |-> None] /\ failing = [d \in Deliveries |-> None]
  /\ handler = [h \in Handlers |-> Idle]
  /\ pending = {} /\ callback = [c \in Callbacks |-> Idle]

Next ==
  \/ \E h \in Handlers :
       \/ \E d \in Deliveries : Receive(h, d)
       \/ Ingest(h) \/ ResolveFailures(h) \/ CallFails(h) \/ RecordFailure(h) \/ HandlerDies(h)
  \/ RefuseUnconfigured \/ Ping
  \/ \E i \in Installs :
       \/ beginMarketplaceInstall(i) \/ Expire(i)
       \/ \E c \in Callbacks : ReadState(c, i)
  \/ \E c \in Callbacks :
       DeleteState(c) \/ RecordPurchase(c) \/ CallbackEnds(c)
  \/ purgeAccount \/ Tick

Spec == Init /\ [][Next]_vars

-----------------------------------------------------------------------------
(* Properties. *)

\* Every variable keeps its type: a delivery is recorded once (the column is a
\* primary key), and the receipts stay within their number and their age.
TypeOK ==
  /\ now \in Times /\ sent \in [Deliveries -> Events]
  /\ entitlement \in Entitlements \cup {None}
  /\ delivered \in Seq(Deliveries) /\ IsInjective(delivered)
  /\ receipts \in [DOMAIN receipts -> Receipts]
  /\ DOMAIN receipts \subseteq Slots
  /\ failing \in [Deliveries -> Times \cup {None}]
  /\ \A h \in Handlers :
       handler[h] = Idle
       \/ handler[h] \in [step : {"ingest", "resolve", "failed"}, delivery : Deliveries]
  /\ pending \subseteq Installs
  /\ \A c \in Callbacks :
       callback[c] = Idle
       \/ callback[c] \in [step : {"read", "asking"}, install : Installs]

\* However the events of GitHub arrive, the row is that of the newest effective
\* date among those recorded since the last purge, and of two with the same
\* date that of the one that arrived last for the first time: a redelivery does
\* not bring an event back (recordMarketplacePurchase's WHERE and the deliveries
\* that ingestMarketplaceWebhook asks).
EntitlementIsNewest ==
  \A n \in DOMAIN delivered : n > since =>
    /\ entitlement # None
    /\ sent[delivered[n]].effective <= entitlement.effective
    /\ \A m \in since + 1 .. n - 1 :
         ( /\ entitlement.from = delivered[m]
           /\ sent[delivered[m]].effective = entitlement.effective )
         => sent[delivered[n]].effective < entitlement.effective

\* While a delivery has failed and has not been recorded since, the hourly sweep
\* reports it for a day, or there are as many receipts as the log keeps and every
\* one of them is of that time or later: no other delivery, ping, deletion of old
\* receipts or older receipt clears it (INCIDENT-RESPONSE.md,
\* recordMarketplaceWebhookFailure, marketplaceWebhookHealth).
Reported ==
  { receipts[n].about : n \in { m \in DOMAIN receipts : receipts[m].at >= now - Day } }
CrowdedOut(d) ==
  /\ Cardinality(DOMAIN receipts) >= LogLimit
  /\ \A n \in DOMAIN receipts : receipts[n].at >= failing[d]
FailureReported ==
  \A d \in Deliveries : failing[d] # None => d \in Reported \/ CrowdedOut(d)

=============================================================================
