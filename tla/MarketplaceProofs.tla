-------------------------- MODULE MarketplaceProofs --------------------------
(* The safety invariants of Marketplace, for every value of the constants. *)
EXTENDS Marketplace, FiniteSetTheorems, TLAPS

-----------------------------------------------------------------------------
(* The operators of the model. *)

\* The states of a row are the three of the table's CHECK.
LEMMA StateTyped == ASSUME NEW action PROVE marketplaceState(action) \in
  {"ACTIVE", "PENDING_CHANGE", "CANCELLED"}
BY Zenon DEF marketplaceState

\* A date is a number of the model.
LEMMA TimesTyped == Times \subseteq Int /\ MaxTime \in Nat /\ Times = 0 .. MaxTime
BY TimesAssumption DEF Times

\* The upsert leaves a row, of the account's type and never older than the one
\* it met; it is the event's, or the one that was there and newer.
LEMMA RecordedTyped ==
  ASSUME entitlement \in Entitlements \cup {None},
         NEW action, NEW effective \in Times, NEW authorized \in BOOLEAN,
         NEW from \in Deliveries \cup Installs
  PROVE  LET row == Recorded(action, effective, authorized, from)
         IN /\ row \in Entitlements /\ effective <= row.effective
            /\ entitlement # None => entitlement.effective <= row.effective
            /\ \/ row.from = from /\ row.effective = effective
               \/ row = entitlement /\ effective < row.effective
<1> DEFINE row == Recorded(action, effective, authorized, from)
<1>1. Times \subseteq Int
  BY TimesTyped
<1>2. entitlement = None \/ entitlement.effective \in Times
  BY DEF Entitlements
<1>3. CASE Supersedes(effective)
  <2>1. row = [state |-> marketplaceState(action), effective |-> effective,
               authorized |-> Authorized(authorized), from |-> from]
    BY <1>3 DEF Recorded
  <2>2. Authorized(authorized) \in BOOLEAN
    BY DEF Authorized, Entitlements
  <2>3. marketplaceState(action) \in {"ACTIVE", "PENDING_CHANGE", "CANCELLED"}
    BY StateTyped
  <2>4. row \in Entitlements
    BY <2>1, <2>2, <2>3 DEF Entitlements
  <2>5. row.effective = effective /\ row.from = from
    BY <2>1
  <2> QED
    BY <1>1, <1>2, <1>3, <2>4, <2>5 DEF Supersedes
<1>4. CASE ~Supersedes(effective)
  <2>1. row = entitlement /\ entitlement # None
    BY <1>4 DEF Recorded, Supersedes
  <2>2. row \in Entitlements
    BY <2>1
  <2>3. effective \in Int /\ entitlement.effective \in Int
    BY <1>1, <1>2, <2>1
  <2>4. effective < entitlement.effective
    BY <1>4, <2>3 DEF Supersedes
  <2> HIDE DEF row
  <2>5. /\ row \in Entitlements /\ effective <= row.effective
        /\ entitlement # None => entitlement.effective <= row.effective
        /\ row = entitlement /\ effective < row.effective
    BY <2>1, <2>2, <2>3, <2>4
  <2> QED
    BY <2>5 DEF row
<1> QED
  BY <1>3, <1>4

\* A delivery that arrives for the first time is appended: it is the last, and the
\* others keep their places.
LEMMA Appended ==
  ASSUME NEW s \in Seq(Deliveries), NEW d \in Deliveries, d \notin ToSet(s), IsInjective(s)
  PROVE  /\ Append(s, d) \in Seq(Deliveries) /\ IsInjective(Append(s, d))
         /\ ToSet(Append(s, d)) = ToSet(s) \cup {d}
         /\ Len(Append(s, d)) = Len(s) + 1 /\ Append(s, d)[Len(s) + 1] = d
         /\ DOMAIN Append(s, d) = 1 .. Len(s) + 1 /\ DOMAIN s = 1 .. Len(s)
         /\ \A n \in 1 .. Len(s) : Append(s, d)[n] = s[n] /\ s[n] \in Deliveries
<1>1. /\ Append(s, d) \in Seq(Deliveries) /\ Len(s) \in Nat
      /\ Len(Append(s, d)) = Len(s) + 1 /\ Append(s, d)[Len(s) + 1] = d
      /\ DOMAIN Append(s, d) = 1 .. Len(s) + 1 /\ DOMAIN s = 1 .. Len(s)
      /\ \A n \in 1 .. Len(s) : Append(s, d)[n] = s[n] /\ s[n] \in Deliveries
  OBVIOUS
<1>2. \A n \in 1 .. Len(s) : s[n] # d
  BY <1>1 DEF ToSet
<1>3. IsInjective(Append(s, d))
  BY <1>1, <1>2 DEF IsInjective
<1>4. ToSet(Append(s, d)) = ToSet(s) \cup {d}
  BY <1>1 DEF ToSet
<1> QED
  BY <1>1, <1>3, <1>4

\* When the table is full every row of it is taken, and else there is a free one.
LEMMA Full ==
  ASSUME NEW rows_ \in SUBSET Slots
  PROVE  /\ Cardinality(rows_) >= LogLimit <=> rows_ = Slots
         /\ Cardinality(rows_) < LogLimit <=> rows_ # Slots
<1>1. LogLimit \in Nat
  BY TimesAssumption
<1>2. IsFiniteSet(Slots) /\ Cardinality(Slots) = LogLimit
  BY <1>1, FS_Interval DEF Slots
<1>3. IsFiniteSet(rows_) /\ Cardinality(rows_) <= LogLimit /\ Cardinality(rows_) \in Nat
  BY <1>2, FS_Subset, FS_CardinalityType
<1>4. rows_ # Slots => Cardinality(rows_) < LogLimit
  <2>1. Cardinality(Slots) = Cardinality(rows_) => Slots = rows_
    BY <1>2, FS_Subset
  <2> QED
    BY <1>1, <1>2, <1>3, <2>1
<1> QED
  BY <1>1, <1>2, <1>3, <1>4

-----------------------------------------------------------------------------
(* Types. *)

\* The receipts are as TypeOK says, and none is of a time that has not come.
LogOK ==
  /\ receipts \in [DOMAIN receipts -> Receipts] /\ DOMAIN receipts \subseteq Slots
  /\ \A n \in DOMAIN receipts : receipts[n].at <= now

\* A time of the model is not None.
LEMMA TimeIsNotNone == ASSUME NEW t \in Times PROVE t # None
BY NamesAssumption

\* Writing a receipt keeps the log's type and is never lost on its way in: it is
\* there, or the log is full of receipts of the present time.
LEMMA ReceiptWritten ==
  ASSUME LogOK, now \in Times, NEW about \in Deliveries \cup {"configuration", "resolved"},
         recordMarketplaceWebhookFailure(about)
  PROVE  /\ LogOK' \/ now' # now
         /\ receipts' \in [DOMAIN receipts' -> Receipts] /\ DOMAIN receipts' \subseteq Slots
         /\ \A n \in DOMAIN receipts' : receipts'[n].at <= now
         /\ \/ \E n \in DOMAIN receipts' : receipts'[n] = [about |-> about, at |-> now]
            \/ DOMAIN receipts' = Slots /\ \A n \in Slots : receipts'[n].at >= now
         /\ \A n \in Young :
              \/ n \in DOMAIN receipts' /\ receipts'[n] = receipts[n]
              \/ DOMAIN receipts' = Slots /\ \A m \in Slots : receipts'[m].at >= receipts[n].at
         /\ DOMAIN receipts = Slots => \A t \in Int :
              (t >= now - Retention /\ t <= now /\ \A n \in Slots : receipts[n].at >= t) =>
                 DOMAIN receipts' = Slots /\ \A n \in Slots : receipts'[n].at >= t
<1> DEFINE new == [about |-> about, at |-> now]
           free == CHOOSE n \in Slots : n \notin Young
           full == Cardinality(Young) >= LogLimit
<1>1. /\ now \in Int /\ Retention \in Int /\ new \in Receipts /\ new.at = now
      /\ \A n \in DOMAIN receipts : receipts[n] \in Receipts /\ receipts[n].at \in Int
      /\ Young \subseteq DOMAIN receipts /\ Young \in SUBSET Slots
  BY TimesTyped, TimesAssumption DEF LogOK, Receipts, Young
<1>2. /\ full <=> Young = Slots
      /\ ~full => free \in Slots /\ free \notin Young
  BY <1>1, Full
<1> HIDE DEF new, free, full
<1>3. CASE \E n \in (IF full THEN Oldest(Young) ELSE {free}) :
             receipts' = [m \in Young \cup {n} |-> IF m = n THEN new ELSE receipts[m]]
  <2>1. PICK n \in (IF full THEN Oldest(Young) ELSE {free}) :
             receipts' = [m \in Young \cup {n} |-> IF m = n THEN new ELSE receipts[m]]
    BY <1>3
  <2>2. n \in Slots /\ (full => n \in Young) /\ (~full => n \notin Young)
    BY <1>1, <1>2, <2>1 DEF Oldest
  <2>3. /\ DOMAIN receipts' = Young \cup {n} /\ receipts'[n] = new
        /\ \A m \in Young : m # n => receipts'[m] = receipts[m]
        /\ \A m \in DOMAIN receipts' : receipts'[m] \in Receipts /\ receipts'[m].at <= now
    BY <1>1, <2>1 DEF LogOK
  <2>4. receipts' \in [DOMAIN receipts' -> Receipts] /\ DOMAIN receipts' \subseteq Slots
    BY <1>1, <2>1, <2>2, <2>3
  <2>5. \A k \in Young :
              \/ k \in DOMAIN receipts' /\ receipts'[k] = receipts[k]
              \/ DOMAIN receipts' = Slots /\ \A m \in Slots : receipts'[m].at >= receipts[k].at
    <3>1. TAKE k \in Young
    <3>2. CASE k # n
      BY <2>3, <3>2
    <3>3. CASE k = n
      <4>1. full /\ Young = Slots /\ n \in Oldest(Young)
        BY <1>2, <2>1, <2>2, <3>3
      <4>2. \A m \in Slots : receipts[n].at <= receipts[m].at
        BY <4>1 DEF Oldest
      <4>3. \A m \in Slots : receipts'[m].at >= receipts[k].at
        BY <1>1, <2>3, <3>3, <4>1, <4>2 DEF LogOK
      <4> QED
        BY <2>2, <2>3, <4>1, <4>3
    <3> QED
      BY <3>2, <3>3
  <2>6. DOMAIN receipts = Slots => \A t \in Int :
              (t >= now - Retention /\ t <= now /\ \A k \in Slots : receipts[k].at >= t) =>
                 DOMAIN receipts' = Slots /\ \A k \in Slots : receipts'[k].at >= t
    <3>1. SUFFICES ASSUME DOMAIN receipts = Slots, NEW t \in Int, t >= now - Retention, t <= now,
                          \A k \in Slots : receipts[k].at >= t
                   PROVE  DOMAIN receipts' = Slots /\ \A k \in Slots : receipts'[k].at >= t
      OBVIOUS
    <3>2. Young = Slots
      BY <1>1, <3>1 DEF Young
    <3> QED
      BY <1>1, <2>2, <2>3, <3>1, <3>2
  <2>7. \E k \in DOMAIN receipts' : receipts'[k] = [about |-> about, at |-> now]
    BY <2>3 DEF new
  <2>8. LogOK' \/ now' # now
    BY <2>3, <2>4 DEF LogOK
  <2> QED
    BY <2>3, <2>4, <2>5, <2>6, <2>7, <2>8
<1>4. CASE /\ full /\ \A n \in Young : receipts[n].at = now
           /\ receipts' = [n \in Young |-> receipts[n]]
  <2>1. Young = Slots /\ DOMAIN receipts' = Slots /\ DOMAIN receipts = Slots
    BY <1>1, <1>2, <1>4 DEF LogOK
  <2>2. \A n \in Slots : receipts'[n] = receipts[n] /\ receipts'[n].at = now
    BY <1>4, <2>1
  <2>3. receipts' \in [DOMAIN receipts' -> Receipts]
    BY <1>1, <1>4, <2>1
  <2>4. \A n \in DOMAIN receipts' : receipts'[n].at <= now
    BY <1>1, <2>1, <2>2
  <2>5. LogOK' \/ now' # now
    BY <2>1, <2>3, <2>4 DEF LogOK
  <2> QED
    BY <1>1, <2>1, <2>2, <2>3, <2>4, <2>5
<1> QED
  BY <1>3, <1>4 DEF recordMarketplaceWebhookFailure, new, free, full

\* Resolving changes what a receipt is about, never whether it is there or its age.
LEMMA ReceiptsResolved ==
  ASSUME LogOK, NEW d, resolveMarketplaceWebhookFailures(d)
  PROVE  /\ LogOK' \/ now' # now
         /\ receipts' \in [DOMAIN receipts' -> Receipts] /\ DOMAIN receipts' = DOMAIN receipts
         /\ \A n \in DOMAIN receipts : receipts'[n].at = receipts[n].at
         /\ \A n \in DOMAIN receipts :
              receipts[n].about \notin {d, "configuration"} => receipts'[n] = receipts[n]
<1>1. /\ DOMAIN receipts' = DOMAIN receipts
      /\ \A n \in DOMAIN receipts : receipts'[n] =
           IF Resolves(receipts[n], d) THEN [receipts[n] EXCEPT !.about = "resolved"]
           ELSE receipts[n]
  BY DEF resolveMarketplaceWebhookFailures
<1>2. \A n \in DOMAIN receipts : receipts[n] \in Receipts
  BY DEF LogOK
<1>3. \A n \in DOMAIN receipts :
        /\ receipts'[n] \in Receipts /\ receipts'[n].at = receipts[n].at
        /\ receipts[n].about \notin {d, "configuration"} => receipts'[n] = receipts[n]
  BY <1>1, <1>2 DEF Resolves, Receipts
<1>4. receipts' \in [DOMAIN receipts' -> Receipts]
  BY <1>1, <1>3 DEF resolveMarketplaceWebhookFailures
<1>5. LogOK' \/ now' # now
  BY <1>1, <1>3, <1>4 DEF LogOK
<1> QED
  BY <1>1, <1>3, <1>4, <1>5

\* Where a webhook request, or a browser that came back, may be.
HandlerStates == {Idle} \cup [step : {"ingest", "resolve", "failed"}, delivery : Deliveries]
CallbackStates == {Idle} \cup [step : {"read", "asking"}, install : Installs]

\* The type that is kept: TypeOK with the shape of its functions, receipts that are
\* not of the future, and a purge that forgot no more than had arrived.
TypeInv ==
  /\ TypeOK /\ LogOK
  /\ since \in Nat /\ since <= Len(delivered)
  /\ handler \in [Handlers -> HandlerStates] /\ callback \in [Callbacks -> CallbackStates]

\* A request that is not idle is about a delivery.
LEMMA AboutDelivery ==
  ASSUME TypeInv, NEW h \in Handlers, handler[h] # Idle
  PROVE  handler[h] \in [step : {"ingest", "resolve", "failed"}, delivery : Deliveries]
BY DEF TypeInv, HandlerStates

\* A request goes on with the delivery it has, or ends.
LEMMA HandlerGoes ==
  ASSUME TypeInv, NEW h \in Handlers, handler[h] # Idle,
         \/ Ends(h)
         \/ \E step \in {"resolve", "failed"} : Goes(h, step)
  PROVE  /\ handler' \in [Handlers -> HandlerStates]
         /\ \A k \in Handlers : k # h => handler'[k] = handler[k]
         /\ \/ handler'[h] = Idle
            \/ /\ handler'[h].delivery = handler[h].delivery
               /\ \E step \in {"resolve", "failed"} : Goes(h, step) /\ handler'[h].step = step
<1>1. handler \in [Handlers -> HandlerStates]
  BY DEF TypeInv
<1>2. CASE Ends(h)
  BY <1>1, <1>2 DEF Ends, HandlerStates
<1>3. ASSUME NEW step \in {"resolve", "failed"}, Goes(h, step)
      PROVE  /\ handler' \in [Handlers -> HandlerStates]
             /\ \A k \in Handlers : k # h => handler'[k] = handler[k]
             /\ handler'[h].delivery = handler[h].delivery /\ handler'[h].step = step
  <2> DEFINE next == [handler[h] EXCEPT !.step = step]
  <2>1. handler' = [handler EXCEPT ![h] = next]
    BY <1>3 DEF Goes
  <2>2. /\ next \in [step : {"ingest", "resolve", "failed"}, delivery : Deliveries]
        /\ next.delivery = handler[h].delivery /\ next.step = step
    BY AboutDelivery
  <2> HIDE DEF next
  <2> QED
    BY <1>1, <2>1, <2>2 DEF HandlerStates
<1> QED
  BY <1>2, <1>3

\* A purge leaves no row, and remembers what had arrived, or takes the authoriser
\* from the row and nothing else.
LEMMA PurgeTyped ==
  ASSUME entitlement \in Entitlements \cup {None}, Len(delivered) \in Nat,
         since \in Nat, since <= Len(delivered), purgeAccount
  PROVE  /\ entitlement' \in Entitlements \cup {None}
         /\ since' \in Nat /\ since' <= Len(delivered)
         /\ \/ since' = Len(delivered)
            \/ /\ since' = since /\ entitlement' # None
               /\ entitlement'.from = entitlement.from
               /\ entitlement'.effective = entitlement.effective
<1>1. CASE type = "User"
  BY <1>1 DEF purgeAccount
<1>2. CASE type # "User"
  <2>1. /\ entitlement' = [entitlement EXCEPT !.authorized = FALSE]
        /\ entitlement \in Entitlements /\ since' = since
    BY <1>2 DEF purgeAccount
  <2>2. /\ entitlement' \in Entitlements
        /\ entitlement'.from = entitlement.from
        /\ entitlement'.effective = entitlement.effective
    BY <2>1 DEF Entitlements
  <2> QED
    BY <2>1, <2>2, NamesAssumption
<1> QED
  BY <1>1, <1>2

\* The functions of TypeInv have the type that TypeOK asks of each member.
LEMMA StatesTyped ==
  /\ \A f \in [Handlers -> HandlerStates] : \A h \in Handlers :
       f[h] = Idle \/ f[h] \in [step : {"ingest", "resolve", "failed"}, delivery : Deliveries]
  /\ \A f \in [Callbacks -> CallbackStates] : \A c \in Callbacks :
       f[c] = Idle \/ f[c] \in [step : {"read", "asking"}, install : Installs]
BY DEF HandlerStates, CallbackStates

\* The initial states have their types.
LEMMA TypeInit == Init => TypeInv
<1>1. SUFFICES ASSUME Init PROVE TypeInv
  OBVIOUS
<1>2. /\ now \in Times /\ entitlement = None /\ pending = {} /\ since = 0
      /\ failing \in [Deliveries -> Times \cup {None}]
  BY <1>1, TimesTyped DEF Init
<1>3. sent \in [Deliveries -> Events]
  BY <1>1, HistoriesAssumption DEF Init
<1>4. delivered \in Seq(Deliveries) /\ IsInjective(delivered) /\ Len(delivered) = 0
  BY <1>1 DEF Init, IsInjective
<1>5. LogOK
  BY <1>1 DEF Init, LogOK
<1>6. handler \in [Handlers -> HandlerStates] /\ callback \in [Callbacks -> CallbackStates]
  BY <1>1 DEF Init, HandlerStates, CallbackStates
<1>7. TypeOK
  BY <1>2, <1>3, <1>4, <1>5, <1>6, StatesTyped DEF TypeOK, LogOK
<1> QED
  BY <1>2, <1>4, <1>5, <1>6, <1>7 DEF TypeInv

\* Every step keeps the types.
LEMMA TypeStep == TypeInv /\ [Next]_vars => TypeInv'
<1>1. SUFFICES ASSUME TypeInv, [Next]_vars PROVE TypeInv'
  OBVIOUS
<1>2. /\ now \in Times /\ sent \in [Deliveries -> Events]
      /\ entitlement \in Entitlements \cup {None}
      /\ delivered \in Seq(Deliveries) /\ IsInjective(delivered) /\ Len(delivered) \in Nat
      /\ failing \in [Deliveries -> Times \cup {None}]
      /\ pending \subseteq Installs /\ LogOK /\ since \in Nat /\ since <= Len(delivered)
      /\ handler \in [Handlers -> HandlerStates] /\ callback \in [Callbacks -> CallbackStates]
  BY <1>1 DEF TypeInv, TypeOK
<1> DEFINE
     LogKept == receipts' = receipts
     RowsKept == entitlement' = entitlement /\ delivered' = delivered /\ since' = since
\* What a step may leave alone is typed as it was; what it changes is the rest.
<1>3. ASSUME sent' = sent, now' \in Times, LogOK',
             entitlement' \in Entitlements \cup {None},
             delivered' \in Seq(Deliveries), IsInjective(delivered'),
             since' \in Nat, since' <= Len(delivered'),
             failing' \in [Deliveries -> Times \cup {None}],
             pending' \subseteq Installs,
             handler' \in [Handlers -> HandlerStates], callback' \in [Callbacks -> CallbackStates]
      PROVE  TypeInv'
  <2>1. TypeOK'
    BY <1>2, <1>3, StatesTyped DEF TypeOK, LogOK
  <2> QED
    BY <1>3, <2>1 DEF TypeInv
<1>4. ASSUME LogKept, now' = now PROVE LogOK'
  BY <1>2, <1>4 DEF LogOK
<1>5. ASSUME NEW h \in Handlers, NEW d \in Deliveries, Receive(h, d) PROVE TypeInv'
  <2>1. [step |-> "ingest", delivery |-> d] \in HandlerStates
    BY DEF HandlerStates
  <2>2. handler' \in [Handlers -> HandlerStates]
    BY <1>2, <1>5, <2>1 DEF Receive
  <2> QED
    BY <1>2, <1>3, <1>4, <1>5, <2>2 DEF Receive, external, rows, log
<1>6. ASSUME NEW h \in Handlers, Ingest(h) PROVE TypeInv'
  <2> DEFINE d == handler[h].delivery
  <2>1. handler[h] # Idle /\ d \in Deliveries
    BY <1>1, <1>6, AboutDelivery DEF Ingest, At, Idle
  <2>2. handler' \in [Handlers -> HandlerStates]
    BY <1>1, <1>6, <2>1, HandlerGoes DEF Ingest
  <2>3. failing' \in [Deliveries -> Times \cup {None}]
    BY <1>2, <1>6 DEF Ingest
  <2>4. CASE Duplicate(d)
    BY <1>2, <1>3, <1>4, <1>6, <2>2, <2>3, <2>4 DEF Ingest, external, rows
  <2>5. CASE ~Duplicate(d)
    <3>1. /\ entitlement' = Recorded(sent[d].action, sent[d].effective, FALSE, d)
          /\ delivered' = Append(delivered, d) /\ since' = since
      BY <1>6, <2>5 DEF Ingest
    <3>2. sent[d].effective \in Times
      BY <1>2, <2>1 DEF Events
    <3>3. entitlement' \in Entitlements
      BY <1>2, <2>1, <3>1, <3>2, RecordedTyped
    <3>4. /\ delivered' \in Seq(Deliveries) /\ IsInjective(delivered')
          /\ Len(delivered') = Len(delivered) + 1
      BY <1>2, <2>1, <2>5, <3>1, Appended DEF Duplicate, Arrived
    <3> QED
      BY <1>2, <1>3, <1>4, <1>6, <2>2, <2>3, <3>1, <3>3, <3>4 DEF Ingest, external
  <2> QED
    BY <2>4, <2>5
<1>7. ASSUME NEW h \in Handlers, ResolveFailures(h) PROVE TypeInv'
  <2>1. handler[h] # Idle
    BY <1>7 DEF ResolveFailures, At, Idle
  <2>2. handler' \in [Handlers -> HandlerStates]
    BY <1>1, <1>7, <2>1, HandlerGoes DEF ResolveFailures
  <2>3. LogOK'
    BY <1>2, <1>7, ReceiptsResolved DEF ResolveFailures
  <2> QED
    BY <1>2, <1>3, <1>7, <2>2, <2>3 DEF ResolveFailures, external, rows
<1>8. ASSUME NEW h \in Handlers, CallFails(h) \/ HandlerDies(h) PROVE TypeInv'
  <2>1. handler[h] # Idle
    BY <1>8 DEF CallFails, HandlerDies, At, Idle
  <2>2. handler' \in [Handlers -> HandlerStates]
    BY <1>1, <1>8, <2>1, HandlerGoes DEF CallFails, HandlerDies
  <2> QED
    BY <1>2, <1>3, <1>4, <1>8, <2>2 DEF CallFails, HandlerDies, external, rows, log
<1>9. ASSUME NEW h \in Handlers, RecordFailure(h) PROVE TypeInv'
  <2>1. handler[h] # Idle
    BY <1>9 DEF RecordFailure, At, Idle
  <2>2. handler' \in [Handlers -> HandlerStates] /\ handler[h].delivery \in Deliveries
    BY <1>1, <1>9, <2>1, HandlerGoes, AboutDelivery DEF RecordFailure
  <2>3. LogOK'
    BY <1>2, <1>9, <2>2, ReceiptWritten DEF RecordFailure
  <2>4. failing' \in [Deliveries -> Times \cup {None}]
    BY <1>2, <1>9 DEF RecordFailure
  <2> QED
    BY <1>2, <1>3, <1>9, <2>2, <2>3, <2>4 DEF RecordFailure, external, rows
<1>10. CASE RefuseUnconfigured \/ Ping
  <2>1. LogOK'
    BY <1>2, <1>10, ReceiptWritten, ReceiptsResolved DEF RefuseUnconfigured, Ping
  <2> QED
    BY <1>2, <1>3, <1>10, <2>1 DEF RefuseUnconfigured, Ping, external, rows
<1>11. ASSUME NEW i \in Installs, beginMarketplaceInstall(i) \/ Expire(i) PROVE TypeInv'
  <2>1. pending' \subseteq Installs
    BY <1>2, <1>11 DEF beginMarketplaceInstall, Expire
  <2> QED
    BY <1>2, <1>3, <1>4, <1>11, <2>1 DEF beginMarketplaceInstall, Expire, external, rows, log
<1>12. ASSUME NEW i \in Installs, NEW c \in Callbacks, ReadState(c, i) PROVE TypeInv'
  <2>1. [step |-> "read", install |-> i] \in CallbackStates
    BY DEF CallbackStates
  <2>2. callback' \in [Callbacks -> CallbackStates]
    BY <1>2, <1>12, <2>1 DEF ReadState
  <2> QED
    BY <1>2, <1>3, <1>4, <1>12, <2>2 DEF ReadState, external, rows, log
<1>13. ASSUME NEW c \in Callbacks, DeleteState(c) PROVE TypeInv'
  <2> DEFINE next == [callback[c] EXCEPT !.step = "asking"]
  <2>1. next \in CallbackStates
    BY <1>2, <1>13 DEF DeleteState, CallbackStates, Idle
  <2>2. callback' = [callback EXCEPT ![c] = next]
    BY <1>13 DEF DeleteState
  <2>3. pending' \subseteq Installs
    BY <1>2, <1>13 DEF DeleteState
  <2> HIDE DEF next
  <2>4. callback' \in [Callbacks -> CallbackStates]
    BY <1>2, <2>1, <2>2
  <2> QED
    BY <1>2, <1>3, <1>4, <1>13, <2>3, <2>4 DEF DeleteState, external, rows, log
<1>14. ASSUME NEW c \in Callbacks, RecordPurchase(c) PROVE TypeInv'
  <2>1. callback[c].install \in Installs
    BY <1>2, <1>14 DEF RecordPurchase, CallbackStates, Idle
  <2>2. entitlement' \in Entitlements
    BY <1>2, <1>14, <2>1, RecordedTyped DEF RecordPurchase
  <2>3. callback' \in [Callbacks -> CallbackStates]
    BY <1>2, <1>14 DEF RecordPurchase, CallbackStates
  <2> QED
    BY <1>2, <1>3, <1>4, <1>14, <2>2, <2>3 DEF RecordPurchase, external, log
<1>15. ASSUME NEW c \in Callbacks, CallbackEnds(c) PROVE TypeInv'
  <2>1. callback' \in [Callbacks -> CallbackStates]
    BY <1>2, <1>15 DEF CallbackEnds, CallbackStates
  <2> QED
    BY <1>2, <1>3, <1>4, <1>15, <2>1 DEF CallbackEnds, external, rows, log
<1>16. CASE purgeAccount
  <2>1. /\ entitlement' \in Entitlements \cup {None}
        /\ since' \in Nat /\ since' <= Len(delivered)
    BY <1>2, <1>16, PurgeTyped
  <2> QED
    BY <1>2, <1>3, <1>4, <1>16, <2>1 DEF purgeAccount, external, log
<1>17. CASE Tick
  <2>1. now' \in Times /\ now <= now' /\ now \in Int /\ now' \in Int
    BY <1>2, <1>17, TimesTyped DEF Tick
  <2>2. failing' \in [Deliveries -> Times \cup {None}]
    BY <1>2, <1>17 DEF Tick
  <2>3. \A n \in DOMAIN receipts : receipts[n].at \in Int
    BY <1>2, TimesTyped DEF LogOK, Receipts
  <2>4. LogOK'
    BY <1>2, <1>17, <2>1, <2>3 DEF Tick, LogOK
  <2> QED
    BY <1>2, <1>3, <1>17, <2>1, <2>2, <2>4 DEF Tick, external, rows
<1>18. CASE UNCHANGED vars
  BY <1>2, <1>3, <1>4, <1>18 DEF vars, external, rows, log
<1> QED
  BY <1>1, <1>5, <1>6, <1>7, <1>8, <1>9, <1>10, <1>11, <1>12, <1>13, <1>14, <1>15, <1>16, <1>17,
     <1>18 DEF Next

\* Every variable keeps its type: a delivery is recorded once, and the receipts stay
\* within their number (ingestMarketplaceWebhook, recordMarketplaceWebhookFailure).
THEOREM TypeCorrect == Spec => []TypeOK
<1>1. Spec => []TypeInv
  BY TypeInit, TypeStep, PTL DEF Spec
<1>2. TypeInv => TypeOK
  BY DEF TypeInv
<1> QED
  BY <1>1, <1>2, PTL

-----------------------------------------------------------------------------
(* The row is that of the newest event. *)

\* EntitlementIsNewest is kept as it is, given the types.
LEMMA NewestStep == TypeInv /\ EntitlementIsNewest /\ [Next]_vars => EntitlementIsNewest'
<1>1. SUFFICES ASSUME TypeInv, EntitlementIsNewest, [Next]_vars PROVE EntitlementIsNewest'
  OBVIOUS
<1>2. /\ now \in Times /\ sent \in [Deliveries -> Events] /\ since \in Nat
      /\ entitlement \in Entitlements \cup {None}
      /\ delivered \in Seq(Deliveries) /\ IsInjective(delivered)
      /\ callback \in [Callbacks -> CallbackStates] /\ Times \subseteq Int
      /\ DOMAIN delivered = 1 .. Len(delivered) /\ Len(delivered) \in Nat
      /\ \A n \in DOMAIN delivered : delivered[n] \in Deliveries
      /\ \A d \in Deliveries : sent[d].effective \in Times
  BY <1>1, TimesTyped DEF TypeInv, TypeOK, Events
\* The same deliveries, and a row that is the event's it was or a newer one.
<1>3. ASSUME UNCHANGED <<sent, delivered, since>>, entitlement' # None \/ entitlement = None,
             entitlement' = entitlement
             \/ /\ entitlement' # None /\ entitlement'.effective \in Times
                /\ entitlement # None => entitlement.effective <= entitlement'.effective
                /\ \/ entitlement'.from \notin Deliveries
                   \/ /\ entitlement # None /\ entitlement'.from = entitlement.from
                      /\ entitlement'.effective = entitlement.effective
      PROVE  EntitlementIsNewest'
  <2>1. CASE entitlement' = entitlement
    BY <1>1, <1>3, <2>1 DEF EntitlementIsNewest
  <2>2. CASE entitlement' # entitlement
    <3>1. SUFFICES ASSUME NEW n \in DOMAIN delivered, n > since
                   PROVE  /\ entitlement' # None
                          /\ sent[delivered[n]].effective <= entitlement'.effective
                          /\ \A m \in since + 1 .. n - 1 :
                               ( /\ entitlement'.from = delivered[m]
                                 /\ sent[delivered[m]].effective = entitlement'.effective )
                               => sent[delivered[n]].effective < entitlement'.effective
      BY <1>3 DEF EntitlementIsNewest
    <3>2. /\ entitlement # None /\ entitlement.effective \in Int
          /\ sent[delivered[n]].effective <= entitlement.effective
          /\ \A m \in since + 1 .. n - 1 :
               ( /\ entitlement.from = delivered[m]
                 /\ sent[delivered[m]].effective = entitlement.effective )
               => sent[delivered[n]].effective < entitlement.effective
      BY <1>1, <1>2, <3>1 DEF EntitlementIsNewest, Entitlements
    <3>3. \A m \in since + 1 .. n - 1 : m \in DOMAIN delivered /\ delivered[m] \in Deliveries
      BY <1>2, <3>1
    <3>4. /\ entitlement' # None /\ entitlement'.effective \in Int
          /\ entitlement.effective <= entitlement'.effective
          /\ \/ entitlement'.from \notin Deliveries
             \/ /\ entitlement'.from = entitlement.from
                /\ entitlement'.effective = entitlement.effective
      BY <1>2, <1>3, <2>2, <3>2
    <3>5. sent[delivered[n]].effective \in Int
      BY <1>2
    <3> QED
      BY <3>2, <3>3, <3>4, <3>5
  <2> QED
    BY <2>1, <2>2
<1>4. ASSUME UNCHANGED <<sent, rows>> PROVE EntitlementIsNewest'
  BY <1>1, <1>4 DEF EntitlementIsNewest, rows
<1>5. ASSUME NEW h \in Handlers, Ingest(h) PROVE EntitlementIsNewest'
  <2> DEFINE d == handler[h].delivery
             e == sent[d]
  <2>1. d \in Deliveries
    BY <1>1, <1>5, AboutDelivery DEF Ingest, At, Idle
  <2>2. CASE Duplicate(d)
    BY <1>4, <1>5, <2>2 DEF Ingest, external
  <2>3. CASE ~Duplicate(d)
    <3>1. /\ entitlement' = Recorded(e.action, e.effective, FALSE, d)
          /\ delivered' = Append(delivered, d) /\ since' = since /\ sent' = sent
      BY <1>5, <2>3 DEF Ingest, external
    <3> HIDE DEF d
    <3>2. e.effective \in Times
      BY <1>2, <2>1
    <3>3. /\ entitlement' \in Entitlements /\ e.effective <= entitlement'.effective
          /\ entitlement # None => entitlement.effective <= entitlement'.effective
          /\ \/ entitlement'.from = d /\ entitlement'.effective = e.effective
             \/ entitlement' = entitlement /\ e.effective < entitlement'.effective
      BY <1>2, <2>1, <3>1, <3>2, RecordedTyped
    <3>4. /\ Len(delivered') = Len(delivered) + 1 /\ delivered'[Len(delivered) + 1] = d
          /\ DOMAIN delivered' = 1 .. Len(delivered) + 1
          /\ \A n \in 1 .. Len(delivered) : delivered'[n] = delivered[n]
      BY <1>2, <2>1, <2>3, <3>1, Appended DEF Duplicate, Arrived
    <3>5. \A n \in 1 .. Len(delivered) : delivered[n] # d
      BY <1>2, <2>3 DEF Duplicate, Arrived, ToSet
    <3>6. SUFFICES ASSUME NEW n \in 1 .. Len(delivered) + 1, n > since
                   PROVE  /\ entitlement' # None
                          /\ sent[delivered'[n]].effective <= entitlement'.effective
                          /\ \A m \in since + 1 .. n - 1 :
                               ( /\ entitlement'.from = delivered'[m]
                                 /\ sent[delivered'[m]].effective = entitlement'.effective )
                               => sent[delivered'[n]].effective < entitlement'.effective
      BY <3>1, <3>4 DEF EntitlementIsNewest
    <3>7. entitlement' # None /\ entitlement'.effective \in Int
      BY <1>2, <3>3, NamesAssumption DEF Entitlements
    <3>8. \A m \in since + 1 .. n - 1 :
            m \in 1 .. Len(delivered) /\ delivered'[m] = delivered[m] /\ delivered'[m] # d
      BY <1>2, <3>4, <3>5, <3>6
    <3>9. CASE n = Len(delivered) + 1
      <4>1. delivered'[n] = d
        BY <3>4, <3>9
      <4> QED
        BY <3>3, <3>7, <3>8, <4>1
    <3>10. CASE n # Len(delivered) + 1
      <4>1. n \in DOMAIN delivered /\ delivered'[n] = delivered[n]
        BY <1>2, <3>4, <3>6, <3>10
      <4>2. /\ entitlement # None /\ entitlement.effective \in Int
            /\ sent[delivered[n]].effective \in Int
            /\ sent[delivered[n]].effective <= entitlement.effective
            /\ \A m \in since + 1 .. n - 1 :
                 ( /\ entitlement.from = delivered[m]
                   /\ sent[delivered[m]].effective = entitlement.effective )
                 => sent[delivered[n]].effective < entitlement.effective
        BY <1>1, <1>2, <3>6, <4>1 DEF EntitlementIsNewest, Entitlements
      <4> QED
        BY <3>3, <3>7, <3>8, <4>1, <4>2
    <3> QED
      BY <3>9, <3>10
  <2> QED
    BY <2>2, <2>3
<1>6. ASSUME NEW c \in Callbacks, RecordPurchase(c) PROVE EntitlementIsNewest'
  <2> DEFINE i == callback[c].install
  <2>1. i \in Installs
    BY <1>2, <1>6 DEF RecordPurchase, CallbackStates, Idle
  <2>2. /\ entitlement' = Recorded("purchased", now, TRUE, i)
        /\ UNCHANGED <<sent, delivered, since>>
    BY <1>6 DEF RecordPurchase, external
  <2> HIDE DEF i
  <2>3. /\ entitlement' \in Entitlements
        /\ entitlement # None => entitlement.effective <= entitlement'.effective
        /\ entitlement'.from = i \/ entitlement' = entitlement
    BY <1>2, <2>1, <2>2, RecordedTyped
  <2>4. i \notin Deliveries /\ entitlement' # None /\ entitlement'.effective \in Times
    BY <2>1, <2>3, NamesAssumption DEF Entitlements
  <2> QED
    BY <1>3, <2>2, <2>3, <2>4
<1>7. CASE purgeAccount
  <2>1. delivered' = delivered /\ sent' = sent /\ entitlement # None
    BY <1>7 DEF purgeAccount, external
  <2>2. since \in Nat /\ since <= Len(delivered)
    BY <1>1 DEF TypeInv
  <2>3. \/ since' = Len(delivered)
        \/ /\ since' = since /\ entitlement' # None
           /\ entitlement'.from = entitlement.from
           /\ entitlement'.effective = entitlement.effective
    BY <1>2, <1>7, <2>2, PurgeTyped
  <2>4. CASE since' = Len(delivered)
    BY <1>2, <2>1, <2>4 DEF EntitlementIsNewest
  <2>5. CASE since' # Len(delivered)
    <3>1. entitlement.effective \in Times /\ entitlement.effective \in Int
      BY <1>2, <2>1 DEF Entitlements
    <3>2. UNCHANGED <<sent, delivered, since>>
      BY <2>1, <2>3, <2>5
    <3>3. /\ entitlement' # None /\ entitlement'.effective \in Times
          /\ entitlement.effective <= entitlement'.effective
          /\ entitlement'.from = entitlement.from
          /\ entitlement'.effective = entitlement.effective
      BY <2>3, <2>5, <3>1
    <3> QED
      BY <1>3, <2>1, <3>2, <3>3
  <2> QED
    BY <2>4, <2>5
<1>8. CASE UNCHANGED vars
  BY <1>4, <1>8 DEF vars, external
<1>9. ASSUME NEW h \in Handlers,
             \/ \E d \in Deliveries : Receive(h, d)
             \/ ResolveFailures(h) \/ CallFails(h) \/ RecordFailure(h) \/ HandlerDies(h)
      PROVE  EntitlementIsNewest'
  BY <1>4, <1>9 DEF Receive, ResolveFailures, CallFails, RecordFailure, HandlerDies, external
<1>10. CASE RefuseUnconfigured \/ Ping \/ Tick
  BY <1>4, <1>10 DEF RefuseUnconfigured, Ping, Tick, external
<1>11. ASSUME NEW i \in Installs,
              \/ beginMarketplaceInstall(i) \/ Expire(i)
              \/ \E c \in Callbacks : ReadState(c, i)
       PROVE  EntitlementIsNewest'
  BY <1>4, <1>11 DEF beginMarketplaceInstall, Expire, ReadState, external
<1>12. ASSUME NEW c \in Callbacks, DeleteState(c) \/ CallbackEnds(c) PROVE EntitlementIsNewest'
  BY <1>4, <1>12 DEF DeleteState, CallbackEnds, external
<1> QED
  BY <1>1, <1>5, <1>6, <1>7, <1>8, <1>9, <1>10, <1>11, <1>12 DEF Next

\* However the events arrive, the row is that of the newest effective date recorded
\* since the last purge, and of two of one date that of the last first arrival
\* (recordMarketplacePurchase's WHERE, ingestMarketplaceWebhook's deliveries).
THEOREM NewestEntitlement == Spec => []EntitlementIsNewest
<1>1. Init => EntitlementIsNewest
  BY DEF Init, EntitlementIsNewest
<1> QED
  BY <1>1, TypeInit, TypeStep, NewestStep, PTL DEF Spec

-----------------------------------------------------------------------------
(* A failure stays reported. *)

\* A receipt of the delivery that is not older than its failure, or a log that is
\* full of receipts that are not.
Noted(d, t) ==
  \/ \E n \in DOMAIN receipts : receipts[n].about = d /\ receipts[n].at >= t
  \/ DOMAIN receipts = Slots /\ \A n \in Slots : receipts[n].at >= t

\* A failure is of a delivery that has not been recorded and within a day; it is
\* noted; and only what was recorded is resolved.
FailureInv ==
  /\ \A d \in Deliveries : failing[d] # None =>
       /\ d \notin Arrived /\ failing[d] >= now - Day /\ failing[d] <= now
       /\ Noted(d, failing[d])
  /\ \A h \in Handlers : At(h, "resolve") => handler[h].delivery \in Arrived

\* What is noted stays so when another receipt is written.
LEMMA NotedIsKept ==
  ASSUME TypeInv, NEW d \in Deliveries, NEW t \in Int, t >= now - Day, t <= now, Noted(d, t),
         NEW about \in Deliveries \cup {"configuration", "resolved"},
         recordMarketplaceWebhookFailure(about)
  PROVE  Noted(d, t)'
<1>1. LogOK /\ now \in Times /\ now \in Int
  BY TimesTyped DEF TypeInv, TypeOK
<1>2. /\ Day \in Int /\ Retention \in Int /\ Day <= Retention
  BY TimesAssumption
<1>3. t >= now - Retention
  BY <1>1, <1>2
<1>4. /\ DOMAIN receipts' \subseteq Slots
      /\ \A n \in DOMAIN receipts' : receipts'[n] \in Receipts
      /\ \A n \in Young :
           \/ n \in DOMAIN receipts' /\ receipts'[n] = receipts[n]
           \/ DOMAIN receipts' = Slots /\ \A m \in Slots : receipts'[m].at >= receipts[n].at
      /\ DOMAIN receipts = Slots =>
           ((\A n \in Slots : receipts[n].at >= t) =>
               DOMAIN receipts' = Slots /\ \A n \in Slots : receipts'[n].at >= t)
  BY <1>1, <1>3, ReceiptWritten
<1>5. CASE \E n \in DOMAIN receipts : receipts[n].about = d /\ receipts[n].at >= t
  <2>1. PICK n \in DOMAIN receipts : receipts[n].about = d /\ receipts[n].at >= t
    BY <1>5
  <2>2. receipts[n].at \in Int
    BY <1>1, TimesTyped DEF LogOK, Receipts
  <2>3. n \in Young
    BY <1>1, <1>2, <1>3, <2>1, <2>2 DEF Young
  <2>4. \A m \in DOMAIN receipts' : receipts'[m].at \in Int
    BY <1>4, TimesTyped DEF Receipts
  <2> QED
    BY <1>4, <2>1, <2>2, <2>3, <2>4 DEF Noted
<1>6. CASE DOMAIN receipts = Slots /\ \A n \in Slots : receipts[n].at >= t
  BY <1>4, <1>6 DEF Noted
<1> QED
  BY <1>5, <1>6 DEF Noted

\* What is noted of another delivery stays so when one's receipts are resolved.
LEMMA NotedUnlessResolved ==
  ASSUME TypeInv, NEW d \in Deliveries, NEW t, Noted(d, t),
         NEW r, r # d, resolveMarketplaceWebhookFailures(r)
  PROVE  Noted(d, t)'
<1>1. d # "configuration" /\ LogOK
  BY NamesAssumption DEF TypeInv
<1>2. /\ DOMAIN receipts' = DOMAIN receipts
      /\ \A n \in DOMAIN receipts : receipts'[n].at = receipts[n].at
      /\ \A n \in DOMAIN receipts :
           receipts[n].about \notin {r, "configuration"} => receipts'[n] = receipts[n]
  BY <1>1, ReceiptsResolved
<1> QED
  BY <1>1, <1>2 DEF Noted

\* Every step keeps what failed and has not been recorded noted.
LEMMA FailureStep == TypeInv /\ FailureInv /\ [Next]_vars => FailureInv'
<1>1. SUFFICES ASSUME TypeInv, FailureInv, [Next]_vars PROVE FailureInv'
  OBVIOUS
<1>2. /\ now \in Int /\ now \in Times /\ Day \in Int /\ Day >= 0
      /\ failing \in [Deliveries -> Times \cup {None}]
      /\ \A d \in Deliveries : failing[d] # None => failing[d] \in Int
      /\ delivered \in Seq(Deliveries) /\ IsInjective(delivered)
      /\ handler \in [Handlers -> HandlerStates]
  BY <1>1, TimesTyped, TimesAssumption DEF TypeInv, TypeOK
\* A step without failures of its own keeps those that are left noted.
<1>3. ASSUME now' = now,
             \A d \in Deliveries, t \in Int : failing'[d] = t /\ t # None =>
               failing[d] = t /\ d \notin Arrived' /\ Noted(d, t)',
             failing' \in [Deliveries -> Times \cup {None}],
             \A k \in Handlers : At(k, "resolve")' => handler'[k].delivery \in Arrived'
      PROVE  FailureInv'
  <2>1. ASSUME NEW d \in Deliveries, failing'[d] # None
        PROVE  /\ d \notin Arrived' /\ failing'[d] >= now' - Day /\ failing'[d] <= now'
               /\ Noted(d, failing[d])'
    <3>1. failing'[d] \in Int
      BY <1>3, <2>1, TimesTyped
    <3>2. PICK t \in Int : failing'[d] = t /\ t # None
      BY <2>1, <3>1
    <3>3. failing[d] = t /\ d \notin Arrived' /\ Noted(d, t)'
      BY <1>3, <3>2
    <3>4. t >= now - Day /\ t <= now
      BY <1>1, <3>2, <3>3 DEF FailureInv
    <3>5. Noted(d, failing[d])'
      BY <3>2, <3>3 DEF Noted
    <3> QED
      BY <1>3, <3>2, <3>3, <3>4, <3>5
  <2> QED
    BY <1>3, <2>1 DEF FailureInv
\* What FailureInv says of a time, and with a log that stays as it is.
<1>4. ASSUME NEW d \in Deliveries, NEW t \in Int, failing[d] = t, t # None
      PROVE  /\ d \notin Arrived /\ t >= now - Day /\ t <= now /\ Noted(d, t)
             /\ receipts' = receipts => Noted(d, t)'
  <2>1. /\ d \notin Arrived /\ t >= now - Day /\ t <= now /\ Noted(d, t)
    BY <1>1, <1>4 DEF FailureInv, Noted
  <2>2. receipts' = receipts => Noted(d, t)'
    BY <2>1 DEF Noted
  <2> QED
    BY <2>1, <2>2
<1>5. ASSUME UNCHANGED <<delivered, handler>>
      PROVE  \A k \in Handlers : At(k, "resolve")' => handler'[k].delivery \in Arrived'
  BY <1>1, <1>5 DEF FailureInv, At, Arrived
<1>6. ASSUME UNCHANGED <<now, receipts, failing, delivered, handler>> PROVE FailureInv'
  <2>1. Arrived' = Arrived
    BY <1>6 DEF Arrived
  <2> QED
    BY <1>2, <1>3, <1>4, <1>5, <1>6, <2>1
\* A request that goes on resolves only what it has seen arrive.
<1>7. ASSUME NEW h \in Handlers, handler[h] # Idle,
             Ends(h) \/ Goes(h, "failed") \/ (Goes(h, "resolve") /\ handler[h].delivery \in Arrived'),
             Arrived \subseteq Arrived'
      PROVE  \A k \in Handlers : At(k, "resolve")' => handler'[k].delivery \in Arrived'
  <2>1. TAKE k \in Handlers
  <2>2. HAVE At(k, "resolve")'
  <2>3. handler'[k].step = "resolve"
    BY <2>2 DEF At
  <2>4. CASE k # h
    <3>1. handler'[k] = handler[k]
      BY <1>2, <1>7, <2>4 DEF Ends, Goes
    <3> QED
      BY <1>1, <1>7, <2>3, <3>1 DEF FailureInv, At
  <2>5. CASE k = h
    <3>1. handler[h] \in [step : {"ingest", "resolve", "failed"}, delivery : Deliveries]
      BY <1>1, <1>7, AboutDelivery
    <3>2. ~Ends(h) /\ ~Goes(h, "failed")
      BY <1>2, <2>3, <2>5, <3>1 DEF Ends, Goes, Idle
    <3>3. handler'[h].delivery = handler[h].delivery
      BY <1>2, <1>7, <3>1, <3>2 DEF Goes
    <3> QED
      BY <1>7, <2>5, <3>2, <3>3
  <2> QED
    BY <2>4, <2>5
<1>8. ASSUME NEW h \in Handlers, NEW d \in Deliveries, Receive(h, d) PROVE FailureInv'
  <2>1. /\ UNCHANGED <<now, receipts, failing, delivered>>
        /\ handler' = [handler EXCEPT ![h] = [step |-> "ingest", delivery |-> d]]
    BY <1>8 DEF Receive, rows, log
  <2>2. Arrived' = Arrived
    BY <2>1 DEF Arrived
  <2>3. \A k \in Handlers : At(k, "resolve")' => handler'[k].delivery \in Arrived'
    <3>1. TAKE k \in Handlers
    <3>2. handler'[k] = IF k = h THEN [step |-> "ingest", delivery |-> d] ELSE handler[k]
      BY <1>2, <2>1
    <3>3. k # h /\ At(k, "resolve")' => At(k, "resolve") /\ handler'[k] = handler[k]
      BY <3>2 DEF At
    <3>4. k = h => ~At(k, "resolve")'
      BY <3>2 DEF At
    <3> QED
      BY <1>1, <2>2, <3>3, <3>4 DEF FailureInv
  <2> QED
    BY <1>2, <1>3, <1>4, <2>1, <2>2, <2>3
<1>9. ASSUME NEW h \in Handlers, Ingest(h) PROVE FailureInv'
  <2> DEFINE d == handler[h].delivery
  <2>1. handler[h] # Idle /\ d \in Deliveries
    BY <1>1, <1>9, AboutDelivery DEF Ingest, At, Idle
  <2>2. Arrived' = Arrived \cup {d}
    <3>1. CASE Duplicate(d)
      BY <1>9, <3>1 DEF Ingest, rows, Duplicate, Arrived
    <3>2. CASE ~Duplicate(d)
      <4>1. delivered' = Append(delivered, d) /\ d \notin ToSet(delivered)
        BY <1>9, <3>2 DEF Ingest, Duplicate, Arrived
      <4>2. ToSet(Append(delivered, d)) = ToSet(delivered) \cup {d}
        BY <1>2, <2>1, <4>1, Appended
      <4>3. Arrived' = ToSet(Append(delivered, d))
        BY <4>1 DEF Arrived, ToSet
      <4> QED
        BY <4>2, <4>3 DEF Arrived
    <3> QED
      BY <3>1, <3>2
  <2>3. Goes(h, "failed") \/ Goes(h, "resolve")
    BY <1>9 DEF Ingest
  <2>4. \A k \in Handlers : At(k, "resolve")' => handler'[k].delivery \in Arrived'
    BY <1>7, <2>1, <2>2, <2>3
  <2>5. /\ UNCHANGED <<now, receipts>> /\ failing' = [failing EXCEPT ![d] = None]
        /\ failing' \in [Deliveries -> Times \cup {None}]
    BY <1>2, <1>9 DEF Ingest
  <2> HIDE DEF d
  <2>6. \A x \in Deliveries, t \in Int : failing'[x] = t /\ t # None =>
          failing[x] = t /\ x \notin Arrived' /\ Noted(x, t)'
    <3>1. TAKE x \in Deliveries, t \in Int
    <3>2. HAVE failing'[x] = t /\ t # None
    <3>3. x # d /\ failing[x] = t
      BY <1>2, <2>5, <3>2
    <3> QED
      BY <1>4, <2>2, <2>5, <3>2, <3>3
  <2> QED
    BY <1>3, <2>4, <2>5, <2>6
<1>10. ASSUME NEW h \in Handlers, ResolveFailures(h) PROVE FailureInv'
  <2> DEFINE r == handler[h].delivery
  <2>1. handler[h] # Idle /\ r \in Arrived
    BY <1>1, <1>10 DEF ResolveFailures, At, Idle, FailureInv
  <2>2. /\ UNCHANGED <<now, failing, delivered>> /\ resolveMarketplaceWebhookFailures(r)
        /\ Ends(h) \/ Goes(h, "failed")
    BY <1>10 DEF ResolveFailures, rows
  <2> HIDE DEF r
  <2>3. Arrived' = Arrived
    BY <2>2 DEF Arrived
  <2>4. \A k \in Handlers : At(k, "resolve")' => handler'[k].delivery \in Arrived'
    BY <1>7, <2>1, <2>2, <2>3
  <2>5. \A x \in Deliveries, t \in Int : failing'[x] = t /\ t # None =>
          failing[x] = t /\ x \notin Arrived' /\ Noted(x, t)'
    BY <1>1, <1>4, <2>1, <2>2, <2>3, NotedUnlessResolved
  <2> QED
    BY <1>2, <1>3, <2>2, <2>4, <2>5
<1>11. ASSUME NEW h \in Handlers, CallFails(h) \/ HandlerDies(h) PROVE FailureInv'
  <2>1. /\ handler[h] # Idle
        /\ Ends(h) \/ Goes(h, "failed")
        /\ UNCHANGED <<now, receipts, failing, delivered>>
    BY <1>11 DEF CallFails, HandlerDies, At, Idle, rows, log
  <2>2. Arrived' = Arrived
    BY <2>1 DEF Arrived
  <2>3. \A k \in Handlers : At(k, "resolve")' => handler'[k].delivery \in Arrived'
    BY <1>7, <2>1, <2>2
  <2> QED
    BY <1>2, <1>3, <1>4, <2>1, <2>2, <2>3
<1>12. ASSUME NEW h \in Handlers, RecordFailure(h) PROVE FailureInv'
  <2>0. handler[h] # Idle /\ handler[h].delivery \in Deliveries
    BY <1>1, <1>12, AboutDelivery DEF RecordFailure, At, Idle
  <2>1. PICK d \in Deliveries : d = handler[h].delivery
    BY <2>0
  <2>2. /\ UNCHANGED <<now, delivered>> /\ Ends(h) /\ recordMarketplaceWebhookFailure(d)
        /\ failing' = IF d \in Arrived THEN failing ELSE [failing EXCEPT ![d] = now]
    BY <1>12, <2>1 DEF RecordFailure, rows
  <2>3. Arrived' = Arrived
    BY <2>2 DEF Arrived
  <2>4. \A k \in Handlers : At(k, "resolve")' => handler'[k].delivery \in Arrived'
    BY <1>7, <2>0, <2>2, <2>3
  <2>5. Noted(d, now)'
    <3>1. LogOK
      BY <1>1 DEF TypeInv
    <3>2. \/ \E n \in DOMAIN receipts' : receipts'[n] = [about |-> d, at |-> now]
          \/ DOMAIN receipts' = Slots /\ \A n \in Slots : receipts'[n].at >= now
      BY <1>2, <2>1, <2>2, <3>1, ReceiptWritten
    <3>3. CASE \E n \in DOMAIN receipts' : receipts'[n] = [about |-> d, at |-> now]
      <4>1. \E n \in DOMAIN receipts' : receipts'[n].about = d /\ receipts'[n].at >= now
        BY <1>2, <3>3
      <4> QED
        BY <2>2, <4>1 DEF Noted
    <3>4. CASE DOMAIN receipts' = Slots /\ \A n \in Slots : receipts'[n].at >= now
      BY <2>2, <3>4 DEF Noted
    <3> QED
      BY <3>2, <3>3, <3>4
  <2>6. \A x \in Deliveries, t \in Int : failing[x] = t /\ t # None =>
          x \notin Arrived' /\ t >= now - Day /\ t <= now /\ Noted(x, t)'
    BY <1>1, <1>4, <2>1, <2>2, <2>3, NotedIsKept
  <2>7. ASSUME NEW x \in Deliveries, failing'[x] # None
        PROVE  /\ x \notin Arrived' /\ failing'[x] >= now' - Day /\ failing'[x] <= now'
               /\ Noted(x, failing[x])'
    <3>1. CASE failing'[x] = failing[x]
      <4>1. PICK t \in Int : failing[x] = t /\ t # None
        BY <1>2, <2>7, <3>1
      <4>2. x \notin Arrived' /\ t >= now - Day /\ t <= now /\ Noted(x, t)'
        BY <2>6, <4>1
      <4>3. failing'[x] = t
        BY <3>1, <4>1
      <4>4. Noted(x, failing[x])'
        BY <4>2, <4>3 DEF Noted
      <4> QED
        BY <2>2, <4>2, <4>3, <4>4
    <3>2. CASE failing'[x] # failing[x]
      <4>1. x = d /\ d \notin Arrived /\ failing'[x] = now
        BY <1>2, <2>2, <3>2
      <4>2. Noted(x, failing[x])'
        BY <2>2, <2>5, <4>1 DEF Noted
      <4> QED
        BY <1>2, <2>2, <2>3, <4>1, <4>2
    <3> QED
      BY <3>1, <3>2
  <2> QED
    BY <2>4, <2>7 DEF FailureInv
<1>13. CASE RefuseUnconfigured
  <2>1. /\ UNCHANGED <<now, failing, delivered, handler>>
        /\ recordMarketplaceWebhookFailure("configuration")
    BY <1>13 DEF RefuseUnconfigured, rows
  <2>2. Arrived' = Arrived
    BY <2>1 DEF Arrived
  <2>3. \A x \in Deliveries, t \in Int : failing'[x] = t /\ t # None =>
          failing[x] = t /\ x \notin Arrived' /\ Noted(x, t)'
    BY <1>1, <1>4, <2>1, <2>2, NotedIsKept
  <2> QED
    BY <1>2, <1>3, <1>5, <2>1, <2>3
<1>14. CASE Ping
  <2>1. /\ UNCHANGED <<now, failing, delivered, handler>>
        /\ resolveMarketplaceWebhookFailures("configuration")
    BY <1>14 DEF Ping, rows
  <2>2. Arrived' = Arrived
    BY <2>1 DEF Arrived
  <2>3. \A x \in Deliveries, t \in Int : failing'[x] = t /\ t # None =>
          failing[x] = t /\ x \notin Arrived' /\ Noted(x, t)'
    BY <1>1, <1>4, <2>1, <2>2, NotedUnlessResolved, NamesAssumption
  <2> QED
    BY <1>2, <1>3, <1>5, <2>1, <2>3
<1>15. CASE Tick
  <2>1. /\ UNCHANGED <<receipts, delivered, handler>> /\ now' = now + 1
        /\ failing' = [d \in Deliveries |->
              IF failing[d] # None /\ failing[d] >= now' - Day THEN failing[d] ELSE None]
    BY <1>15 DEF Tick, rows
  <2>2. Arrived' = Arrived
    BY <2>1 DEF Arrived
  <2>3. ASSUME NEW x \in Deliveries, failing'[x] # None
        PROVE  /\ x \notin Arrived' /\ failing'[x] >= now' - Day /\ failing'[x] <= now'
               /\ Noted(x, failing[x])'
    <3>1. failing'[x] = failing[x] /\ failing[x] >= now' - Day /\ failing[x] # None
      BY <2>1, <2>3
    <3>2. PICK t \in Int : failing[x] = t /\ t # None
      BY <1>2, <3>1
    <3>3. x \notin Arrived /\ t <= now /\ Noted(x, t)'
      BY <1>4, <2>1, <3>2
    <3>4. Noted(x, failing[x])'
      BY <3>1, <3>2, <3>3 DEF Noted
    <3> QED
      BY <1>2, <2>1, <2>2, <3>1, <3>2, <3>3, <3>4
  <2> QED
    BY <1>5, <2>1, <2>3 DEF FailureInv
<1>16. ASSUME NEW i \in Installs,
              \/ beginMarketplaceInstall(i) \/ Expire(i)
              \/ \E c \in Callbacks : ReadState(c, i)
       PROVE  FailureInv'
  BY <1>6, <1>16 DEF beginMarketplaceInstall, Expire, ReadState, rows, log
<1>17. ASSUME NEW c \in Callbacks, DeleteState(c) \/ RecordPurchase(c) \/ CallbackEnds(c)
       PROVE  FailureInv'
  BY <1>6, <1>17 DEF DeleteState, RecordPurchase, CallbackEnds, rows, log
<1>18. CASE purgeAccount \/ UNCHANGED vars
  BY <1>6, <1>18 DEF purgeAccount, vars, rows, log
<1> QED
  BY <1>1, <1>8, <1>9, <1>10, <1>11, <1>12, <1>13, <1>14, <1>15, <1>16, <1>17, <1>18 DEF Next

\* While a delivery has failed and has not been recorded since, the sweep reports it
\* for a day, or receipts that are no older than the failure are as many as the log
\* keeps (recordMarketplaceWebhookFailure, marketplaceWebhookHealth).
THEOREM FailureIsReported == Spec => []FailureReported
<1>1. Init => FailureInv
  BY DEF Init, FailureInv, At, Idle
<1>2. TypeInv /\ FailureInv => FailureReported
  <2>1. SUFFICES ASSUME TypeInv, FailureInv, NEW d \in Deliveries, failing[d] # None
                 PROVE  d \in Reported \/ CrowdedOut(d)
    BY DEF FailureReported
  <2>2. /\ failing[d] \in Int /\ failing[d] >= now - Day /\ now \in Int /\ Day \in Int
        /\ \A n \in DOMAIN receipts : receipts[n].at \in Int
    BY <2>1, TimesTyped, TimesAssumption DEF TypeInv, TypeOK, LogOK, Receipts, FailureInv
  <2>3. ASSUME NEW n \in DOMAIN receipts, receipts[n].about = d, receipts[n].at >= failing[d]
        PROVE  d \in Reported
    <3>1. receipts[n].at >= now - Day
      BY <2>2, <2>3
    <3> QED
      BY <2>3, <3>1 DEF Reported
  <2>4. ASSUME DOMAIN receipts = Slots, \A n \in Slots : receipts[n].at >= failing[d]
        PROVE  CrowdedOut(d)
    BY <2>4, Full DEF CrowdedOut
  <2> QED
    BY <2>1, <2>3, <2>4 DEF FailureInv, Noted
<1> QED
  BY <1>1, <1>2, TypeInit, TypeStep, FailureStep, PTL DEF Spec

=============================================================================
