---------------------- MODULE ReleaseControllerProofs ----------------------
(* Theorems about ReleaseController, for any GitHub runs, deployments, keys *)
(* and requests, and any times.                                             *)
EXTENDS ReleaseController, TLAPS

-----------------------------------------------------------------------------
(* Types. *)

\* There is a record, or there is none.
LEMMA RecordType ==
  ASSUME TypeOK, Exists
  PROVE  /\ record \in Records
         /\ (record.status = "AUTHORISED") = (record.receipt = None)
         /\ (record.receipt = None) = (record.handoffs = <<>>)
         /\ (record.status \in Outcomes) = (record.decision # None)
         /\ record.decision # None => record.decision.outcome = record.status
BY DEF TypeOK, Exists

\* A record is told from its absence by its status.
LEMMA RecordExists == ASSUME NEW r \in Records PROVE r # NoRecord
BY DEF Records, NoRecord, Statuses, Outcomes

\* None is none of the values that a field may have instead.
LEMMA NoneIsNothing ==
  /\ \A r \in Receipts : r # None
  /\ \A g \in GithubRuns : g # None
BY NoneAssumption

\* The initial state has its type.
LEMMA InitType == Init => TypeOK
<1>1. 0 \in Times
  BY TimesAssumption DEF Times
<1>2. Idle \in Waits
  BY DEF Waits
<1> QED
  BY <1>1, <1>2, Zenon DEF Init, TypeOK, Exists

\* The first authorisation is a record.
LEMMA AuthorisedType ==
  ASSUME TypeOK, NEW g \in GithubRuns
  PROVE  Authorised(g) \in Records
<1>1. env.subject \in Subjects /\ env.trust \in Trusts
  BY DeploymentsAssumption DEF TypeOK, Configurations
<1>2. clock \in Times
  BY DEF TypeOK
<1>3. <<"authorise_exact_release">> \in Seq(AuditActions) /\ "AUTHORISED" \in Statuses
  BY DEF AuditActions, Statuses
<1>4. <<>> \in Seq(Handoffs) /\ <<>> \in Seq(GithubRuns)
  OBVIOUS
<1> QED
  BY <1>1, <1>2, <1>3, <1>4 DEF Authorised, Records

\* What a recovery makes of a record is a record.
LEMMA ResumedType ==
  ASSUME TypeOK, Exists, NEW g \in GithubRuns, NEW s \in Reservations
  PROVE  Resumed(g, s) \in Records
<1>1. env.trust \in Trusts /\ clock \in Times
  BY DeploymentsAssumption DEF TypeOK, Configurations
<1>2. record \in Records
  BY RecordType
<1>3. Append(record.previous, record.run) \in Seq(GithubRuns)
  BY <1>2 DEF Records
<1>4. Event(record, "resume_unexecuted_authorisation") \in Seq(AuditActions)
  BY <1>2 DEF Records, Event, AuditActions
<1> QED
  BY <1>1, <1>2, <1>3, <1>4 DEF Resumed, Records

\* A receipt that was signed is a receipt.
LEMMA SignedType ==
  ASSUME TypeOK, NEW h \in GithubRuns, NEW r \in Signed(h)
  PROVE  r \in Receipts
<1>1. executed[h] \in Times \cup {None} /\ clock \in Times
  BY DEF TypeOK
<1>2. CASE executed[h] = None
  BY <1>2 DEF Signed
<1>3. CASE executed[h] # None
  <2>1. \A issued \in executed[h] .. clock : issued \in Times /\ executed[h] .. issued \subseteq Times
    BY <1>1, <1>3, TimesAssumption DEF Times
  <2>2. PICK issued \in executed[h] .. clock :
          r \in [run : {h}, attempted : {executed[h]}, verified : executed[h] .. issued,
                issued : {issued}]
    BY <1>3 DEF Signed
  <2> QED
    BY <1>1, <1>3, <2>1, <2>2 DEF Receipts
<1> QED
  BY <1>2, <1>3

\* A handoff's times are times.
LEMMA HandoffType ==
  ASSUME NEW now \in Times, NEW life \in 0 .. HandoffLife
  PROVE  Handoff(now, life) \in Handoffs
BY TimesAssumption DEF Times, Handoff, Handoffs

\* While the verifier is awaited there is a receipt and a current handoff.
LEMMA AwaitingType ==
  ASSUME TypeOK, Awaits
  PROVE  /\ record \in Records /\ record.receipt \in Receipts /\ record.decision = None
         /\ record.handoffs \in Seq(Handoffs) /\ Len(record.handoffs) \in Nat \ {0}
         /\ Current \in Handoffs
<1>1. /\ Exists /\ record.status = "AWAITING_INDEPENDENT_VERIFICATION"
  BY DEF Awaits
<1>2. record \in Records
  BY <1>1, RecordType
<1>3. record.receipt # None /\ record.handoffs # <<>> /\ record.decision = None
  BY <1>1, RecordType DEF Outcomes
<1>4. record.receipt \in Receipts /\ record.handoffs \in Seq(Handoffs)
  BY <1>2, <1>3 DEF Records
<1>5. Len(record.handoffs) \in Nat \ {0}
  BY <1>3, <1>4
<1>6. Current \in Handoffs
  BY <1>4, <1>5 DEF Current
<1> QED
  BY <1>2, <1>3, <1>4, <1>5, <1>6

\* start() keeps the types.
LEMMA StartType ==
  ASSUME TypeOK, NEW g \in GithubRuns, NEW attempt \in 1 .. 2, Start(g, attempt)
  PROVE  TypeOK'
<1>1. CASE Exists
  BY <1>1 DEF Start, TypeOK, Exists
<1>2. CASE ~Exists
  <2>1. record' = Authorised(g) /\ UNCHANGED <<env, waiting, executed, clock>>
    BY <1>2 DEF Start
  <2>2. record' \in Records
    BY <2>1, AuthorisedType
  <2>3. /\ record'.status = "AUTHORISED" /\ record'.receipt = None
        /\ record'.handoffs = <<>> /\ record'.decision = None
    BY <2>1 DEF Authorised
  <2>4. mayExecute' \subseteq GithubRuns
    BY DEF Start, TypeOK
  <2> QED
    BY <2>1, <2>2, <2>3, <2>4 DEF TypeOK, Outcomes
<1> QED
  BY <1>1, <1>2

\* The transaction that begins a recovery keeps the types, and leaves one request waiting.
LEMMA BeginRecoverType ==
  ASSUME TypeOK, NEW g \in GithubRuns, NEW q \in Requests, BeginRecover(q, g)
  PROVE  /\ TypeOK'
         /\ waiting' = [waiting EXCEPT ![q] =
              [kind |-> "recover", run |-> g, reservation |-> record'.reservation]]
<1>1. Exists /\ UNCHANGED <<env, executed, mayExecute, clock>>
  BY DEF BeginRecover
<1>2. record \in Records
  BY <1>1, RecordType
<1>3. waiting' = [waiting EXCEPT ![q] =
        [kind |-> "recover", run |-> g, reservation |-> record'.reservation]]
  BY DEF BeginRecover, Wait
<1>4. CASE UNCHANGED record /\ record.reservation # None
  <2>1. record'.reservation \in Reservations
    BY <1>2, <1>4 DEF Records
  <2>2. waiting' \in [Requests -> Waits]
    BY <1>3, <2>1 DEF TypeOK, Waits
  <2> QED
    BY <1>1, <1>3, <1>4, <2>2 DEF TypeOK, Exists
<1>5. ASSUME Recoverable(g), NEW s \in SignedReservations(g), Reserved(s, g),
             record' = Resumed(g, s)
      PROVE  TypeOK'
  <2>1. clock \in Times
    BY DEF TypeOK
  <2>2. s.issued \in Times /\ s.expires \in 0 .. MaxTime + ReservationLife
    BY <2>1, TimesAssumption DEF SignedReservations, Times
  <2>3. s \in Reservations
    BY <2>2 DEF SignedReservations, Reservations
  <2>4. record' \in Records
    BY <1>1, <1>5, <2>3, ResumedType
  <2>5. /\ record'.reservation = s /\ record'.status = record.status
        /\ record'.receipt = record.receipt /\ record'.handoffs = record.handoffs
        /\ record'.decision = record.decision
    BY <1>2, <1>5 DEF Resumed, Records
  <2>6. waiting' \in [Requests -> Waits]
    BY <1>3, <2>3, <2>5 DEF TypeOK, Waits
  <2>7. \/ record' = record
        \/ Exists'
    BY <2>4, RecordExists DEF Exists
  <2> QED
    BY <1>1, <2>4, <2>5, <2>6, RecordType DEF TypeOK
<1> QED
  BY <1>3, <1>4, <1>5 DEF BeginRecover

\* So does the one that records the grant.
LEMMA FinishRecoverType ==
  ASSUME TypeOK, NEW q \in Requests, FinishRecover(q)
  PROVE  TypeOK'
<1>1. waiting[q] \in Waits /\ waiting[q].kind = "recover"
  BY DEF TypeOK, FinishRecover
<1>2. waiting[q].run \in GithubRuns
  BY <1>1 DEF Waits, Idle
<1>3. waiting' \in [Requests -> Waits]
  BY DEF FinishRecover, Reply, TypeOK, Waits
<1>4. Exists /\ record \in Records
  BY RecordType DEF FinishRecover, Bound
<1>5. mayExecute' \subseteq GithubRuns
  BY <1>2 DEF FinishRecover, TypeOK
<1>6. CASE record' = record
  BY <1>3, <1>5, <1>6 DEF FinishRecover, TypeOK, Exists
<1>7. CASE record' = [record EXCEPT !.granted = TRUE]
  <2>1. record' \in Records
    BY <1>4, <1>7 DEF Records
  <2>2. /\ record'.status = record.status
        /\ record'.receipt = record.receipt /\ record'.handoffs = record.handoffs
        /\ record'.decision = record.decision
    BY <1>4, <1>7 DEF Records
  <2> QED
    BY <1>3, <1>4, <1>5, <2>1, <2>2, RecordType DEF FinishRecover, TypeOK
<1> QED
  BY <1>6, <1>7 DEF FinishRecover

\* receipt() keeps the types.
LEMMA BeginReceiptType ==
  ASSUME TypeOK, NEW g \in GithubRuns, NEW q \in Requests, BeginReceipt(q, g)
  PROVE  TypeOK'
<1>1. PICK r \in UNION {Signed(h) : h \in GithubRuns} :
        Wait(q, [kind |-> "receipt", run |-> g, receipt |-> r,
                 handoff |-> Handoff(clock, HandoffLife)])
  BY DEF BeginReceipt
<1>2. r \in Receipts
  BY SignedType
<1>3. clock \in Times /\ HandoffLife \in 0 .. HandoffLife
  BY TimesAssumption DEF TypeOK
<1>4. Handoff(clock, HandoffLife) \in Handoffs
  BY <1>3, HandoffType
<1>5. waiting' \in [Requests -> Waits]
  BY <1>1, <1>2, <1>4 DEF Wait, TypeOK, Waits
<1> QED
  BY <1>5 DEF BeginReceipt, TypeOK, Exists

\* So does binding the receipt.
LEMMA FinishReceiptType ==
  ASSUME TypeOK, NEW q \in Requests, FinishReceipt(q)
  PROVE  TypeOK'
<1>1. waiting[q] \in Waits /\ waiting[q].kind = "receipt"
  BY DEF TypeOK, FinishReceipt
<1>2. waiting[q].receipt \in Receipts /\ waiting[q].handoff \in Handoffs
  BY <1>1 DEF Waits, Idle
<1>3. waiting' \in [Requests -> Waits]
  BY DEF FinishReceipt, Reply, TypeOK, Waits
<1>4. Exists /\ record \in Records /\ record.decision = None
  BY RecordType DEF FinishReceipt, Bound, StillAuthorised, Outcomes
<1>5. /\ <<waiting[q].handoff>> \in Seq(Handoffs)
      /\ Event(record, "accept_receipt_and_issue_handoff") \in Seq(AuditActions)
  BY <1>2, <1>4 DEF Records, Event, AuditActions
<1>6. record' = [record EXCEPT !.receipt = waiting[q].receipt, !.handoffs = <<waiting[q].handoff>>,
                               !.status = "AWAITING_INDEPENDENT_VERIFICATION",
                               !.audit = Event(record, "accept_receipt_and_issue_handoff")]
  BY DEF FinishReceipt
<1>7. record' \in Records
  BY <1>2, <1>4, <1>5, <1>6 DEF Records, Statuses
<1>8. /\ record'.status = "AWAITING_INDEPENDENT_VERIFICATION"
      /\ record'.receipt # None /\ record'.handoffs = <<waiting[q].handoff>>
      /\ record'.decision = None
  BY <1>2, <1>4, <1>6, NoneIsNothing DEF Records
<1> QED
  BY <1>3, <1>7, <1>8 DEF FinishReceipt, TypeOK, Outcomes

\* refresh() keeps the types.
LEMMA BeginRefreshType ==
  ASSUME TypeOK, NEW g \in GithubRuns, NEW q \in Requests, BeginRefresh(q, g)
  PROVE  TypeOK'
<1>1. Wait(q, [kind |-> "refresh", run |-> g, handoff |-> Handoff(clock, Life),
               expired |-> Current])
  BY DEF BeginRefresh
<1>2. Current \in Handoffs /\ record.receipt \in Receipts
  BY AwaitingType DEF BeginRefresh
<1>3. clock \in Times /\ record.receipt.issued \in Times
  BY <1>2 DEF TypeOK, Receipts
<1>4. Life \in 0 .. HandoffLife
  BY <1>3, TimesAssumption DEF Life, BeginRefresh, Times
<1>5. Handoff(clock, Life) \in Handoffs
  BY <1>3, <1>4, HandoffType
<1>6. waiting' \in [Requests -> Waits]
  BY <1>1, <1>2, <1>5 DEF Wait, TypeOK, Waits
<1> QED
  BY <1>6 DEF BeginRefresh, TypeOK, Exists

\* So does recording the renewed handoff.
LEMMA FinishRefreshType ==
  ASSUME TypeOK, NEW q \in Requests, FinishRefresh(q)
  PROVE  TypeOK'
<1>1. waiting[q] \in Waits /\ waiting[q].kind = "refresh"
  BY DEF TypeOK, FinishRefresh
<1>2. waiting[q].handoff \in Handoffs
  BY <1>1 DEF Waits, Idle
<1>3. waiting' \in [Requests -> Waits]
  BY DEF FinishRefresh, Reply, TypeOK, Waits
<1>4. /\ Awaits /\ record \in Records /\ record.receipt \in Receipts
      /\ record.decision = None /\ record.handoffs \in Seq(Handoffs)
  BY AwaitingType DEF FinishRefresh, NotRenewed
<1>5. /\ Append(record.handoffs, waiting[q].handoff) \in Seq(Handoffs)
      /\ Append(record.handoffs, waiting[q].handoff) # <<>>
      /\ Event(record, "refresh_verification_handoff") \in Seq(AuditActions)
  BY <1>2, <1>4 DEF Records, Event, AuditActions
<1>6. record' = [record EXCEPT !.handoffs = Append(record.handoffs, waiting[q].handoff),
                               !.audit = Event(record, "refresh_verification_handoff")]
  BY DEF FinishRefresh
<1>7. record' \in Records
  BY <1>4, <1>5, <1>6 DEF Records
<1>8. /\ record'.status = "AWAITING_INDEPENDENT_VERIFICATION"
      /\ record'.receipt # None /\ record'.handoffs # <<>> /\ record'.decision = None
  BY <1>4, <1>5, <1>6, NoneIsNothing DEF Records, Awaits
<1> QED
  BY <1>3, <1>7, <1>8 DEF FinishRefresh, TypeOK, Outcomes

\* settle() keeps the types.
LEMMA SettleType ==
  ASSUME TypeOK, NEW g \in GithubRuns, Settle(g)
  PROVE  TypeOK'
<1>1. /\ record \in Records /\ record.receipt \in Receipts /\ record.handoffs # <<>>
  BY AwaitingType DEF Settle, Pending
<1>2. PICK d \in SignedDecisions :
        /\ Settles(d)
        /\ record' = [record EXCEPT !.decision = d, !.status = d.outcome,
                                    !.audit = Event(record, "accept_independent_outcome")]
  BY DEF Settle
<1>3. d.receipt = record.receipt /\ d.outcome \in Outcomes /\ d.observed \in 0 .. clock
  BY <1>2 DEF Settles, SignedDecisions
<1>4. d.observed \in Times
  BY <1>3, TimesAssumption DEF TypeOK, Times
<1>5. d \in Decisions
  BY <1>1, <1>3, <1>4 DEF SignedDecisions, Decisions
<1>6. Event(record, "accept_independent_outcome") \in Seq(AuditActions)
  BY <1>1 DEF Records, Event, AuditActions
<1>7. record' \in Records
  BY <1>1, <1>2, <1>3, <1>5, <1>6 DEF Records, Statuses
<1>8. d # None
  BY <1>5, NoneAssumption
<1>9. /\ record'.status = d.outcome /\ record'.receipt = record.receipt
      /\ record'.handoffs = record.handoffs /\ record'.decision = d
  BY <1>1, <1>2 DEF Records
<1>10. record'.receipt # None /\ record'.status # "AUTHORISED"
  BY <1>1, <1>3, <1>9, NoneIsNothing DEF Outcomes
<1> QED
  BY <1>1, <1>3, <1>7, <1>8, <1>9, <1>10 DEF Settle, TypeOK

\* What happens to no record keeps the types.
LEMMA OtherType ==
  ASSUME TypeOK,
         \/ \E g \in GithubRuns : Execute(g)
         \/ \E q \in Requests : Drop(q)
         \/ \E d \in Deployments : Deploy(d)
         \/ Tick
         \/ UNCHANGED vars
  PROVE  TypeOK'
<1>1. ASSUME NEW g \in GithubRuns, Execute(g) PROVE TypeOK'
  BY <1>1 DEF Execute, TypeOK, Exists
<1>2. ASSUME NEW q \in Requests, Drop(q) PROVE TypeOK'
  <2>1. waiting' \in [Requests -> Waits]
    BY <1>2 DEF Drop, Reply, TypeOK, Waits
  <2> QED
    BY <1>2, <2>1 DEF Drop, TypeOK, Exists
<1>3. ASSUME NEW d \in Deployments, Deploy(d) PROVE TypeOK'
  <2>1. waiting' \in [Requests -> Waits]
    BY <1>3 DEF Deploy, Waits
  <2> QED
    BY <1>3, <2>1 DEF Deploy, TypeOK, Exists
<1>4. CASE Tick
  <2>1. clock' \in Times
    BY <1>4, TimesAssumption DEF Tick, TypeOK, Times
  <2> QED
    BY <1>4, <2>1 DEF Tick, TypeOK, Exists
<1>5. CASE UNCHANGED vars
  BY <1>5 DEF vars, TypeOK, Exists
<1> QED
  BY <1>1, <1>2, <1>3, <1>4, <1>5

\* Every step keeps the types.
LEMMA TypeStep == TypeOK /\ [Next]_vars => TypeOK'
<1> SUFFICES ASSUME TypeOK, [Next]_vars PROVE TypeOK'
  OBVIOUS
<1>1. ASSUME NEW g \in GithubRuns, NEW attempt \in 1 .. 2, Start(g, attempt) PROVE TypeOK'
  BY <1>1, StartType
<1>2. ASSUME NEW g \in GithubRuns, NEW q \in Requests,
             BeginRecover(q, g) \/ BeginReceipt(q, g) \/ BeginRefresh(q, g)
      PROVE  TypeOK'
  BY <1>2, BeginRecoverType, BeginReceiptType, BeginRefreshType
<1>3. ASSUME NEW q \in Requests, FinishRecover(q) \/ FinishReceipt(q) \/ FinishRefresh(q)
      PROVE  TypeOK'
  BY <1>3, FinishRecoverType, FinishReceiptType, FinishRefreshType
<1>4. ASSUME NEW g \in GithubRuns, Settle(g) PROVE TypeOK'
  BY <1>4, SettleType
<1> QED
  BY <1>1, <1>2, <1>3, <1>4, OtherType DEF Next

\* The types, and the agreement of a record's fields with its status: a receipt
\* comes with a handoff, and a status of the end with the decision that says so.
THEOREM TypeCorrect == Spec => []TypeOK
BY InitType, TypeStep, PTL DEF Spec

-----------------------------------------------------------------------------
(* What a step does to a record there is. *)

\* A record that is there is changed in one of five ways, each with its guard.
RecordStep ==
  \/ UNCHANGED record
  \/ \E g \in GithubRuns, s \in Reservations : Recoverable(g) /\ record' = Resumed(g, s)
  \/ /\ record.status = "AUTHORISED"
     /\ record' = [record EXCEPT !.granted = TRUE]
  \/ /\ StillAuthorised
     /\ \E r \in Receipts, h \in Handoffs :
          record' = [record EXCEPT !.receipt = r, !.handoffs = <<h>>,
                                   !.status = "AWAITING_INDEPENDENT_VERIFICATION",
                                   !.audit = Event(record, "accept_receipt_and_issue_handoff")]
  \/ /\ Awaits
     /\ \E h \in Handoffs :
          record' = [record EXCEPT !.handoffs = Append(record.handoffs, h),
                                   !.audit = Event(record, "refresh_verification_handoff")]
  \/ /\ Awaits
     /\ \E d \in Decisions :
          /\ d.receipt = record.receipt
          /\ record' = [record EXCEPT !.decision = d, !.status = d.outcome,
                                      !.audit = Event(record, "accept_independent_outcome")]

\* Every step changes a record in one of these ways.
LEMMA RecordSteps ==
  ASSUME TypeOK, Exists, [Next]_vars
  PROVE  RecordStep
<1>1. ASSUME NEW g \in GithubRuns, NEW attempt \in 1 .. 2, Start(g, attempt) PROVE RecordStep
  BY <1>1 DEF Start, RecordStep
<1>2. ASSUME NEW g \in GithubRuns, NEW q \in Requests, BeginRecover(q, g) PROVE RecordStep
  <2>1. CASE UNCHANGED record
    BY <2>1 DEF RecordStep
  <2>2. ASSUME Recoverable(g), NEW s \in SignedReservations(g), record' = Resumed(g, s)
        PROVE  RecordStep
    <3>1. clock \in Times
      BY DEF TypeOK
    <3>2. s.issued \in Times /\ s.expires \in 0 .. MaxTime + ReservationLife
      BY <3>1, TimesAssumption DEF SignedReservations, Times
    <3>3. s \in Reservations
      BY <3>2 DEF SignedReservations, Reservations
    <3> QED
      BY <2>2, <3>3 DEF RecordStep
  <2> QED
    BY <1>2, <2>1, <2>2 DEF BeginRecover
<1>3. ASSUME NEW q \in Requests, FinishRecover(q) PROVE RecordStep
  BY <1>3 DEF FinishRecover, RecordStep
<1>4. ASSUME NEW q \in Requests, FinishReceipt(q) PROVE RecordStep
  <2>1. waiting[q].receipt \in Receipts /\ waiting[q].handoff \in Handoffs
    BY <1>4 DEF FinishReceipt, TypeOK, Waits, Idle
  <2> QED
    BY <1>4, <2>1, Zenon DEF FinishReceipt, RecordStep
<1>5. ASSUME NEW q \in Requests, FinishRefresh(q) PROVE RecordStep
  <2>1. waiting[q].handoff \in Handoffs
    BY <1>5 DEF FinishRefresh, TypeOK, Waits, Idle
  <2> QED
    BY <1>5, <2>1, Zenon DEF FinishRefresh, NotRenewed, RecordStep
<1>6. ASSUME NEW g \in GithubRuns, Settle(g) PROVE RecordStep
  <2>1. record.receipt \in Receipts
    BY <1>6, AwaitingType DEF Settle, Pending
  <2>2. PICK d \in SignedDecisions :
          /\ Settles(d)
          /\ record' = [record EXCEPT !.decision = d, !.status = d.outcome,
                                      !.audit = Event(record, "accept_independent_outcome")]
    BY <1>6 DEF Settle
  <2>3. d.receipt = record.receipt /\ d.observed \in Times
    BY <2>2, TimesAssumption DEF Settles, SignedDecisions, TypeOK, Times
  <2>4. d \in Decisions
    BY <2>1, <2>3 DEF SignedDecisions, Decisions
  <2> QED
    BY <1>6, <2>2, <2>3, <2>4, Zenon DEF Settle, Pending, RecordStep
<1>7. CASE UNCHANGED record
  BY <1>7 DEF RecordStep
<1> QED
  BY <1>1, <1>2, <1>3, <1>4, <1>5, <1>6, <1>7
     DEF Next, BeginReceipt, BeginRefresh, Execute, Drop, Deploy, Tick, vars

-----------------------------------------------------------------------------
(* What is recorded stays. *)

\* An event is added to those there are, and a handoff, and a run that is replaced.
LEMMA AppendGrows ==
  ASSUME NEW S, NEW old \in Seq(S), NEW e \in S
  PROVE  Grows(old, Append(old, e)) /\ Grows(old, old)
BY DEF Grows

\* The body of HistoryKept.
Kept ==
  Exists =>
    /\ record' # NoRecord
    /\ Grows(record.audit, record'.audit)
    /\ Grows(record.handoffs, record'.handoffs)
    /\ Grows(record.previous, record'.previous)
    /\ record'.subject = record.subject /\ record'.trust.pins = record.trust.pins
    /\ record.receipt # None => record'.receipt = record.receipt /\ record'.run = record.run
    /\ record.decision # None => record' = record

\* Every step keeps what is recorded.
LEMMA HistoryStep == ASSUME TypeOK, TypeOK', [Next]_vars PROVE Kept
<1> SUFFICES ASSUME Exists PROVE Kept
  BY DEF Kept
<1>1. /\ record \in Records /\ record.audit \in Seq(AuditActions)
      /\ record.handoffs \in Seq(Handoffs) /\ record.previous \in Seq(GithubRuns)
      /\ record.run \in GithubRuns
      /\ (record.status \in Outcomes) = (record.decision # None)
      /\ (record.status = "AUTHORISED") = (record.receipt = None)
      /\ (record.receipt = None) = (record.handoffs = <<>>)
  <2>1. record \in Records
    BY RecordType
  <2> QED
    BY <2>1, RecordType DEF Records
<1>2. /\ Grows(record.audit, record.audit) /\ Grows(record.handoffs, record.handoffs)
      /\ Grows(record.previous, record.previous)
  BY DEF Grows
<1>3. \A a \in AuditActions : Grows(record.audit, Event(record, a))
  BY <1>1, AppendGrows DEF Event
<1>4. {"resume_unexecuted_authorisation", "accept_receipt_and_issue_handoff",
       "refresh_verification_handoff", "accept_independent_outcome"} \subseteq AuditActions
  BY DEF AuditActions
<1>5. RecordStep
  BY RecordSteps
<1>6. CASE UNCHANGED record
  BY <1>2, <1>6 DEF Kept, Exists
<1>7. ASSUME NEW g \in GithubRuns, NEW s \in Reservations, Recoverable(g),
             record' = Resumed(g, s)
      PROVE  Kept
  <2>1. /\ record'.audit = Event(record, "resume_unexecuted_authorisation")
        /\ record'.previous = Append(record.previous, record.run)
        /\ record'.handoffs = record.handoffs /\ record'.subject = record.subject
        /\ record'.trust = env.trust
    BY <1>1, <1>7 DEF Resumed, Records
  <2>2. record' # NoRecord
    BY <1>7, ResumedType, RecordExists
  <2>3. Grows(record.previous, record'.previous)
    BY <1>1, <2>1, AppendGrows
  <2>4. /\ record.receipt = None /\ record.decision = None /\ env.trust.pins = record.trust.pins
    BY <1>1, <1>7 DEF Recoverable, Outcomes
  <2> QED
    BY <1>2, <1>3, <1>4, <2>1, <2>2, <2>3, <2>4 DEF Kept
<1>8. ASSUME record.status = "AUTHORISED", record' = [record EXCEPT !.granted = TRUE]
      PROVE  Kept
  <2>1. /\ record'.audit = record.audit /\ record'.previous = record.previous
        /\ record'.handoffs = record.handoffs /\ record'.subject = record.subject
        /\ record'.trust = record.trust /\ record'.receipt = record.receipt
        /\ record'.run = record.run /\ record' \in Records
    BY <1>1, <1>8 DEF Records
  <2>2. record.decision = None
    BY <1>1, <1>8 DEF Outcomes
  <2> QED
    BY <1>2, <2>1, <2>2, RecordExists DEF Kept
<1>9. ASSUME StillAuthorised, NEW r \in Receipts, NEW h \in Handoffs,
             record' = [record EXCEPT !.receipt = r, !.handoffs = <<h>>,
                                      !.status = "AWAITING_INDEPENDENT_VERIFICATION",
                                      !.audit = Event(record, "accept_receipt_and_issue_handoff")]
      PROVE  Kept
  <2>1. /\ record'.audit = Event(record, "accept_receipt_and_issue_handoff")
        /\ record'.previous = record.previous /\ record'.subject = record.subject
        /\ record'.trust = record.trust
        /\ record'.status = "AWAITING_INDEPENDENT_VERIFICATION"
    BY <1>1, <1>9 DEF Records
  <2>2. record.receipt = None /\ record.handoffs = <<>> /\ record.decision = None
    BY <1>1, <1>9 DEF StillAuthorised, Outcomes
  <2>3. Grows(record.handoffs, record'.handoffs)
    BY <2>2 DEF Grows
  <2>4. record' # NoRecord
    BY <2>1 DEF NoRecord
  <2> QED
    BY <1>2, <1>3, <1>4, <2>1, <2>2, <2>3, <2>4 DEF Kept
<1>10. ASSUME Awaits, NEW h \in Handoffs,
              record' = [record EXCEPT !.handoffs = Append(record.handoffs, h),
                                       !.audit = Event(record, "refresh_verification_handoff")]
       PROVE  Kept
  <2>1. /\ record'.audit = Event(record, "refresh_verification_handoff")
        /\ record'.handoffs = Append(record.handoffs, h)
        /\ record'.previous = record.previous /\ record'.subject = record.subject
        /\ record'.trust = record.trust /\ record'.status = record.status
        /\ record'.run = record.run /\ record'.receipt = record.receipt
    BY <1>1, <1>10 DEF Records
  <2>2. record.decision = None /\ record.status = "AWAITING_INDEPENDENT_VERIFICATION"
    BY <1>1, <1>10 DEF Awaits, Outcomes
  <2>3. Grows(record.handoffs, record'.handoffs)
    BY <1>1, <2>1, AppendGrows
  <2>4. record' # NoRecord
    BY <2>1, <2>2 DEF NoRecord
  <2> QED
    BY <1>2, <1>3, <1>4, <2>1, <2>2, <2>3, <2>4 DEF Kept
<1>11. ASSUME Awaits, NEW d \in Decisions,
              record' = [record EXCEPT !.decision = d, !.status = d.outcome,
                                       !.audit = Event(record, "accept_independent_outcome")]
       PROVE  Kept
  <2>1. /\ record'.audit = Event(record, "accept_independent_outcome")
        /\ record'.handoffs = record.handoffs /\ record'.decision = d
        /\ record'.previous = record.previous /\ record'.subject = record.subject
        /\ record'.trust = record.trust /\ record'.status \in Outcomes
        /\ record'.run = record.run /\ record'.receipt = record.receipt
    BY <1>1, <1>11 DEF Records, Decisions
  <2>2. record.decision = None
    BY <1>1, <1>11 DEF Awaits, Outcomes
  <2>3. record' # NoRecord
    BY <2>1 DEF NoRecord, Outcomes
  <2> QED
    BY <1>2, <1>3, <1>4, <2>1, <2>2, <2>3 DEF Kept
<1> QED
  BY <1>5, <1>6, <1>7, <1>8, <1>9, <1>10, <1>11 DEF RecordStep

\* Nothing that the record of a release says once is ever unsaid, however many
\* requests, runs and deployments interleave.
THEOREM HistoryIsKept == Spec => HistoryKept
<1>1. TypeOK /\ TypeOK' /\ [Next]_vars => [Kept]_record
  BY HistoryStep
<1> QED
  BY <1>1, TypeCorrect, PTL DEF Spec, HistoryKept, Kept

-----------------------------------------------------------------------------
(* Who had the authority. *)

\* A request that waits is still bound to the record: a recovery needs another
\* deployment, and a deployment takes the requests with it.
WaitersBound == \A q \in Requests : waiting[q] # Idle => Bound(waiting[q].run)

\* A receipt that waits for its handoff is of the run of record, with its authority.
ReceiptsAuthorised ==
  \A q \in Requests : waiting[q].kind = "receipt" =>
    /\ waiting[q].receipt.run = record.run /\ record.notBefore <= waiting[q].receipt.attempted
    /\ record.reservation # None => record.granted

\* Who took over did so with a reservation.
TakenOverByReservation == Exists /\ record.previous # <<>> => record.reservation # None

AuthorityInv ==
  TypeOK /\ WaitersBound /\ ReceiptsAuthorised /\ TakenOverByReservation
  /\ ReceiptOfCurrentAuthority

\* There is nobody with an authority at first.
LEMMA AuthorityInit == Init => AuthorityInv
<1> SUFFICES ASSUME Init PROVE AuthorityInv
  OBVIOUS
<1>1. TypeOK
  BY InitType
<1>2. record = NoRecord /\ mayExecute = {} /\ \A q \in Requests : waiting[q] = Idle
  BY DEF Init
<1> QED
  BY <1>1, <1>2 DEF AuthorityInv, WaitersBound, ReceiptsAuthorised, TakenOverByReservation,
                    ReceiptOfCurrentAuthority, Exists, Idle

\* A step that leaves the record and the deployment as they are keeps all of it
\* when it lets in no request but a bound one, no receipt but an authorised one.
LEMMA AuthorityKept ==
  ASSUME AuthorityInv, TypeOK', UNCHANGED <<env, record, mayExecute>>,
         \A q \in Requests : waiting'[q] \in {waiting[q], Idle} \/ Bound(waiting'[q].run),
         \A q \in Requests : waiting'[q] # waiting[q] /\ waiting'[q].kind = "receipt" =>
           /\ waiting'[q].receipt.run = record.run
           /\ record.notBefore <= waiting'[q].receipt.attempted
           /\ record.reservation # None => record.granted
  PROVE  AuthorityInv'
<1>1. WaitersBound'
  BY DEF AuthorityInv, WaitersBound, Bound, Exists
<1>2. ReceiptsAuthorised'
  BY DEF AuthorityInv, ReceiptsAuthorised
<1>3. TakenOverByReservation' /\ ReceiptOfCurrentAuthority'
  BY DEF AuthorityInv, TakenOverByReservation, ReceiptOfCurrentAuthority, Exists
<1> QED
  BY <1>1, <1>2, <1>3 DEF AuthorityInv

\* So does one that changes nothing of the record but what authority does not ask about.
LEMMA AuthorityUntouched ==
  ASSUME AuthorityInv, TypeOK', UNCHANGED <<env, mayExecute>>, Exists, Exists',
         \A q \in Requests : waiting'[q] \in {waiting[q], Idle},
         record'.run = record.run, record'.subject = record.subject,
         record'.trust = record.trust, record'.notBefore = record.notBefore,
         record'.reservation = record.reservation, record'.previous = record.previous,
         record.granted => record'.granted, record'.receipt = record.receipt
  PROVE  AuthorityInv'
<1>1. WaitersBound'
  BY DEF AuthorityInv, WaitersBound, Bound
<1>2. ReceiptsAuthorised'
  BY DEF AuthorityInv, ReceiptsAuthorised, Idle
<1>3. TakenOverByReservation' /\ ReceiptOfCurrentAuthority'
  BY DEF AuthorityInv, TakenOverByReservation, ReceiptOfCurrentAuthority
<1> QED
  BY <1>1, <1>2, <1>3 DEF AuthorityInv

\* The first run gets its authority from start().
LEMMA StartAuthority ==
  ASSUME AuthorityInv, TypeOK', NEW g \in GithubRuns, NEW attempt \in 1 .. 2, Start(g, attempt)
  PROVE  AuthorityInv'
<1>1. CASE Exists
  <2>1. UNCHANGED <<env, record, waiting>> /\ record.run = g /\ mayExecute' \subseteq mayExecute \cup {g}
    BY <1>1 DEF Start, Bound
  <2> QED
    BY <1>1, <2>1 DEF AuthorityInv, WaitersBound, Bound, ReceiptsAuthorised,
                      TakenOverByReservation, ReceiptOfCurrentAuthority, Exists
<1>2. CASE ~Exists
  <2>1. \A q \in Requests : waiting'[q] = Idle
    BY <1>2 DEF Start, AuthorityInv, WaitersBound, Bound
  <2>2. mayExecute' \subseteq {g}
    BY <1>2 DEF Start, AuthorityInv, ReceiptOfCurrentAuthority
  <2>3. record'.run = g /\ record'.receipt = None /\ record'.previous = <<>> /\ Exists'
    BY <1>2 DEF Start, Authorised, Exists, NoRecord
  <2> QED
    BY <2>1, <2>2, <2>3 DEF AuthorityInv, WaitersBound, ReceiptsAuthorised,
                            TakenOverByReservation, ReceiptOfCurrentAuthority, Idle
<1> QED
  BY <1>1, <1>2

\* A recovery is the only step that changes whose authority counts. Nothing waits
\* then, and it leaves the run that it replaces on record.
LEMMA RecoverAuthority ==
  ASSUME AuthorityInv, TypeOK', NEW g \in GithubRuns, NEW q \in Requests, BeginRecover(q, g)
  PROVE  AuthorityInv'
<1>1. /\ waiting' = [waiting EXCEPT ![q] =
           [kind |-> "recover", run |-> g, reservation |-> record'.reservation]]
      /\ waiting \in [Requests -> Waits] /\ UNCHANGED <<env, mayExecute>> /\ Exists
  BY BeginRecoverType DEF AuthorityInv, BeginRecover, TypeOK
<1>2. /\ waiting'[q].kind = "recover" /\ waiting'[q].run = g
      /\ \A p \in Requests \ {q} : waiting'[p] = waiting[p]
  BY <1>1
<1>3. CASE UNCHANGED record /\ Bound(g)
  BY <1>1, <1>2, <1>3, AuthorityKept
<1>4. ASSUME Recoverable(g), NEW s \in SignedReservations(g), record' = Resumed(g, s)
      PROVE  AuthorityInv'
  <2>1. \A p \in Requests : waiting[p] = Idle
    BY <1>4 DEF AuthorityInv, WaitersBound, Bound, Recoverable
  <2>2. /\ record \in Records /\ record.previous \in Seq(GithubRuns) /\ record.run \in GithubRuns
    <3>1. record \in Records
      BY <1>1, RecordType DEF AuthorityInv
    <3> QED
      BY <3>1 DEF Records
  <2>3. /\ record'.run = g /\ record'.trust = env.trust /\ record'.subject = record.subject
        /\ record'.reservation = s /\ record'.receipt = record.receipt
        /\ record'.previous = Append(record.previous, record.run)
        /\ record'.status = record.status
    BY <1>4, <2>2 DEF Resumed, Records
  <2>4. Exists' /\ record'.receipt = None /\ s # None
    <3>1. record'.status = "AUTHORISED" /\ record'.receipt = None
      BY <1>4, <2>3 DEF Recoverable
    <3>2. Exists'
      BY <3>1 DEF Exists, NoRecord
    <3>3. record' \in Records
      BY <3>2 DEF TypeOK, Exists
    <3>4. waiting'[q] \in Waits
      BY DEF TypeOK
    <3>5. record'.reservation \in Reservations
      BY <1>1, <1>2, <3>4 DEF Waits, Idle
    <3> QED
      BY <2>3, <3>1, <3>2, <3>5, NoneAssumption
  <2>5. Bound(g)'
    BY <1>1, <1>4, <2>3, <2>4 DEF Bound, Recoverable
  <2>6. WaitersBound' /\ ReceiptsAuthorised' /\ TakenOverByReservation'
    BY <1>2, <2>1, <2>3, <2>4, <2>5
       DEF WaitersBound, ReceiptsAuthorised, TakenOverByReservation, Idle
  <2>7. \A h \in mayExecute' : \E n \in DOMAIN record'.previous : record'.previous[n] = h
    <3>1. SUFFICES ASSUME NEW h \in mayExecute
                   PROVE  \E n \in DOMAIN record'.previous : record'.previous[n] = h
      BY <1>1
    <3>2. CASE h = record.run
      <4>1. /\ Len(record.previous) + 1 \in DOMAIN record'.previous
            /\ record'.previous[Len(record.previous) + 1] = record.run
        BY <2>2, <2>3
      <4> QED
        BY <3>2, <4>1
    <3>3. ASSUME NEW n \in DOMAIN record.previous, record.previous[n] = h
          PROVE  \E m \in DOMAIN record'.previous : record'.previous[m] = h
      <4>1. n \in DOMAIN record'.previous /\ record'.previous[n] = h
        BY <2>2, <2>3, <3>3
      <4> QED
        BY <4>1
    <3> QED
      BY <3>2, <3>3 DEF AuthorityInv, ReceiptOfCurrentAuthority
  <2>8. ReceiptOfCurrentAuthority'
    BY <2>4, <2>7 DEF ReceiptOfCurrentAuthority
  <2> QED
    BY <2>6, <2>8 DEF AuthorityInv
<1> QED
  BY <1>3, <1>4 DEF BeginRecover

\* The grant goes to the run of record.
LEMMA GrantAuthority ==
  ASSUME AuthorityInv, TypeOK', NEW q \in Requests, FinishRecover(q)
  PROVE  AuthorityInv'
<1>1. /\ Exists /\ waiting[q].run = record.run /\ mayExecute' = mayExecute \cup {record.run}
      /\ env' = env /\ record \in Records /\ waiting \in [Requests -> Waits]
      /\ waiting' = [waiting EXCEPT ![q] = Idle]
  BY RecordType DEF FinishRecover, Bound, Reply, AuthorityInv, TypeOK
<1>2. /\ Exists' /\ record'.run = record.run /\ record'.subject = record.subject
      /\ record'.trust = record.trust /\ record'.notBefore = record.notBefore
      /\ record'.reservation = record.reservation /\ record'.previous = record.previous
      /\ record.granted => record'.granted
      /\ record'.receipt = record.receipt
  <2>1. CASE UNCHANGED record
    BY <1>1, <2>1 DEF Exists
  <2>2. CASE record' = [record EXCEPT !.granted = TRUE]
    <3>1. record' \in Records
      BY <1>1, <2>2 DEF Records
    <3> QED
      BY <1>1, <2>2, <3>1, RecordExists DEF Records, Exists
  <2> QED
    BY <2>1, <2>2 DEF FinishRecover
<1>3. \A p \in Requests : waiting'[p] \in {waiting[p], Idle}
  BY <1>1
<1>4. WaitersBound'
  BY <1>1, <1>2, <1>3 DEF AuthorityInv, WaitersBound, Bound
<1>5. ReceiptsAuthorised'
  BY <1>2, <1>3 DEF AuthorityInv, ReceiptsAuthorised, Idle
<1>6. TakenOverByReservation' /\ ReceiptOfCurrentAuthority'
  BY <1>1, <1>2 DEF AuthorityInv, TakenOverByReservation, ReceiptOfCurrentAuthority
<1> QED
  BY <1>4, <1>5, <1>6 DEF AuthorityInv

\* A receipt is bound under the authority that it was accepted under.
LEMMA ReceiptAuthority ==
  ASSUME AuthorityInv, TypeOK', NEW q \in Requests, FinishReceipt(q)
  PROVE  AuthorityInv'
<1>1. /\ Exists /\ record \in Records /\ waiting \in [Requests -> Waits]
      /\ waiting' = [waiting EXCEPT ![q] = Idle] /\ UNCHANGED <<env, mayExecute>>
  BY RecordType DEF FinishReceipt, Bound, Reply, AuthorityInv, TypeOK
<1>2. /\ record'.run = record.run /\ record'.subject = record.subject
      /\ record'.trust = record.trust /\ record'.notBefore = record.notBefore
      /\ record'.reservation = record.reservation /\ record'.previous = record.previous
      /\ record'.granted = record.granted /\ record'.receipt = waiting[q].receipt
      /\ record'.status = "AWAITING_INDEPENDENT_VERIFICATION"
  BY <1>1 DEF FinishReceipt, Records
<1>3. Exists'
  BY <1>2 DEF Exists, NoRecord
<1>4. \A p \in Requests : waiting'[p] \in {waiting[p], Idle}
  BY <1>1
<1>5. WaitersBound'
  BY <1>1, <1>2, <1>3, <1>4 DEF AuthorityInv, WaitersBound, Bound
<1>6. ReceiptsAuthorised' /\ TakenOverByReservation'
  BY <1>1, <1>2, <1>4 DEF AuthorityInv, ReceiptsAuthorised, TakenOverByReservation, Idle
<1>7. /\ waiting[q].receipt.run = record.run /\ record.notBefore <= waiting[q].receipt.attempted
      /\ record.previous # <<>> => record.granted
  BY <1>1 DEF FinishReceipt, AuthorityInv, ReceiptsAuthorised, TakenOverByReservation
<1>8. ReceiptOfCurrentAuthority'
  BY <1>1, <1>2, <1>3, <1>7 DEF AuthorityInv, ReceiptOfCurrentAuthority
<1> QED
  BY <1>5, <1>6, <1>8 DEF AuthorityInv

\* A renewed handoff and a decision leave the authority alone.
LEMMA LaterAuthority ==
  ASSUME AuthorityInv, TypeOK',
         (\E q \in Requests : FinishRefresh(q)) \/ (\E g \in GithubRuns : Settle(g))
  PROVE  AuthorityInv'
<1>1. /\ Exists /\ record \in Records /\ UNCHANGED <<env, mayExecute>>
  BY RecordType DEF FinishRefresh, Settle, Bound, AuthorityInv
<1>2. \A p \in Requests : waiting'[p] \in {waiting[p], Idle}
  BY DEF FinishRefresh, Reply, Settle, AuthorityInv, TypeOK
<1> DEFINE Untouched ==
      /\ record'.run = record.run /\ record'.subject = record.subject
      /\ record'.trust = record.trust /\ record'.notBefore = record.notBefore
      /\ record'.reservation = record.reservation /\ record'.previous = record.previous
      /\ record'.granted = record.granted /\ record'.receipt = record.receipt
      /\ record'.status \in {record.status} \cup Outcomes
<1>3. Untouched
  <2>1. ASSUME NEW q \in Requests, FinishRefresh(q) PROVE Untouched
    BY <1>1, <2>1 DEF FinishRefresh, Records
  <2>2. ASSUME NEW g \in GithubRuns, Settle(g) PROVE Untouched
    BY <1>1, <2>2 DEF Settle, SignedDecisions, Records
  <2> QED
    BY <2>1, <2>2
<1>4. Exists'
  BY <1>1, <1>3 DEF Exists, NoRecord, Records, Statuses, Outcomes
<1> QED
  BY <1>1, <1>2, <1>3, <1>4, AuthorityUntouched

\* Every step keeps the invariant.
LEMMA AuthorityStep == AuthorityInv /\ [Next]_vars => AuthorityInv'
<1> SUFFICES ASSUME AuthorityInv, [Next]_vars PROVE AuthorityInv'
  OBVIOUS
<1>1. TypeOK' /\ waiting \in [Requests -> Waits]
  BY TypeStep DEF AuthorityInv, TypeOK
<1>2. ASSUME NEW g \in GithubRuns, NEW attempt \in 1 .. 2, Start(g, attempt) PROVE AuthorityInv'
  BY <1>1, <1>2, StartAuthority
<1>3. ASSUME NEW g \in GithubRuns, NEW q \in Requests, BeginRecover(q, g) PROVE AuthorityInv'
  BY <1>1, <1>3, RecoverAuthority
<1>4. ASSUME NEW g \in GithubRuns, NEW q \in Requests, BeginReceipt(q, g) PROVE AuthorityInv'
  <2>1. PICK r \in UNION {Signed(h) : h \in GithubRuns} :
          /\ Acceptable(g, r)
          /\ waiting' = [waiting EXCEPT ![q] =
               [kind |-> "receipt", run |-> g, receipt |-> r,
                handoff |-> Handoff(clock, HandoffLife)]]
    BY <1>4 DEF BeginReceipt, Wait
  <2>2. /\ waiting'[q].run = g /\ waiting'[q].receipt = r
        /\ \A p \in Requests \ {q} : waiting'[p] = waiting[p]
    BY <1>1, <2>1
  <2>3. Bound(g) /\ UNCHANGED <<env, record, mayExecute>>
    BY <1>4 DEF BeginReceipt
  <2>4. \A p \in Requests : waiting'[p] # waiting[p] =>
          /\ waiting'[p].receipt.run = record.run
          /\ record.notBefore <= waiting'[p].receipt.attempted
          /\ record.reservation # None => record.granted
    BY <2>1, <2>2, <2>3 DEF Acceptable, Bound
  <2> QED
    BY <1>1, <2>2, <2>3, <2>4, AuthorityKept
<1>5. ASSUME NEW g \in GithubRuns, NEW q \in Requests, BeginRefresh(q, g) PROVE AuthorityInv'
  <2>1. waiting' = [waiting EXCEPT ![q] =
               [kind |-> "refresh", run |-> g, handoff |-> Handoff(clock, Life),
                expired |-> Current]]
    BY <1>5 DEF BeginRefresh, Wait
  <2>2. /\ waiting'[q].run = g /\ waiting'[q].kind = "refresh"
        /\ \A p \in Requests \ {q} : waiting'[p] = waiting[p]
    BY <1>1, <2>1
  <2>3. Bound(g) /\ UNCHANGED <<env, record, mayExecute>>
    BY <1>5 DEF BeginRefresh
  <2> QED
    BY <1>1, <2>2, <2>3, AuthorityKept
<1>6. ASSUME NEW q \in Requests, FinishRecover(q) \/ FinishReceipt(q) PROVE AuthorityInv'
  BY <1>1, <1>6, GrantAuthority, ReceiptAuthority
<1>7. ASSUME (\E q \in Requests : FinishRefresh(q)) \/ (\E g \in GithubRuns : Settle(g))
      PROVE  AuthorityInv'
  BY <1>1, <1>7, LaterAuthority
<1>8. ASSUME NEW q \in Requests, Drop(q) PROVE AuthorityInv'
  <2>1. \A p \in Requests : waiting'[p] \in {waiting[p], Idle}
    BY <1>1, <1>8 DEF Drop, Reply
  <2>2. UNCHANGED <<env, record, mayExecute>> /\ Idle.kind # "receipt"
    BY <1>8 DEF Drop, Idle
  <2> QED
    BY <1>1, <2>1, <2>2, AuthorityKept
<1>9. ASSUME NEW d \in Deployments, Deploy(d) PROVE AuthorityInv'
  <2>1. \A p \in Requests : waiting'[p] = Idle
    BY <1>9 DEF Deploy
  <2>2. UNCHANGED <<record, mayExecute>>
    BY <1>9 DEF Deploy
  <2>3. WaitersBound' /\ ReceiptsAuthorised'
    BY <2>1 DEF WaitersBound, ReceiptsAuthorised, Idle
  <2>4. TakenOverByReservation' /\ ReceiptOfCurrentAuthority'
    BY <2>2 DEF AuthorityInv, TakenOverByReservation, ReceiptOfCurrentAuthority, Exists
  <2> QED
    BY <1>1, <2>3, <2>4 DEF AuthorityInv
<1>10. CASE (\E g \in GithubRuns : Execute(g)) \/ Tick \/ UNCHANGED vars
  <2>1. UNCHANGED <<env, record, waiting, mayExecute>>
    BY <1>10 DEF Execute, Tick, vars
  <2> QED
    BY <1>1, <2>1, AuthorityKept
<1> QED
  BY <1>2, <1>3, <1>4, <1>5, <1>6, <1>7, <1>8, <1>9, <1>10 DEF Next

\* The receipt that counts is of the run of record, begun no earlier than its
\* authority was committed, and of a run that took over it does not count before the
\* grant; whoever was told to execute stays on record.
THEOREM CurrentAuthorityOnly == Spec => []ReceiptOfCurrentAuthority
<1>1. AuthorityInv => ReceiptOfCurrentAuthority
  BY DEF AuthorityInv
<1> QED
  BY <1>1, AuthorityInit, AuthorityStep, PTL DEF Spec

-----------------------------------------------------------------------------
(* Handoffs follow one another. *)

\* A handoff is not issued after it expires.
InOrder(h) == h.issued <= h.expires

\* A handoff that waits for its signature renews one that had expired.
WaitersInOrder ==
  \A q \in Requests :
    /\ waiting[q].kind = "receipt" => InOrder(waiting[q].handoff)
    /\ waiting[q].kind = "refresh" =>
         InOrder(waiting[q].handoff) /\ waiting[q].expired.expires <= waiting[q].handoff.issued

HandoffInv ==
  /\ TypeOK /\ WaitersInOrder /\ OneLiveHandoff
  /\ Exists => \A n \in DOMAIN record.handoffs : InOrder(record.handoffs[n])

\* There are no handoffs at first.
LEMMA HandoffInit == Init => HandoffInv
<1> SUFFICES ASSUME Init PROVE HandoffInv
  OBVIOUS
<1>1. TypeOK /\ ~Exists
  BY InitType DEF Init, Exists
<1>2. \A q \in Requests : waiting[q] = Idle
  BY DEF Init
<1> QED
  BY <1>1, <1>2 DEF HandoffInv, WaitersInOrder, OneLiveHandoff, Idle

\* What leaves the handoffs as they are keeps their order.
LEMMA HandoffKept ==
  ASSUME HandoffInv, TypeOK', WaitersInOrder',
         Exists' => record'.handoffs = <<>> \/ (Exists /\ record'.handoffs = record.handoffs)
  PROVE  HandoffInv'
BY DEF HandoffInv, OneLiveHandoff

\* Renewing an expired handoff keeps the order.
LEMMA RenewalInOrder ==
  ASSUME NEW s \in Seq(Handoffs), NEW h \in Handoffs, s # <<>>,
         \A m, n \in DOMAIN s : m < n => s[m].expires <= s[n].issued,
         \A n \in DOMAIN s : InOrder(s[n]), InOrder(h), s[Len(s)].expires <= h.issued
  PROVE  LET t == Append(s, h)
         IN  /\ \A m, n \in DOMAIN t : m < n => t[m].expires <= t[n].issued
             /\ \A n \in DOMAIN t : InOrder(t[n])
<1> DEFINE t == Append(s, h)
<1>1. /\ Len(s) \in Nat \ {0} /\ DOMAIN s = 1 .. Len(s) /\ DOMAIN t = 1 .. Len(s) + 1
      /\ \A n \in DOMAIN s : t[n] = s[n] /\ s[n] \in Handoffs
      /\ t[Len(s) + 1] = h
  OBVIOUS
<1>2. \A x \in Handoffs : x.issued \in Int /\ x.expires \in Int
  BY TimesAssumption DEF Handoffs, Times
<1>3. \A n \in DOMAIN s : s[n].expires <= h.issued
  <2>1. SUFFICES ASSUME NEW n \in DOMAIN s PROVE s[n].expires <= h.issued
    OBVIOUS
  <2>2. CASE n = Len(s)
    BY <2>2
  <2>3. CASE n # Len(s)
    <3>1. s[n].expires <= s[Len(s)].issued /\ s[Len(s)].issued <= s[Len(s)].expires
      BY <1>1, <2>3 DEF InOrder
    <3> QED
      BY <1>1, <1>2, <3>1
  <2> QED
    BY <2>2, <2>3
<1> HIDE DEF t
<1>4. \A m, n \in DOMAIN t : m < n => t[m].expires <= t[n].issued
  <2>1. SUFFICES ASSUME NEW m \in DOMAIN t, NEW n \in DOMAIN t, m < n
                 PROVE  t[m].expires <= t[n].issued
    OBVIOUS
  <2>2. m \in DOMAIN s
    BY <1>1, <2>1
  <2>3. CASE n = Len(s) + 1
    BY <1>1, <1>3, <2>2, <2>3
  <2>4. CASE n # Len(s) + 1
    <3>1. n \in DOMAIN s
      BY <1>1, <2>4
    <3> QED
      BY <1>1, <2>1, <2>2, <3>1
  <2> QED
    BY <2>3, <2>4
<1>5. \A n \in DOMAIN t : InOrder(t[n])
  BY <1>1
<1> QED
  BY <1>4, <1>5 DEF t

\* Every step keeps the handoffs in order.
LEMMA HandoffStep == HandoffInv /\ [Next]_vars => HandoffInv'
<1> SUFFICES ASSUME HandoffInv, [Next]_vars PROVE HandoffInv'
  OBVIOUS
<1>1. /\ TypeOK /\ TypeOK' /\ waiting \in [Requests -> Waits] /\ clock \in Times
      /\ Exists => record \in Records
  BY TypeStep, RecordType DEF HandoffInv, TypeOK
<1>2. ASSUME \A q \in Requests : waiting'[q] \in {waiting[q], Idle} \/ waiting'[q].kind = "recover"
      PROVE  WaitersInOrder'
  BY <1>2 DEF HandoffInv, WaitersInOrder, Idle
<1>3. ASSUME NEW g \in GithubRuns, NEW attempt \in 1 .. 2, Start(g, attempt) PROVE HandoffInv'
  <2>1. Exists' => record'.handoffs = <<>> \/ (Exists /\ record'.handoffs = record.handoffs)
    BY <1>3 DEF Start, Authorised, Exists
  <2>2. WaitersInOrder'
    BY <1>2, <1>3 DEF Start
  <2> QED
    BY <1>1, <2>1, <2>2, HandoffKept
<1>4. ASSUME NEW g \in GithubRuns, NEW q \in Requests, BeginRecover(q, g) PROVE HandoffInv'
  <2>1. Exists /\ record'.handoffs = record.handoffs
    BY <1>1, <1>4 DEF BeginRecover, Resumed, Records
  <2>2. WaitersInOrder'
    BY <1>1, <1>2, <1>4 DEF BeginRecover, Wait
  <2> QED
    BY <1>1, <2>1, <2>2, HandoffKept
<1>5. ASSUME NEW q \in Requests, FinishRecover(q) PROVE HandoffInv'
  <2>1. Exists /\ record'.handoffs = record.handoffs
    BY <1>1, <1>5 DEF FinishRecover, Bound, Records
  <2>2. WaitersInOrder'
    BY <1>1, <1>2, <1>5 DEF FinishRecover, Reply
  <2> QED
    BY <1>1, <2>1, <2>2, HandoffKept
<1>6. ASSUME NEW g \in GithubRuns, NEW q \in Requests, BeginReceipt(q, g) PROVE HandoffInv'
  <2>1. PICK r \in UNION {Signed(h) : h \in GithubRuns} :
          waiting' = [waiting EXCEPT ![q] =
               [kind |-> "receipt", run |-> g, receipt |-> r,
                handoff |-> Handoff(clock, HandoffLife)]]
    BY <1>6 DEF BeginReceipt, Wait
  <2>2. InOrder(Handoff(clock, HandoffLife))
    BY <1>1, TimesAssumption DEF InOrder, Handoff, Times
  <2>3. WaitersInOrder'
    BY <1>1, <2>1, <2>2 DEF HandoffInv, WaitersInOrder
  <2> QED
    BY <1>1, <1>6, <2>3, HandoffKept DEF BeginReceipt, Exists
<1>7. ASSUME NEW g \in GithubRuns, NEW q \in Requests, BeginRefresh(q, g) PROVE HandoffInv'
  <2>1. waiting' = [waiting EXCEPT ![q] =
               [kind |-> "refresh", run |-> g, handoff |-> Handoff(clock, Life),
                expired |-> Current]]
    BY <1>7 DEF BeginRefresh, Wait
  <2>2. Current \in Handoffs /\ record.receipt \in Receipts
    BY <1>1, <1>7, AwaitingType DEF BeginRefresh
  <2>3. Life \in Int /\ Life >= 1
    BY <1>1, <1>7, <2>2, TimesAssumption DEF BeginRefresh, Life, Receipts, Times
  <2>4. InOrder(Handoff(clock, Life)) /\ Current.expires <= Handoff(clock, Life).issued
    BY <1>1, <1>7, <2>2, <2>3, TimesAssumption
       DEF InOrder, Handoff, Handoffs, Times, BeginRefresh, LiveHandoff
  <2>5. WaitersInOrder'
    BY <1>1, <2>1, <2>4 DEF HandoffInv, WaitersInOrder
  <2> QED
    BY <1>1, <1>7, <2>5, HandoffKept DEF BeginRefresh, Exists
<1>8. ASSUME NEW q \in Requests, FinishReceipt(q) PROVE HandoffInv'
  <2>1. InOrder(waiting[q].handoff)
    BY <1>8 DEF FinishReceipt, HandoffInv, WaitersInOrder
  <2>2. record'.handoffs = <<waiting[q].handoff>>
    BY <1>1, <1>8 DEF FinishReceipt, Bound, Records
  <2>3. WaitersInOrder'
    BY <1>1, <1>2, <1>8 DEF FinishReceipt, Reply
  <2> QED
    BY <1>1, <2>1, <2>2, <2>3 DEF HandoffInv, OneLiveHandoff
<1>9. ASSUME NEW q \in Requests, FinishRefresh(q) PROVE HandoffInv'
  <2>1. /\ record.handoffs \in Seq(Handoffs) /\ record.handoffs # <<>>
        /\ record \in Records /\ Exists
    BY <1>1, <1>9, AwaitingType DEF FinishRefresh, NotRenewed, Awaits
  <2>2. waiting[q].handoff \in Handoffs
    BY <1>1, <1>9 DEF FinishRefresh, Waits, Idle
  <2>3. InOrder(waiting[q].handoff) /\ Current.expires <= waiting[q].handoff.issued
    BY <1>9 DEF FinishRefresh, NotRenewed, HandoffInv, WaitersInOrder
  <2>4. record'.handoffs = Append(record.handoffs, waiting[q].handoff)
    BY <1>9, <2>1 DEF FinishRefresh, Records
  <2>5. /\ \A m, n \in DOMAIN record.handoffs :
             m < n => record.handoffs[m].expires <= record.handoffs[n].issued
        /\ \A n \in DOMAIN record.handoffs : InOrder(record.handoffs[n])
    BY <2>1 DEF HandoffInv, OneLiveHandoff
  <2>6. /\ \A m, n \in DOMAIN record'.handoffs :
             m < n => record'.handoffs[m].expires <= record'.handoffs[n].issued
        /\ \A n \in DOMAIN record'.handoffs : InOrder(record'.handoffs[n])
    BY <2>1, <2>2, <2>3, <2>4, <2>5, RenewalInOrder DEF Current
  <2>7. WaitersInOrder'
    BY <1>1, <1>2, <1>9 DEF FinishRefresh, Reply
  <2> QED
    BY <1>1, <2>6, <2>7 DEF HandoffInv, OneLiveHandoff
<1>10. ASSUME NEW g \in GithubRuns, Settle(g) PROVE HandoffInv'
  <2>1. Exists /\ record'.handoffs = record.handoffs
    BY <1>1, <1>10 DEF Settle, Bound, Records
  <2>2. WaitersInOrder'
    BY <1>2, <1>10 DEF Settle
  <2> QED
    BY <1>1, <2>1, <2>2, HandoffKept
<1>11. ASSUME \/ \E q \in Requests : Drop(q)
              \/ \E d \in Deployments : Deploy(d)
              \/ \E g \in GithubRuns : Execute(g)
              \/ Tick \/ UNCHANGED vars
       PROVE  HandoffInv'
  <2>1. UNCHANGED record /\ \A q \in Requests : waiting'[q] \in {waiting[q], Idle}
    BY <1>1, <1>11 DEF Drop, Reply, Deploy, Execute, Tick, vars
  <2>2. WaitersInOrder'
    BY <1>2, <2>1
  <2> QED
    BY <1>1, <2>1, <2>2, HandoffKept DEF Exists
<1> QED
  BY <1>3, <1>4, <1>5, <1>6, <1>7, <1>8, <1>9, <1>10, <1>11 DEF Next

\* However many requests renew a handoff, and however late the signature comes:
\* only the last one issued can be live.
THEOREM LastHandoffOnly == Spec => []OneLiveHandoff
<1>1. HandoffInv => OneLiveHandoff
  BY DEF HandoffInv
<1> QED
  BY <1>1, HandoffInit, HandoffStep, PTL DEF Spec

-----------------------------------------------------------------------------
(* The judgement that the controller implements. *)

\* What the judgement sees of a record: its receipt, the handoff that was answered
\* and the answer.
SeenEvidence == [w \in {"release"} |-> IF Exists THEN record.receipt ELSE None]
SeenAnswered ==
  [w \in {"release"} |-> IF Exists /\ record.decision # None THEN {Current} ELSE {}]
SeenVerdict ==
  [w \in {"release"} |->
    IF Exists /\ record.decision # None
    THEN [on |-> record.decision.receipt, is |-> record.decision.outcome] ELSE None]

\* Nothing is judged at first.
LEMMA JudgementInit == Init => J!JInit
BY DEF Init, J!JInit, Exists

\* A step that changes none of it is a stutter.
LEMMA JudgementStutters ==
  ASSUME UNCHANGED <<SeenEvidence, SeenAnswered, SeenVerdict>>
  PROVE  UNCHANGED J!jvars
BY DEF J!jvars, SeenEvidence, SeenAnswered, SeenVerdict

\* As long as there is no decision, only the receipt is seen.
LEMMA Undecided ==
  ASSUME ~Exists \/ record.decision = None, ~Exists' \/ record'.decision = None
  PROVE  /\ UNCHANGED <<SeenAnswered, SeenVerdict>>
         /\ SeenAnswered = [w \in {"release"} |-> {}] /\ SeenVerdict = [w \in {"release"} |-> None]
BY DEF SeenAnswered, SeenVerdict

\* Every step is a step of the judgement, or a stutter.
LEMMA JudgementStep == TypeOK /\ TypeOK' /\ [Next]_vars => [J!JNext]_(J!jvars)
<1> SUFFICES ASSUME TypeOK, TypeOK', [Next]_vars PROVE J!JNext \/ UNCHANGED J!jvars
  OBVIOUS
<1>1. CASE ~Exists
  <2>1. \/ UNCHANGED record
        \/ record'.receipt = None /\ record'.decision = None
    <3>1. ASSUME NEW g \in GithubRuns, NEW attempt \in 1 .. 2, Start(g, attempt)
          PROVE  record'.receipt = None /\ record'.decision = None
      BY <1>1, <3>1 DEF Start, Authorised
    <3>2. \A g \in GithubRuns, q \in Requests : ~BeginRecover(q, g)
      BY <1>1 DEF BeginRecover
    <3>3. ASSUME NEW g \in GithubRuns, NEW q \in Requests, BeginReceipt(q, g) \/ BeginRefresh(q, g)
          PROVE  UNCHANGED record
      BY <3>3 DEF BeginReceipt, BeginRefresh
    <3>4. ASSUME NEW q \in Requests, FinishRecover(q) \/ FinishReceipt(q) \/ FinishRefresh(q)
          PROVE  FALSE
      BY <1>1, <3>4 DEF FinishRecover, FinishReceipt, FinishRefresh, Bound
    <3>5. ASSUME NEW g \in GithubRuns, Settle(g) \/ Execute(g) PROVE UNCHANGED record
      BY <1>1, <3>5 DEF Settle, Bound, Execute
    <3>6. ASSUME (\E q \in Requests : Drop(q)) \/ (\E d \in Deployments : Deploy(d))
                 \/ Tick \/ UNCHANGED vars
          PROVE  UNCHANGED record
      BY <3>6 DEF Drop, Deploy, Tick, vars
    <3> QED
      BY <3>1, <3>2, <3>3, <3>4, <3>5, <3>6 DEF Next
  <2>2. UNCHANGED SeenEvidence
    BY <1>1, <2>1 DEF SeenEvidence, Exists
  <2>3. UNCHANGED <<SeenAnswered, SeenVerdict>>
    <3>1. ~Exists' \/ record'.decision = None
      BY <1>1, <2>1 DEF Exists
    <3> QED
      BY <1>1, <3>1, Undecided
  <2> QED
    BY <2>2, <2>3, JudgementStutters
<1>2. CASE Exists /\ UNCHANGED record
  <2>1. UNCHANGED <<SeenEvidence, SeenAnswered, SeenVerdict>>
    BY <1>2 DEF SeenEvidence, SeenAnswered, SeenVerdict, Exists, Current
  <2> QED
    BY <2>1, JudgementStutters
<1>3. CASE Exists /\ record' # record
  <2>1. /\ record \in Records /\ RecordStep /\ Exists'
        /\ (record.status = "AUTHORISED") = (record.receipt = None)
        /\ (record.status \in Outcomes) = (record.decision # None)
        /\ record.decision = None
    BY <1>3, RecordType, RecordSteps, HistoryStep DEF Kept, Exists
  <2>2. ASSUME record'.receipt = record.receipt, record'.decision = None
        PROVE  UNCHANGED J!jvars
    <3>1. UNCHANGED SeenEvidence
      BY <1>3, <2>1, <2>2 DEF SeenEvidence
    <3>2. UNCHANGED <<SeenAnswered, SeenVerdict>>
      BY <2>1, <2>2, Undecided
    <3> QED
      BY <3>1, <3>2, JudgementStutters
  <2>3. ASSUME NEW g \in GithubRuns, NEW s \in Reservations, record' = Resumed(g, s)
        PROVE  UNCHANGED J!jvars
    BY <2>1, <2>2, <2>3 DEF Resumed, Records
  <2>4. CASE record' = [record EXCEPT !.granted = TRUE]
    BY <2>1, <2>2, <2>4 DEF Records
  <2>5. ASSUME NEW h \in Handoffs,
               record' = [record EXCEPT !.handoffs = Append(record.handoffs, h),
                                        !.audit = Event(record, "refresh_verification_handoff")]
        PROVE  UNCHANGED J!jvars
    BY <2>1, <2>2, <2>5 DEF Records
  <2>6. ASSUME StillAuthorised, NEW r \in Receipts, NEW h \in Handoffs,
               record' = [record EXCEPT !.receipt = r, !.handoffs = <<h>>,
                                        !.status = "AWAITING_INDEPENDENT_VERIFICATION",
                                        !.audit = Event(record, "accept_receipt_and_issue_handoff")]
        PROVE  J!JNext
    <3>1. record'.receipt = r /\ record'.decision = None
      BY <2>1, <2>6 DEF Records
    <3>2. /\ SeenEvidence = [w \in {"release"} |-> None]
          /\ SeenEvidence' = [w \in {"release"} |-> r]
      BY <1>3, <2>1, <2>6, <3>1 DEF SeenEvidence, StillAuthorised
    <3>3. UNCHANGED <<SeenAnswered, SeenVerdict>>
      BY <2>1, <3>1, Undecided
    <3>4. r # None
      BY NoneIsNothing
    <3>5. SeenEvidence' # SeenEvidence
      BY <3>2, <3>4
    <3>6. J!Present("release")
      BY <3>2, <3>3, <3>5 DEF J!Present, SeenEvidence, SeenAnswered, SeenVerdict
    <3> QED
      BY <3>6 DEF J!JNext
  <2>7. ASSUME Awaits, NEW d \in Decisions, d.receipt = record.receipt,
               record' = [record EXCEPT !.decision = d, !.status = d.outcome,
                                        !.audit = Event(record, "accept_independent_outcome")]
        PROVE  J!JNext
    <3>1. /\ record'.receipt = record.receipt /\ record'.decision = d
          /\ record'.handoffs = record.handoffs /\ d # None /\ d.outcome \in Outcomes
      BY <2>1, <2>7, NoneAssumption DEF Records, Decisions
    <3>2. Current \in Handoffs /\ Current' = Current /\ record.receipt # None
      BY <2>7, <3>1, AwaitingType, NoneIsNothing DEF Current
    <3>3. /\ SeenEvidence = [w \in {"release"} |-> record.receipt] /\ UNCHANGED SeenEvidence
          /\ SeenAnswered = [w \in {"release"} |-> {}]
          /\ SeenAnswered' = [w \in {"release"} |-> {Current}]
          /\ SeenVerdict = [w \in {"release"} |-> None]
          /\ SeenVerdict' = [w \in {"release"} |-> [on |-> record.receipt, is |-> d.outcome]]
      BY <1>3, <2>1, <2>7, <3>1, <3>2 DEF SeenEvidence, SeenAnswered, SeenVerdict
    <3>4. J!Answer("release")
      <4>1. SeenAnswered' # SeenAnswered
        BY <3>3
      <4>2. /\ Current \in Handoffs \ SeenAnswered["release"]
            /\ SeenAnswered' = [SeenAnswered EXCEPT !["release"] = @ \cup {Current}]
        BY <3>2, <3>3
      <4>3. SeenVerdict' = [SeenVerdict EXCEPT !["release"] =
                              [on |-> SeenEvidence["release"], is |-> d.outcome]]
        BY <3>3
      <4>4. SeenEvidence["release"] # None /\ SeenVerdict["release"] = None
        BY <3>2, <3>3
      <4> QED
        BY <3>1, <3>3, <4>1, <4>2, <4>3, <4>4 DEF J!Answer, SeenEvidence, SeenAnswered, SeenVerdict
    <3> QED
      BY <3>4 DEF J!JNext
  <2> QED
    BY <1>3, <2>1, <2>3, <2>4, <2>5, <2>6, <2>7 DEF RecordStep
<1> QED
  BY <1>1, <1>2, <1>3

\* A release is judged once, on the receipt that was bound first: the controller
\* implements the judgement.
THEOREM ImplementsTheJudgement == Spec => ImplementsJudgement
BY TypeCorrect, JudgementInit, JudgementStep, PTL DEF Spec, ImplementsJudgement, J!JSpec

=============================================================================
