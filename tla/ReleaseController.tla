------------------------- MODULE ReleaseController -------------------------
(***************************************************************************)
(* The release controller (services/release-controller/src): one durable   *)
(* object per release, which authorises one GitHub run to carry it out,    *)
(* lets a later run take over before anything was executed, binds the      *)
(* signed receipt of the execution, hands it to an independent verifier    *)
(* and keeps the signed outcome.                                           *)
(*                                                                         *)
(* Every request acts in transactions of the object's storage and may wait *)
(* between them, for the handoff key to sign; others come in then, the     *)
(* worker may be deployed anew, and time passes.  A request uses the time  *)
(* at which it began to the end.                                           *)
(***************************************************************************)
EXTENDS Integers, Sequences

CONSTANTS
  GithubRuns,
  Workflows,
  WorkflowOf,      \* the commit of the workflow that each GitHub run runs
  Subjects,        \* targets that share a release id
  Pins,            \* the five trust fingerprints, together
  Deployments,     \* the configurations that the worker is deployed with
  Requests,        \* bound of the model: requests that wait at once
  MaxTime,         \* bound of the model
  HandoffLife,     \* 300000 ms in createReleaseV1Handoff
  ReceiptWindow,   \* 1200000 ms in receipt, refresh and settle
  DecisionWindow,  \* 15 minutes in classifyReleaseV1Outcome
  ReservationLife, \* 300000 ms in verifyReservation
  None

Times == 0 .. MaxTime
Trusts == [pins : Pins, workflow : Workflows]
Configurations ==
  [subject : Subjects, trust : Trusts,
   from : GithubRuns \cup {None}, fromWorkflow : Workflows \cup {None}]

ASSUME WorkflowsAssumption == WorkflowOf \in [GithubRuns -> Workflows]
ASSUME DeploymentsAssumption == Deployments \subseteq Configurations /\ Deployments # {}
ASSUME TimesAssumption ==
  /\ MaxTime \in Nat
  /\ {HandoffLife, ReceiptWindow, DecisionWindow, ReservationLife} \subseteq Nat \ {0}
VARIABLES
  env,        \* the configuration deployed
  record,     \* the record under the key "run"
  waiting,    \* the requests that wait for a signature
  executed,   \* per GitHub run: when AgentProof carried the release out for it
  mayExecute, \* the GitHub runs that were told to
  clock

vars == <<env, record, waiting, executed, mayExecute, clock>>

Outcomes == {"VERIFIED", "CONTRADICTED", "UNPROVEN"}
Statuses == {"AUTHORISED", "AWAITING_INDEPENDENT_VERIFICATION"} \cup Outcomes
Receipts == [run : GithubRuns, attempted : Times, verified : Times, issued : Times]
Handoffs == [issued : Times, expires : 0 .. MaxTime + HandoffLife]
Reservations ==
  [run : GithubRuns, from : GithubRuns, issued : Times, expires : 0 .. MaxTime + ReservationLife]
Decisions == [receipt : Receipts, outcome : Outcomes, observed : Times]
AuditActions ==
  {"authorise_exact_release", "resume_unexecuted_authorisation",
   "accept_receipt_and_issue_handoff", "refresh_verification_handoff",
   "accept_independent_outcome"}

ASSUME NoneAssumption ==
  None \notin GithubRuns \cup Workflows \cup Receipts \cup Decisions \cup Reservations

NoRecord == [status |-> "NONE"]
Exists == record # NoRecord

\* event(): what is recorded is linked to what was.
Event(r, action) == Append(r.audit, action)

-----------------------------------------------------------------------------
(* What others may have signed by now. *)

\* AgentProof: the receipts of one run's execution, which it verifies afterwards.
Signed(g) ==
  IF executed[g] = None THEN {}
  ELSE UNION {[run : {g}, attempted : {executed[g]}, verified : executed[g] .. issued,
               issued : {issued}] : issued \in executed[g] .. clock}
\* The independent verifier, about any of them.
SignedDecisions ==
  [receipt : UNION {Signed(g) : g \in GithubRuns}, outcome : Outcomes, observed : 0 .. clock]
\* The reservation authority.
SignedReservations(g) ==
  [run : {g}, from : GithubRuns, issued : 0 .. clock, expires : 1 .. clock + ReservationLife]

-----------------------------------------------------------------------------
(* authenticate() and bound().                                               *)

Admitted(g) == WorkflowOf[g] = env.trust.workflow

Bound(g) ==
  /\ Exists /\ record.run = g
  /\ record.subject = env.subject /\ record.trust = env.trust

Idle == [kind |-> "none"]
Wait(q, request) == waiting[q] = Idle /\ waiting' = [waiting EXCEPT ![q] = request]
Reply(q) == waiting' = [waiting EXCEPT ![q] = Idle]

-----------------------------------------------------------------------------
(* start(). *)

Authorised(g) ==
  [run |-> g, subject |-> env.subject, trust |-> env.trust, status |-> "AUTHORISED",
   notBefore |-> clock, receipt |-> None, handoffs |-> <<>>, decision |-> None,
   reservation |-> None, granted |-> FALSE, previous |-> <<>>,
   audit |-> <<"authorise_exact_release">>]

\* A rerun may ask, but not be the first.
Start(g, attempt) ==
  /\ Admitted(g)
  /\ IF Exists THEN Bound(g) /\ UNCHANGED record
     ELSE attempt = 1 /\ record' = Authorised(g)
  /\ mayExecute' = IF record'.reservation = None THEN mayExecute \cup {g} ELSE mayExecute
  /\ UNCHANGED <<env, waiting, executed, clock>>

-----------------------------------------------------------------------------
(* recover().                                                                *)

\* verifyReservation().
Reserved(s, g) ==
  /\ s.run = g /\ s.from = record.run
  /\ s.issued <= clock /\ clock < s.expires /\ s.expires - s.issued <= ReservationLife

\* The configuration names the run that is replaced, which has come to nothing.
Recoverable(g) ==
  /\ env.from = record.run /\ env.fromWorkflow # env.trust.workflow
  /\ record.status = "AUTHORISED" /\ record.receipt = None
  /\ record.subject = env.subject /\ record.trust.pins = env.trust.pins
  /\ record.trust.workflow = env.fromWorkflow

\* The whole earlier record goes to authorisationHistory; its run stands for it.
Resumed(g, s) ==
  [record EXCEPT !.run = g, !.trust = env.trust, !.notBefore = clock,
                 !.reservation = s, !.granted = FALSE,
                 !.previous = Append(record.previous, record.run),
                 !.audit = Event(record, "resume_unexecuted_authorisation")]

\* The first transaction commits the recovery; only then is the grant signed.
BeginRecover(q, g) ==
  /\ Admitted(g) /\ Exists
  /\ \/ /\ Bound(g) /\ record.reservation # None /\ ~record.granted
        /\ UNCHANGED record
     \/ /\ record.run # g /\ Recoverable(g)
        /\ \E s \in SignedReservations(g) : Reserved(s, g) /\ record' = Resumed(g, s)
  /\ Wait(q, [kind |-> "recover", run |-> g, reservation |-> record'.reservation])
  /\ UNCHANGED <<env, executed, mayExecute, clock>>

FinishRecover(q) ==
  LET w == waiting[q]
  IN /\ w.kind = "recover" /\ Reply(q)
     /\ Bound(w.run) /\ record.reservation = w.reservation
     /\ \/ record.granted /\ UNCHANGED record
        \/ /\ ~record.granted /\ record.status = "AUTHORISED" /\ record.receipt = None
           /\ record' = [record EXCEPT !.granted = TRUE]
     /\ mayExecute' = mayExecute \cup {w.run}
     /\ UNCHANGED <<env, executed, clock>>

-----------------------------------------------------------------------------
(* receipt().                                                                *)

\* Mutant: a receipt is taken before the grant is signed.
MutantAcceptable(g, r) ==
  /\ record.status = "AUTHORISED" /\ record.receipt = None
  /\ r.run = g /\ record.notBefore <= r.attempted
  /\ clock - r.issued <= ReceiptWindow

\* classifyReleaseV1Outcome() finds the receipt in order, and the run, the
\* grant, the execution and its age are.
Acceptable(g, r) ==
  /\ record.status = "AUTHORISED" /\ record.receipt = None
  /\ record.reservation # None => record.granted
  /\ r.run = g /\ record.notBefore <= r.attempted
  /\ clock - r.issued <= ReceiptWindow

Handoff(now, life) == [issued |-> now, expires |-> now + life]

BeginReceipt(q, g) ==
  /\ Admitted(g) /\ Bound(g)
  /\ \E r \in UNION {Signed(h) : h \in GithubRuns} :
       /\ Acceptable(g, r)
       /\ Wait(q, [kind |-> "receipt", run |-> g, receipt |-> r,
                   handoff |-> Handoff(clock, HandoffLife)])
  /\ UNCHANGED <<env, record, executed, mayExecute, clock>>

\* Mutant: what another request has bound meanwhile is not looked at.
MutantStillAuthorised == Exists

\* Nothing was bound while the handoff was signed.
StillAuthorised == record.receipt = None /\ record.status = "AUTHORISED"

FinishReceipt(q) ==
  LET w == waiting[q]
  IN /\ w.kind = "receipt" /\ Reply(q)
     /\ Bound(w.run) /\ StillAuthorised
     /\ record' = [record EXCEPT !.receipt = w.receipt, !.handoffs = <<w.handoff>>,
                                 !.status = "AWAITING_INDEPENDENT_VERIFICATION",
                                 !.audit = Event(record, "accept_receipt_and_issue_handoff")]
     /\ UNCHANGED <<env, executed, mayExecute, clock>>

-----------------------------------------------------------------------------
(* refresh(). *)

Awaits == Exists /\ record.status = "AWAITING_INDEPENDENT_VERIFICATION"
Fresh == clock - record.receipt.issued <= ReceiptWindow
Current == record.handoffs[Len(record.handoffs)]
LiveHandoff == clock < Current.expires

\* Never beyond the age at which the receipt is too old.
Life ==
  LET left == record.receipt.issued + ReceiptWindow - clock
  IN IF left < HandoffLife THEN left ELSE HandoffLife

BeginRefresh(q, g) ==
  /\ Admitted(g) /\ Bound(g) /\ Awaits /\ Fresh /\ ~LiveHandoff /\ Life >= 1
  /\ Wait(q, [kind |-> "refresh", run |-> g, handoff |-> Handoff(clock, Life),
              expired |-> Current])
  /\ UNCHANGED <<env, record, executed, mayExecute, clock>>

\* Mutant: a handoff that another request has renewed is renewed again.
MutantNotRenewed(expired) == Awaits

NotRenewed(expired) == Awaits /\ Current = expired

FinishRefresh(q) ==
  LET w == waiting[q]
  IN /\ w.kind = "refresh" /\ Reply(q)
     /\ Bound(w.run) /\ NotRenewed(w.expired)
     /\ record' = [record EXCEPT !.handoffs = Append(record.handoffs, w.handoff),
                                 !.audit = Event(record, "refresh_verification_handoff")]
     /\ UNCHANGED <<env, executed, mayExecute, clock>>

-----------------------------------------------------------------------------
(* settle(): reads, checks and writes without a wait.                        *)

\* Mutant: the decision may be about another receipt.
MutantSettles(d) ==
  /\ record.receipt.verified <= d.observed /\ clock - d.observed <= DecisionWindow

\* classifyReleaseV1Outcome(): signed about this receipt, of late, and not before
\* what it says was verified.
Settles(d) ==
  /\ d.receipt = record.receipt
  /\ record.receipt.verified <= d.observed /\ clock - d.observed <= DecisionWindow

Pending == Awaits /\ record.decision = None

Settle(g) ==
  /\ Admitted(g) /\ Bound(g) /\ Pending /\ Fresh /\ LiveHandoff
  /\ \E d \in SignedDecisions :
       /\ Settles(d)
       /\ record' = [record EXCEPT !.decision = d, !.status = d.outcome,
                                   !.audit = Event(record, "accept_independent_outcome")]
  /\ UNCHANGED <<env, waiting, executed, mayExecute, clock>>

-----------------------------------------------------------------------------
(* A request is refused, its worker dies, the signing key fails; a new        *)
(* deployment takes every request with it.                                   *)

Drop(q) ==
  /\ waiting[q] # Idle /\ Reply(q)
  /\ UNCHANGED <<env, record, executed, mayExecute, clock>>

Deploy(d) ==
  /\ d # env /\ env' = d /\ waiting' = [q \in Requests |-> Idle]
  /\ UNCHANGED <<record, executed, mayExecute, clock>>

\* The release is carried out for a run, whether that was told to or not, early
\* or late, and its receipt is signed then or afterwards.
Execute(g) ==
  /\ executed[g] = None
  /\ executed' = [executed EXCEPT ![g] = clock]
  /\ UNCHANGED <<env, record, waiting, mayExecute, clock>>

Tick ==
  /\ clock < MaxTime /\ clock' = clock + 1
  /\ UNCHANGED <<env, record, waiting, executed, mayExecute>>

-----------------------------------------------------------------------------

Init ==
  /\ env \in Deployments /\ record = NoRecord
  /\ waiting = [q \in Requests |-> Idle]
  /\ executed = [g \in GithubRuns |-> None] /\ mayExecute = {}
  /\ clock = 0

Next ==
  \/ \E g \in GithubRuns :
       \/ \E attempt \in 1 .. 2 : Start(g, attempt)
       \/ Settle(g) \/ Execute(g)
       \/ \E q \in Requests : BeginRecover(q, g) \/ BeginReceipt(q, g) \/ BeginRefresh(q, g)
  \/ \E q \in Requests : FinishRecover(q) \/ FinishReceipt(q) \/ FinishRefresh(q) \/ Drop(q)
  \/ \E d \in Deployments : Deploy(d)
  \/ Tick

Spec == Init /\ [][Next]_vars

-----------------------------------------------------------------------------
(* Properties. *)

Records ==
  [run : GithubRuns, subject : Subjects, trust : Trusts, status : Statuses,
   notBefore : Times, receipt : Receipts \cup {None}, handoffs : Seq(Handoffs),
   decision : Decisions \cup {None}, reservation : Reservations \cup {None},
   granted : BOOLEAN, previous : Seq(GithubRuns), audit : Seq(AuditActions)]

Waits ==
  {Idle}
  \cup [kind : {"recover"}, run : GithubRuns, reservation : Reservations]
  \cup [kind : {"receipt"}, run : GithubRuns, receipt : Receipts, handoff : Handoffs]
  \cup [kind : {"refresh"}, run : GithubRuns, handoff : Handoffs, expired : Handoffs]

\* Types; and the fields of a record agree with its status.
TypeOK ==
  /\ env \in Deployments /\ record \in Records \cup {NoRecord}
  /\ waiting \in [Requests -> Waits]
  /\ executed \in [GithubRuns -> Times \cup {None}]
  /\ mayExecute \subseteq GithubRuns /\ clock \in Times
  /\ Exists =>
       /\ (record.status = "AUTHORISED") = (record.receipt = None)
       /\ (record.receipt = None) = (record.handoffs = <<>>)
       /\ (record.status \in Outcomes) = (record.decision # None)
       /\ record.decision # None => record.decision.outcome = record.status

Grows(old, new) == \A n \in DOMAIN old : n \in DOMAIN new /\ new[n] = old[n]

\* What the record says once is not unsaid: however requests and deployments
\* interleave, the history only grows, a receipt and a decision stay, the target
\* and the trust keys are frozen, and the run changes only while nothing was
\* executed for the record to know of (README of the service).
HistoryKept ==
  [][Exists =>
       /\ record' # NoRecord
       /\ Grows(record.audit, record'.audit)
       /\ Grows(record.handoffs, record'.handoffs)
       /\ Grows(record.previous, record'.previous)
       /\ record'.subject = record.subject /\ record'.trust.pins = record.trust.pins
       /\ record.receipt # None => record'.receipt = record.receipt /\ record'.run = record.run
       /\ record.decision # None => record' = record]_record

\* The receipt that counts is of an execution by the run of record, begun no
\* earlier than that run's authority was committed, and if the run took over from
\* another, the receipt does not count before the run's grant is on record: one
\* that was superseded, or that executed before it took over, is not believed.
\* (One that executes between the commit and the grant is, afterwards: to hold it
\* back until then is AgentProof's part.)  Whoever was told to execute is on record,
\* as the run or as one that it replaced: the grant is given out after the commit.
ReceiptOfCurrentAuthority ==
  /\ Exists /\ record.receipt # None =>
       /\ record.receipt.run = record.run /\ record.notBefore <= record.receipt.attempted
       /\ record.previous # <<>> => record.granted
  /\ \A g \in mayExecute :
       Exists /\ (g = record.run \/ \E n \in DOMAIN record.previous : record.previous[n] = g)

\* Of all the handoffs ever issued, only the last can be live: whoever renews it,
\* and however late the signature comes, the one before had expired.
OneLiveHandoff ==
  Exists => \A m, n \in DOMAIN record.handoffs :
    m < n => record.handoffs[m].expires <= record.handoffs[n].issued

\* The judgement that this controller implements.
J == INSTANCE Judgement WITH
  Works <- {"release"},
  Evidence <- Receipts,
  Verdicts <- Outcomes,
  Reopened <- {},
  Unnamed <- {},
  evidence <- [w \in {"release"} |-> IF Exists THEN record.receipt ELSE None],
  answered <- [w \in {"release"} |-> IF Exists /\ record.decision # None THEN {Current} ELSE {}],
  verdict <- [w \in {"release"} |->
    IF Exists /\ record.decision # None
    THEN [on |-> record.decision.receipt, is |-> record.decision.outcome] ELSE None],
  withdrawn <- {}

\* A release is judged once, on the receipt that was bound first.
ImplementsJudgement == J!JSpec

=============================================================================
