----------------------------- MODULE Judgement -----------------------------
(***************************************************************************)
(* What the judgement of pieces of work promises, wherever DoneState hands *)
(* work to an independent verifier: a verdict is about the evidence that   *)
(* is presented and rests on a handoff that was not answered before, an    *)
(* answer that settles nothing leaves the work waiting, a verdict is the   *)
(* last until the work is reopened, where it can be, and work that is      *)
(* withdrawn is not judged, nor presented again.                           *)
(*                                                                         *)
(* ReleaseController implements it with works that are never reopened: its *)
(* decision is the last.  The runs of LocalPublication can all be reopened.*)
(***************************************************************************)

CONSTANTS
  Works,
  Evidence,  \* what can be presented
  Handoffs,  \* what can be given to the verifier
  Verdicts,  \* the answers that settle a work
  Reopened,  \* the works whose evidence can be taken back, with the verdict on it
  Unnamed,   \* of the handoffs, what stands for none: nothing keeps it when the
             \* work is reopened
  None

VARIABLES
  evidence,  \* per work: what was presented, or None
  answered,  \* per work: the handoffs that have been answered
  verdict,   \* per work: the answer that settled it with its evidence, or None
  withdrawn  \* the works that were given up

jvars == <<evidence, answered, verdict, withdrawn>>

JInit ==
  /\ evidence = [w \in Works |-> None] /\ verdict = [w \in Works |-> None]
  /\ answered = [w \in Works |-> {}] /\ withdrawn = {}

Present(w) ==
  /\ evidence[w] = None /\ w \notin withdrawn
  /\ evidence' # evidence
  /\ \E e \in Evidence : evidence' = [evidence EXCEPT ![w] = e]
  /\ UNCHANGED <<answered, verdict, withdrawn>>

\* One handoff is answered, while the work waits: with nothing, or a verdict.
Answer(w) ==
  /\ evidence[w] # None /\ verdict[w] = None
  /\ answered' # answered
  /\ \E h \in Handoffs \ answered[w] : answered' = [answered EXCEPT ![w] = @ \cup {h}]
  /\ \/ UNCHANGED verdict
     \/ \E v \in Verdicts : verdict' = [verdict EXCEPT ![w] = [on |-> evidence[w], is |-> v]]
  /\ UNCHANGED <<evidence, withdrawn>>

\* What was answered by its name stays answered.
Reopen(w) ==
  /\ w \in Reopened /\ evidence[w] # None
  /\ evidence' = [evidence EXCEPT ![w] = None] /\ verdict' = [verdict EXCEPT ![w] = None]
  /\ answered' = [answered EXCEPT ![w] = @ \ Unnamed]
  /\ UNCHANGED withdrawn

Withdraw(w) ==
  /\ w \notin withdrawn /\ withdrawn' = withdrawn \cup {w}
  /\ evidence' = [evidence EXCEPT ![w] = None] /\ verdict' = [verdict EXCEPT ![w] = None]
  /\ answered' = [answered EXCEPT ![w] = {}]

JNext ==
  \E w \in Works : Present(w) \/ Answer(w) \/ Reopen(w) \/ Withdraw(w)

JSpec == JInit /\ [][JNext]_jvars

=============================================================================
