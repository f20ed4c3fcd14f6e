---------------------------- MODULE MCMarketplace ----------------------------
(* An instance of Marketplace for TLC. *)
EXTENDS Marketplace, TLC

CONSTANTS d1, d2

Event(action, effective) == [action |-> action, effective |-> effective]

\* A change that is announced for the next day, and a cancellation that takes
\* effect before it; what is read for an installation is of the present day.
MCHistories == { d1 :> Event("pending_change", 1) @@ d2 :> Event("cancelled", 0) }

HandlerSymmetry == Permutations(Handlers)

=============================================================================
