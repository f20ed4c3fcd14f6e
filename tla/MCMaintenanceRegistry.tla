----------------------- MODULE MCMaintenanceRegistry -----------------------
(* Instances of MaintenanceRegistry for TLC. *)
EXTENDS MaintenanceRegistry, TLC

CONSTANTS p1, p2, i1, r1, r2

FirstsIssue == i1 :> p1
SecondsIssue == i1 :> p2
RunSymmetry == Permutations(Runs)

OnlyAutomatic == {[pullRequests |-> TRUE, scheduled |-> TRUE, auto |-> TRUE, installed |-> TRUE]}

=============================================================================
