------------------------- MODULE MCLocalPublication -------------------------
(* Instances of LocalPublication for TLC. *)
EXTENDS LocalPublication, TLC

CONSTANTS r1, r2

MCGoRuns == {r1} \X {"none", "branch"}
ProcessSymmetry == Permutations(Processes)

=============================================================================
