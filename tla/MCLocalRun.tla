---------------------------- MODULE MCLocalRun ----------------------------
(* Instances of LocalRun for TLC. *)
EXTENDS LocalRun, TLC

CONSTANTS w1, w2

\* Two actions of one phase, neither depending on the other.
KindSiblings == <<"validation", "validation">>
Independent == <<{}, {}>>

\* A single implementation action, for the liveness run.
KindCode == <<"harness">>
NoDependencies == <<{}>>

WorkerSymmetry == Permutations(Workers)

=============================================================================
