-------------------------- MODULE MCAccountDeletion --------------------------
(* An instance of AccountDeletion for TLC. *)
EXTENDS AccountDeletion, TLC

CONSTANTS r1, s1, d1

=============================================================================
