-------------------------- MODULE MCCredentialVault --------------------------
(* An instance of CredentialVault for TLC. *)
EXTENDS CredentialVault, TLC

CONSTANTS r1, r2, r3, s1

RunSymmetry == Permutations(Runs)

=============================================================================
