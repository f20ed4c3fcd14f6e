------------------------------- MODULE Fence -------------------------------
(***************************************************************************)
(* The fence that the deletion of an account raises: a row of              *)
(* account_control(s) that the vault and the registry keep in the same     *)
(* form.  A request remembers the generation it was admitted under and     *)
(* shows it again after every wait.                                        *)
(***************************************************************************)
EXTENDS Naturals

CONSTANT MaxGenerations  \* bound of the model: deletions that raise a fence

ASSUME GenerationsAssumption == MaxGenerations \in Nat

Locks == [deleting : BOOLEAN, generation : Nat]
NoLock == [deleting |-> FALSE, generation |-> 0]

\* assertAccountWritable() without and with an expected generation.
Writable(lock) == ~lock.deleting

\* Mutant: the expected generation is not passed on.
MutantAdmits(lock, generation) == Writable(lock)

Admits(lock, generation) == Writable(lock) /\ lock.generation = generation

BeginDeletion(lock) ==
  IF lock.deleting THEN lock
  ELSE [deleting |-> TRUE, generation |-> lock.generation + 1]
EndDeletion(lock) == [lock EXCEPT !.deleting = FALSE]

=============================================================================
