------------------------------- MODULE MCStore -------------------------------
(* Checking Store on small instances.                                       *)
EXTENDS Store, TLC

\* Nothing orders items, blocks or transfers.
Symmetry == Permutations(Item) \cup Permutations(Block) \cup Permutations(Transfer)

=============================================================================
