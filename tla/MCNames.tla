------------------------------- MODULE MCNames -------------------------------
(* Checking Names on small instances.                                       *)
EXTENDS Names, TLC

\* Neither devices nor documents are ordered; item ids are.
Symmetry == Permutations(Device) \cup Permutations(Doc)

=============================================================================
