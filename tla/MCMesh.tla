------------------------------- MODULE MCMesh -------------------------------
(* Checking Mesh on small instances.                                        *)
EXTENDS Mesh, TLC

\* Neither devices nor items are ordered.
Symmetry == Permutations(Device) \cup Permutations(Item)

=============================================================================
