----------------------------- MODULE MCPairing -----------------------------
(* Pairing on small instances.                                              *)
EXTENDS Pairing, TLC

Symmetry == Permutations(Device) \cup Permutations(Code)
=============================================================================
