------------------------------ MODULE MCEngine ------------------------------
(* Checking Engine on small instances.                                      *)
EXTENDS Engine
=============================================================================
