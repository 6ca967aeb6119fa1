------------------------------- MODULE MCWeb -------------------------------
(* Checking Web on small instances.                                         *)
EXTENDS Web, TLC

=============================================================================
