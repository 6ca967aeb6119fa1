------------------------------ MODULE MCEvents ------------------------------
(* Checking Events on a small instance.                                     *)
EXTENDS Events
=============================================================================
