------------------------------ MODULE MCFolder ------------------------------
(* Checking Folder on small instances.                                      *)
EXTENDS Folder, TLC

=============================================================================
