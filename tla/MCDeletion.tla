----------------------------- MODULE MCDeletion -----------------------------
(* Instances of Deletion for TLC. *)
EXTENDS Deletion

CONSTANTS n1, n2
=============================================================================
