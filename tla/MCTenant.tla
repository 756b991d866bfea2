------------------------------ MODULE MCTenant ------------------------------
(* Instances of Tenant for TLC: a and b share a keytab file name, a and c  *)
(* claim the same UID, c has a node selector.                              *)
EXTENDS Tenant

CONSTANTS a, b, c

UidOf3 == [p \in {a, b, c} |-> IF p = b THEN 2 ELSE 1]
FileOf3 == [p \in {a, b, c} |-> IF p = c THEN "g" ELSE "f"]
=============================================================================
