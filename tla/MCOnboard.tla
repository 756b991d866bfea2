----------------------------- MODULE MCOnboard ------------------------------
(* Instances of Onboard for TLC: the UIDs at the end of the annotated      *)
(* window and next to it.                                                  *)
EXTENDS Onboard, TLC

Window == {[start |-> 3, length |-> 1]}

Symmetry == Permutations(Realm) \cup Permutations(Key) \cup Permutations(Adder)
=============================================================================
