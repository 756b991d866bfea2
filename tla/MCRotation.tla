----------------------------- MODULE MCRotation -----------------------------
(* Instances of Rotation for TLC: an old keytab with a short version       *)
(* number, a new one with a deleted record and a version that needs more   *)
(* than eight bits, and the new one cut short.                             *)
EXTENDS Rotation

CONSTANTS n1, n2, old, new, cut

Key(live, v, etype, long) ==
    [live |-> live, kvno |-> v, etype |-> etype, long |-> long, name |-> <<65, 66>>]

OldRecords == <<Key(TRUE, 3, 18, FALSE)>>
NewRecords == <<Key(FALSE, 3, 18, FALSE), Key(TRUE, 258, 17, TRUE), Key(TRUE, 257, 18, TRUE)>>

Whole(rs) == [records |-> rs, copied |-> Len(Bytes(rs))]

Written3 ==
    [f \in {old, new, cut} |->
        CASE f = old -> Whole(OldRecords)
          [] f = new -> Whole(NewRecords)
          [] f = cut -> [records |-> NewRecords, copied |-> Len(Bytes(NewRecords)) - 5]]
=============================================================================
