----------------------------- MODULE MCConsole ------------------------------
(* Instances of Console for TLC: a tenant and its principal, whose row     *)
(* becomes an orphan's when the tenant goes.                               *)
EXTENDS Console

TheOrder == [o \in Object |-> IF o = "t1" THEN 1 ELSE 2]
TheParent == [p \in Principal |-> "t1"]
TheLabels == {[custom |-> 1, system |-> 1], [custom |-> 2, system |-> 0]}
TheStart ==
    {[live |-> {"t1", "p1"}, disabled |-> {}, minted |-> [p \in Principal |-> Node]]}
TheLimit == [steps |-> 3, world |-> 1, loads |-> 2]
=============================================================================
