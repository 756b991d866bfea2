------------------------------ MODULE MCDaemon ------------------------------
(* Instances of Daemon for TLC: one user, one label, and the volume        *)
(* contents that tell the daemon's decisions about a user apart.  What the *)
(* daemon does to one user never depends on another.                       *)
EXTENDS Daemon

CONSTANTS u1, l1

Free == [u \in UID |-> {}]
Pinned == [u \in UID |-> IF u = u1 THEN {l1} ELSE {}]

Volume(r, s, l) == [roster |-> r, sel |-> s, labels |-> l]

(* u1 restricted to l1, which this node carries or does not; u1 gone;      *)
(* selectors broken; no roster at all.                                     *)
OneUserConfigs ==
    {Volume({u1}, Pinned, {l1}), Volume({u1}, Pinned, {}),
     Volume({}, Free, NoLabels), Volume({u1}, Malformed, {l1}),
     Volume(Absent, Free, NoLabels)}
=============================================================================
