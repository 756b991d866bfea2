----------------------------- MODULE Caretaker ------------------------------
(***************************************************************************)
(* What one daemon promises about the ccache files of its node, without    *)
(* hashes, phases, selectors or working sets (the comments on Processor    *)
(* and pruneStale in daemon/pkg/watcher/watcher.go).  It writes the files  *)
(* of users a roster has named, lays claim to what it writes and to what   *)
(* it finds of users in the roster when it starts, removes only what it    *)
(* claims, and does not write a file again that it has removed and is to   *)
(* hand over, or has handed over, to the Event recorder as gone.  When the *)
(* recorder stores the Event is not its business.  Module Daemon           *)
(* implements it.                                                          *)
(***************************************************************************)
CONSTANT UID

VARIABLES
    files,   \* users with a ccache on the node
    mine,    \* those last written by a daemon
    claim,   \* those this process may remove
    roster,  \* users of the mounted roster
    named,   \* users of any roster so far
    owed,    \* removals still to be handed to the recorder
    done     \* removals handed over, of users in no roster since

cvars == <<files, mine, claim, roster, named, owed, done>>

CInit ==
    /\ files \subseteq UID /\ mine \subseteq files
    /\ claim = {} /\ owed = {} /\ done = {}
    /\ roster \subseteq UID /\ named = roster

(* A process that has just started claims files of users in the roster. *)
Adopt ==
    /\ claim = {} /\ claim' \subseteq files \cap roster
    /\ UNCHANGED <<files, mine, roster, named, owed, done>>

(* A mint that fails behind kinit leaves a file nobody claims. *)
Write(u) ==
    /\ u \in named \ (owed \cup done)
    /\ files' = files \cup {u} /\ mine' = mine \cup {u}
    /\ claim' \in {claim, claim \cup {u}}
    /\ UNCHANGED <<roster, named, owed, done>>

(* A claim ends with the file, or without touching it. *)
Remove(u) ==
    /\ u \in claim \cap files
    /\ files' = files \ {u} /\ mine' = mine \ {u}
    /\ claim' = claim \ {u} /\ owed' = owed \cup {u}
    /\ UNCHANGED <<roster, named, done>>

GiveUp(u) ==
    /\ u \in claim
    /\ claim' = claim \ {u}
    /\ UNCHANGED <<files, mine, roster, named, owed, done>>

(* The hand-over to the recorder. *)
Report(u) ==
    /\ u \in owed
    /\ owed' = owed \ {u}
    /\ done' = done \cup ({u} \ roster)
    /\ UNCHANGED <<files, mine, claim, roster, named>>

Restart ==
    /\ claim' = {} /\ owed' = {}
    /\ UNCHANGED <<files, mine, roster, named, done>>

NewRoster ==
    /\ roster' \subseteq UID
    /\ named' = named \cup roster' /\ done' = done \ roster'
    /\ UNCHANGED <<files, mine, claim, owed>>

(* A person runs kinit or kdestroy. *)
Person(u) ==
    /\ files' \in {files \cup {u}, files \ {u}}
    /\ mine' = mine \ {u}
    /\ UNCHANGED <<claim, roster, named, owed, done>>

CNext ==
    \/ Adopt \/ Restart \/ NewRoster
    \/ \E u \in UID : Write(u) \/ Remove(u) \/ GiveUp(u) \/ Report(u) \/ Person(u)

CSpec == CInit /\ [][CNext]_cvars
=============================================================================
