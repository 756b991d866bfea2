------------------------------- MODULE Tenant -------------------------------
(***************************************************************************)
(* TenantReconciler (operator/internal/controller/tenant_reconciler.go)    *)
(* and the aggregation it calls (operator/internal/tenant/aggregate.go):   *)
(* list the Principals, read the keytab Secret of each, aggregate, then    *)
(* get and write the five objects the Tenant owns one after the other, and *)
(* last the Tenant's status.                                               *)
(*                                                                         *)
(* Between any two of these steps Principals and source Secrets may be     *)
(* edited, and others may create, take over, touch or delete an object of  *)
(* the name of an owned one; any read or write may fail.                   *)
(*                                                                         *)
(* spec, secret and enabled are what the manager's informer cache holds,   *)
(* which is what the reconciler reads: an edit is the arrival of a user's  *)
(* change there.  A Get of an owned object that the cache answers late is  *)
(* a Get that was done earlier.                                            *)
(***************************************************************************)
EXTENDS Naturals, FiniteSets

CONSTANTS
    Principal,  \* names of Principals of this Tenant
    UidOf,      \* UidOf[p]: spec.uid
    FileOf,     \* FileOf[p]: spec.keytab, or the key of its Secret
    Selective,  \* Principals with a spec.nodeSelector
    Bytes,      \* contents of a keytab
    None,       \* no such Secret or key
    MaxEdits,   \* bound: edits by users
    MaxFaults   \* bound: failed reads and writes, and acts of others on the
                \* objects of the owned names

ASSUME TenantAssumption ==
    /\ IsFiniteSet(Principal)
    /\ DOMAIN UidOf = Principal /\ DOMAIN FileOf = Principal
    /\ Selective \subseteq Principal
    /\ None \notin Bytes
    /\ MaxEdits \in Nat /\ MaxFaults \in Nat

VARIABLES
    (* API server *)
    spec,      \* spec[p]: "gone", "live", or "off" (disabled or deleting)
    secret,    \* secret[p]: bytes the keytab Secret of p holds, or None
    enabled,   \* ~Tenant.spec.disabled
    owner,     \* owner[k]: who owns child k: "none", "tenant" or "other"
    roster,    \* the roster ConfigMap: rows, and whether labels are in it
    keytabs,   \* the aggregated keytab Secret: keytabs[f], None when absent
    status,    \* Tenant status: consistent, resolved, done
    (* the reconcile in progress *)
    pc,        \* its next step: the child being written is one
    listed,    \* Principals it listed
    todo,      \* listed Principals whose Secret is still to be read
    read,      \* read[p]: the bytes it read
    labels,    \* the nodes' labels were listed for the roster
    copy,      \* what the Get of this upsert returned
    moved,     \* the object has another resourceVersion since
    (* history *)
    steady,    \* undisputed with one keytab since this reconcile began
    blind,     \* a read of this reconcile failed
    edits, faults

File == {FileOf[p] : p \in Principal}
Child == {"cm", "secret", "role", "binding", "ds"}
objects == <<owner, roster, keytabs>>
work == <<listed, todo, read, labels>>
upsert == <<copy, moved>>
users == <<spec, secret, enabled>>
vars == <<users, objects, status, pc, work, upsert, steady, blind, edits, faults>>

-----------------------------------------------------------------------------
(* Aggregate *)

(* Two listed Principals claim one UID: all that do are rejected. *)
DuplicatedSlip(p, ps) == FALSE           \* slip: duplicates are let through
Duplicated(p, ps) == \E q \in ps \ {p} : UidOf[q] = UidOf[p]

Candidates(ps, src) == {p \in ps : ~Duplicated(p, ps) /\ src[p] # None}

(* Two candidates put different bytes under one file name.  The code drops *)
(* the contributors of one such name and aggregates again until there is   *)
(* none; dropping them makes no new collision, so all go in the end.       *)
CollidesSlip(p, ps, src) ==  \* slip: the bytes are not compared
    \E q \in Candidates(ps, src) \ {p} : FileOf[q] = FileOf[p]
Collides(p, ps, src) ==
    \E q \in Candidates(ps, src) : FileOf[q] = FileOf[p] /\ src[q] # src[p]

Included(ps, src) == {p \in Candidates(ps, src) : ~Collides(p, ps, src)}

Row(p) == [uid |-> UidOf[p], file |-> FileOf[p], sel |-> p \in Selective]

RosterRows(ps, src) == {Row(p) : p \in Included(ps, src)}

KeytabData(ps, src) ==
    [f \in File |->
        IF \E p \in Included(ps, src) : FileOf[p] = f
        THEN src[CHOOSE p \in Included(ps, src) : FileOf[p] = f]
        ELSE None]

(* What a Principal needs now to be in the roster, said once more from the *)
(* user's side.                                                            *)
Valid(p) ==
    /\ enabled /\ spec[p] = "live" /\ secret[p] # None
    /\ \A q \in Principal \ {p} : spec[q] = "live" => UidOf[q] # UidOf[p]
    /\ \A q \in Principal \ {p} :
        (/\ spec[q] = "live" /\ FileOf[q] = FileOf[p] /\ secret[q] # None
         /\ \A r \in Principal \ {q} : spec[r] = "live" => UidOf[r] # UidOf[q])
           => secret[q] = secret[p]

(* More than valid: no Secret of a Principal with the same keytab file     *)
(* name, live or not, holds other bytes.                                   *)
Undisputed(p) ==
    /\ Valid(p)
    /\ \A q \in Principal : FileOf[q] = FileOf[p] => secret[q] \in {None, secret[p]}

-----------------------------------------------------------------------------
Nothing == [p \in Principal |-> None]

Init ==
    /\ spec \in [Principal -> {"gone", "live"}]
    /\ secret \in [Principal -> Bytes]
    /\ enabled = TRUE
    /\ owner = [k \in Child |-> "none"]
    /\ roster = [rows |-> {}, labels |-> FALSE]
    /\ keytabs = [f \in File |-> None]
    /\ status = [consistent |-> FALSE, resolved |-> FALSE, done |-> FALSE]
    /\ pc = "idle" /\ listed = {} /\ todo = {} /\ read = Nothing /\ labels = FALSE
    /\ copy = "unread" /\ moved = FALSE
    /\ steady = {} /\ blind = FALSE
    /\ edits = 0 /\ faults = 0

Fault == faults < MaxFaults /\ faults' = faults + 1

frame == <<users, edits>>

-----------------------------------------------------------------------------
(* Reconcile: every RequeueInterval and on watched changes. *)

(* listPrincipalsFor.  When the call fails the error is logged and the     *)
(* reconcile goes on with an empty list.                                   *)
ListedNowSlip == {p \in Principal : spec[p] = "live"} \* slip: disabled Tenant ignored
ListedNow == IF enabled THEN {p \in Principal : spec[p] = "live"} ELSE {}

List ==
    /\ pc = "idle"
    /\ \/ listed' = ListedNow /\ blind' = FALSE /\ UNCHANGED faults
       \/ enabled /\ listed' = {} /\ blind' = TRUE /\ Fault
    /\ todo' = listed' /\ read' = Nothing
    /\ steady' = {p \in Principal : Undisputed(p)}
    /\ pc' = "resolve"
    /\ UNCHANGED <<frame, objects, status, labels, upsert>>

(* resolveKeytabs, one Principal at a time; any error means not resolved.  *)
ResolveKeytab(p) ==
    /\ pc = "resolve" /\ p \in todo
    /\ todo' = todo \ {p}
    /\ \/ read' = [read EXCEPT ![p] = secret[p]] /\ UNCHANGED <<blind, faults>>
       \/ UNCHANGED read /\ blind' = TRUE /\ Fault
    /\ UNCHANGED <<frame, objects, status, pc, listed, labels, upsert, steady>>

(* Aggregate, and snapshotNodeLabels when a row has a selector; labels are *)
(* left out when the nodes cannot be listed.                               *)
AggregateAll ==
    /\ pc = "resolve" /\ todo = {}
    /\ LET restricted == \E r \in RosterRows(listed, read) : r.sel
       IN  \/ labels' = restricted /\ UNCHANGED faults
           \/ restricted /\ labels' = FALSE /\ Fault
    /\ pc' = "cm"
    /\ UNCHANGED <<frame, objects, status, listed, todo, read, upsert, steady, blind>>

(* What the reconcile wants the two data objects to hold. *)
RosterWanted == [rows |-> RosterRows(listed, read), labels |-> labels]

SecretWantedSlip ==  \* slip: nothing is ever removed from the Secret
    [f \in File |-> IF keytabs[f] # None THEN keytabs[f] ELSE KeytabData(listed, read)[f]]
SecretWanted == KeytabData(listed, read)

(* Child k holds it already; a DaemonSet is written in any case. *)
Same(k) ==
    /\ k # "ds"
    /\ k = "cm" => roster = RosterWanted
    /\ k = "secret" => keytabs = SecretWanted

(* upsertOwned for child k: a Get, and then what its answer calls for. *)
GetChild(k) ==
    /\ pc = k /\ copy = "unread"
    /\ copy' = IF owner[k] = "tenant" /\ Same(k) THEN "same" ELSE owner[k]
    /\ moved' = FALSE
    /\ UNCHANGED <<frame, objects, status, pc, work, steady, blind, faults>>

After(k) ==
    CASE k = "cm" -> "secret" [] k = "secret" -> "role" [] k = "role" -> "binding"
      [] k = "binding" -> "ds" [] k = "ds" -> "status"

(* The upsert of child k is done. *)
Upserted(k) ==
    /\ pc' = After(k) /\ copy' = "unread" /\ moved' = FALSE
    /\ UNCHANGED <<frame, status, work, steady, blind, faults>>

Put(k) ==
    /\ owner' = [owner EXCEPT ![k] = "tenant"]
    /\ roster' = IF k = "cm" THEN RosterWanted ELSE roster
    /\ keytabs' = IF k = "secret" THEN SecretWanted ELSE keytabs
    /\ Upserted(k)

(* The API server creates only what does not exist ... *)
CreateChild(k) == pc = k /\ copy = "none" /\ owner[k] = "none" /\ Put(k)

(* ... and updates only the version the copy was taken from. *)
UpdateChildSlip(k) == pc = k /\ copy = "tenant" /\ owner[k] # "none" /\ Put(k) \* slip: any version
UpdateChild(k) == pc = k /\ copy = "tenant" /\ ~moved /\ Put(k)

KeepChild(k) == pc = k /\ copy = "same" /\ Upserted(k) /\ UNCHANGED objects

(* retryOnConflict starts over with the Get. *)
Conflict(k) ==
    /\ pc = k /\ copy = "tenant" /\ moved /\ owner[k] # "none"
    /\ copy' = "unread" /\ moved' = FALSE
    /\ UNCHANGED <<frame, objects, status, pc, work, steady, blind, faults>>

(* The upsert fails: not owned, created meanwhile, gone meanwhile, in      *)
(* conflict too often, or a call that fails.  The reconcile ends, the      *)
(* status is written without conditions and the request is retried.        *)
UpsertFails(k) ==
    /\ pc = k
    /\ \/ /\ \/ copy = "other"
             \/ copy = "none" /\ owner[k] # "none"
             \/ copy = "tenant" /\ moved
          /\ UNCHANGED faults
       \/ copy \notin {"same", "other"} /\ Fault
    /\ status' = [consistent |-> FALSE, resolved |-> FALSE, done |-> FALSE]
    /\ pc' = "idle" /\ steady' = {}
    /\ listed' = {} /\ read' = Nothing /\ labels' = FALSE /\ blind' = FALSE
    /\ copy' = "unread" /\ moved' = FALSE
    /\ UNCHANGED <<frame, objects, todo>>

UpsertOwned(k) ==
    \/ GetChild(k) \/ CreateChild(k) \/ UpdateChild(k) \/ KeepChild(k)
    \/ Conflict(k) \/ UpsertFails(k)

(* The conditions and writeStatus, which may fail. *)
WriteStatus ==
    /\ pc = "status"
    /\ \/ /\ status' = [consistent |-> \A p \in listed : ~Duplicated(p, listed),
                        resolved |-> \A p \in listed : read[p] # None,
                        done |-> TRUE]
          /\ UNCHANGED faults
       \/ UNCHANGED status /\ Fault
    /\ pc' = "idle" /\ steady' = {}
    /\ listed' = {} /\ read' = Nothing /\ labels' = FALSE /\ blind' = FALSE
    /\ UNCHANGED <<frame, objects, todo, upsert>>

-----------------------------------------------------------------------------
(* Users *)

Edit ==
    /\ edits < MaxEdits /\ edits' = edits + 1
    /\ \/ \E p \in Principal, s \in {"gone", "live", "off"} :
            spec' = [spec EXCEPT ![p] = s] /\ UNCHANGED <<secret, enabled>>
       \/ \E p \in Principal, b \in Bytes \cup {None} :
            secret' = [secret EXCEPT ![p] = b] /\ UNCHANGED <<spec, enabled>>
       \/ enabled' = ~enabled /\ UNCHANGED <<spec, secret>>
    /\ users' # users
    /\ steady' = {p \in steady : Undisputed(p)' /\ secret'[p] = secret[p]}
    /\ UNCHANGED <<objects, status, pc, work, upsert, blind, faults>>

(* Others create an object of the name of child k, take the Tenant's over  *)
(* (its owner reference goes), delete it, or touch it without any of this. *)
Foreign(k) ==
    /\ Fault
    /\ \E o \in {"none", "other"} \cup ({owner[k]} \cap {"tenant"}) :
        /\ o # "none" \/ owner[k] # "none"
        /\ owner' = [owner EXCEPT ![k] = o]
        /\ roster' = IF k = "cm" /\ o = "none" THEN [rows |-> {}, labels |-> FALSE] ELSE roster
        /\ keytabs' = IF k = "secret" /\ o = "none" THEN [f \in File |-> None] ELSE keytabs
    /\ moved' = (moved \/ (pc = k /\ copy # "unread"))
    /\ UNCHANGED <<frame, status, pc, work, copy, steady, blind>>

-----------------------------------------------------------------------------
Reconcile ==
    \/ List \/ \E p \in Principal : ResolveKeytab(p)
    \/ AggregateAll
    \/ \E k \in Child : UpsertOwned(k)
    \/ WriteStatus

Next == Reconcile \/ Edit \/ \E k \in Child : Foreign(k)

Spec == Init /\ [][Next]_vars

(* A reconcile is requeued after RequeueInterval, or with a back-off, so   *)
(* the reconciler never rests.  Nothing is assumed of people.              *)
Fairness == WF_vars(Reconcile)

FairSpec == Spec /\ Fairness

-----------------------------------------------------------------------------
(* Every variable holds a value of its type, and no two rows of the        *)
(* roster have the same UID.                                               *)
TypeOK ==
    /\ spec \in [Principal -> {"gone", "live", "off"}]
    /\ secret \in [Principal -> Bytes \cup {None}]
    /\ enabled \in BOOLEAN
    /\ owner \in [Child -> {"none", "tenant", "other"}]
    /\ roster.rows \subseteq {Row(p) : p \in Principal} /\ roster.labels \in BOOLEAN
    /\ keytabs \in [File -> Bytes \cup {None}]
    /\ status \in [consistent : BOOLEAN, resolved : BOOLEAN, done : BOOLEAN]
    /\ pc \in {"idle", "resolve", "status"} \cup Child
    /\ labels \in BOOLEAN /\ moved \in BOOLEAN
    /\ copy \in {"unread", "none", "tenant", "same", "other"}
    /\ listed \subseteq Principal /\ todo \subseteq listed
    /\ read \in [Principal -> Bytes \cup {None}]
    /\ steady \subseteq Principal /\ blind \in BOOLEAN
    /\ edits \in Nat /\ faults \in Nat
    /\ \A r, s \in roster.rows : r.uid = s.uid => r = s

(* "The reconciler refuses to modify an object that already exists but is  *)
(* not owned by the Tenant": no step of a reconcile changes the contents   *)
(* or the owner of a child that is somebody else's at that moment, also    *)
(* when it was the Tenant's, or did not exist, at the Get.                 *)
NeverClobbers ==
    [][Reconcile =>
        /\ \A k \in Child : owner[k] = "other" => owner'[k] = "other"
        /\ owner["cm"] = "other" => roster' = roster
        /\ owner["secret"] = "other" => keytabs' = keytabs]_vars

(* When a reconcile has written both, and as long as they are the          *)
(* Tenant's, every row of the roster finds, under the file name it gives,  *)
(* exactly the bytes read from its own Principal's Secret: no two          *)
(* Principals are served from each other's keytab.                         *)
RowsServedByOwnKeytab ==
    pc \in {"role", "binding", "ds", "status"} /\ owner["cm"] = "tenant"
            /\ owner["secret"] = "tenant" =>
        \A p \in listed : Row(p) \in roster.rows /\ ~Duplicated(p, listed)
            => keytabs[FileOf[p]] = read[p] /\ read[p] # None

(* Adding, disabling or breaking one Principal never takes another one out *)
(* of the roster: a row leaves only when its Principal was invalid,        *)
(* disputed or re-keyed at some moment since the reconcile began, or when  *)
(* a read failed.                                                          *)
ValidKept ==
    [][Reconcile /\ pc = "cm" /\ ~blind =>
        \A p \in steady : Row(p) \in roster.rows => Row(p) \in roster'.rows]_vars

(* Once the users stop editing and reads succeed, and if no object of      *)
(* somebody else stays in the way, the roster is exactly the rows of the   *)
(* valid Principals and the Secret backs each of them, whatever failed,    *)
(* conflicted, was deleted or was edited between two steps before.         *)
RosterConverges ==
    <>[](\A k \in Child : owner[k] # "other") =>
        <>[](/\ roster.rows = {Row(p) : p \in {q \in Principal : Valid(q)}}
             /\ \A p \in Principal : Valid(p) => keytabs[FileOf[p]] = secret[p])
=============================================================================
