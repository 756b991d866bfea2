---------------------------- MODULE TenantProofs ----------------------------
(* What the Tenant reconciler of module Tenant guarantees for every finite *)
(* set of Principals, every assignment of UIDs and file names to them and  *)
(* every number of edits, faults and interventions of others.              *)
EXTENDS Tenant, FiniteSetTheorems, TLAPS

(* Nothing is left to be read once the writes begin. *)
TypeInv == TypeOK /\ (pc # "resolve" => todo = {})

(* What is left of the last aggregation while its writes go on, as long as *)
(* the objects are the Tenant's.                                           *)
WrittenInv ==
    /\ owner["cm"] = "tenant" =>
        /\ pc \in {"secret", "role", "binding", "ds", "status"}
              => roster.rows = RosterRows(listed, read)
        /\ pc = "cm" /\ copy = "same" => roster = RosterWanted
    /\ owner["secret"] = "tenant" =>
        /\ pc \in {"role", "binding", "ds", "status"} => keytabs = KeytabData(listed, read)
        /\ pc = "secret" /\ copy = "same" => keytabs = SecretWanted

(* A copy whose version has not moved is of an object that is still the    *)
(* Tenant's, and there is a copy only while a child is written.            *)
CopyInv ==
    /\ pc \notin Child => copy = "unread"
    /\ pc \in Child /\ copy \in {"tenant", "same"} /\ ~moved => owner[pc] = "tenant"

(* A steady Principal was listed alone with its UID, and of its keytab     *)
(* file only its own bytes have been read.                                 *)
SteadyInv ==
    pc \in {"resolve", "cm"} /\ ~blind =>
        \A p \in steady :
            /\ Undisputed(p)
            /\ p \in listed /\ ~Duplicated(p, listed)
            /\ p \notin todo => read[p] = secret[p]
            /\ \A q \in Principal : FileOf[q] = FileOf[p] => read[q] \in {None, secret[p]}

IInv == TypeInv /\ CopyInv /\ WrittenInv /\ SteadyInv

-----------------------------------------------------------------------------
(* Aggregate rejects every Principal whose UID another one has: no two     *)
(* rows of a roster have the same UID.                                     *)
LEMMA RowsUnique ==
  ASSUME NEW ps \in SUBSET Principal, NEW src,
         NEW r \in RosterRows(ps, src), NEW s \in RosterRows(ps, src), r.uid = s.uid
  PROVE  r = s
<1>1. PICK p \in Included(ps, src) : r = Row(p)
  BY DEF RosterRows
<1>2. PICK q \in Included(ps, src) : s = Row(q)
  BY DEF RosterRows
<1>3. UidOf[p] = UidOf[q] /\ p \in ps /\ q \in ps /\ ~Duplicated(p, ps)
  BY <1>1, <1>2 DEF Row, Included, Candidates
<1>4. p = q
  BY <1>3 DEF Duplicated
<1> QED
  BY <1>1, <1>2, <1>4

(* The aggregated Secret has, under the file name of every Principal in    *)
(* the roster, exactly that Principal's bytes.                             *)
LEMMA IncludedServed ==
  ASSUME NEW ps \in SUBSET Principal, NEW src, NEW p \in Included(ps, src)
  PROVE  KeytabData(ps, src)[FileOf[p]] = src[p] /\ src[p] # None
<1> DEFINE q == CHOOSE x \in Included(ps, src) : FileOf[x] = FileOf[p]
<1>1. p \in Principal /\ FileOf[p] \in File /\ src[p] # None /\ ~Collides(p, ps, src)
  BY DEF Included, Candidates, File
<1>2. q \in Included(ps, src) /\ FileOf[q] = FileOf[p]
  OBVIOUS
<1>3. KeytabData(ps, src)[FileOf[p]] = src[q]
  BY <1>1 DEF KeytabData
<1>4. src[q] = src[p]
  BY <1>1, <1>2 DEF Collides, Included
<1> QED
  BY <1>1, <1>3, <1>4

(* A listed Principal whose row is in the roster, and whose UID no other   *)
(* listed one has, is the one the row was made for.                        *)
LEMMA RowOwner ==
  ASSUME NEW ps \in SUBSET Principal, NEW src, NEW p \in ps,
         ~Duplicated(p, ps), Row(p) \in RosterRows(ps, src)
  PROVE  p \in Included(ps, src)
<1>1. PICK q \in Included(ps, src) : Row(p) = Row(q)
  BY DEF RosterRows
<1>2. UidOf[q] = UidOf[p] /\ q \in ps
  BY <1>1 DEF Row, Included, Candidates
<1>3. q = p
  BY <1>2 DEF Duplicated
<1> QED
  BY <1>1, <1>3

(* The roster and the Secret are well formed whatever was read. *)
LEMMA AggregateType ==
  ASSUME NEW ps \in SUBSET Principal, NEW src \in [Principal -> Bytes \cup {None}]
  PROVE  /\ RosterRows(ps, src) \subseteq {Row(p) : p \in Principal}
         /\ KeytabData(ps, src) \in [File -> Bytes \cup {None}]
<1>1. Included(ps, src) \subseteq Principal
  BY DEF Included, Candidates
<1>2. ASSUME NEW f \in File PROVE KeytabData(ps, src)[f] \in Bytes \cup {None}
  BY <1>1 DEF KeytabData
<1>3. KeytabData(ps, src) = [f \in File |-> KeytabData(ps, src)[f]]
  BY DEF KeytabData
<1> QED
  BY <1>1, <1>2, <1>3 DEF RosterRows

-----------------------------------------------------------------------------
(* A Tenant that was just created satisfies the invariant. *)
LEMMA IInvInit == Init => IInv
<1> SUFFICES ASSUME Init PROVE IInv
  OBVIOUS
<1>1. Nothing \in [Principal -> Bytes \cup {None}]
  BY DEF Nothing
<1>2. /\ enabled \in BOOLEAN /\ blind \in BOOLEAN /\ roster.labels \in BOOLEAN
      /\ labels \in BOOLEAN /\ moved \in BOOLEAN
  BY DEF Init
<1>3. status \in [consistent : BOOLEAN, resolved : BOOLEAN, done : BOOLEAN]
  BY DEF Init
<1>4. TypeOK
  BY <1>1, <1>2, <1>3 DEF Init, TypeOK, Child
<1> QED
  BY <1>4 DEF Init, IInv, TypeInv, CopyInv, WrittenInv, SteadyInv, Child

(* A status record is one of three Booleans. *)
LEMMA StatusType ==
  ASSUME NEW x \in BOOLEAN, NEW y \in BOOLEAN, NEW z \in BOOLEAN
  PROVE  [consistent |-> x, resolved |-> y, done |-> z]
            \in [consistent : BOOLEAN, resolved : BOOLEAN, done : BOOLEAN]
OBVIOUS

(* A write that the API server takes stores well-formed contents. *)
LEMMA PutType ==
  ASSUME TypeInv, NEW k \in Child, pc = k, Put(k)
  PROVE  TypeInv'
<1>0. TypeOK /\ todo = {}
  BY DEF TypeInv, Child
<1>1. owner' \in [Child -> {"none", "tenant", "other"}]
  BY <1>0 DEF Put, TypeOK
<1>2. /\ roster'.rows \subseteq {Row(p) : p \in Principal} /\ roster'.labels \in BOOLEAN
      /\ \A r, s \in roster'.rows : r.uid = s.uid => r = s
  <2>1. CASE k = "cm"
    <3>1. roster'.rows = RosterRows(listed, read) /\ roster'.labels = labels
      BY <2>1 DEF Put, RosterWanted
    <3>2. roster'.labels \in BOOLEAN
      BY <3>1, <1>0 DEF TypeOK
    <3>3. roster'.rows \subseteq {Row(p) : p \in Principal}
      <4>1. listed \in SUBSET Principal /\ read \in [Principal -> Bytes \cup {None}]
        BY <1>0 DEF TypeOK
      <4>2. RosterRows(listed, read) \subseteq {Row(p) : p \in Principal}
        BY <4>1, AggregateType
      <4> QED
        BY <3>1, <4>2
    <3>4. \A r, s \in roster'.rows : r.uid = s.uid => r = s
      BY <3>1, <1>0, RowsUnique DEF TypeOK
    <3> QED
      BY <3>2, <3>3, <3>4
  <2>2. CASE k # "cm"
    BY <2>2, <1>0 DEF Put, TypeOK
  <2> QED
    BY <2>1, <2>2
<1>3. keytabs' \in [File -> Bytes \cup {None}]
  BY <1>0, AggregateType DEF Put, SecretWanted, TypeOK
<1>4. /\ pc' \in Child \cup {"status"} /\ copy' = "unread" /\ moved' = FALSE
      /\ UNCHANGED <<users, edits, status, listed, todo, read, labels, steady,
                     blind, faults>>
  BY DEF Put, Upserted, After, Child, frame, work
<1>5. moved' \in BOOLEAN
  BY <1>4
<1> QED
  BY <1>0, <1>1, <1>2, <1>3, <1>4, <1>5 DEF TypeInv, TypeOK, users, Child

(* Ending a reconcile without success keeps the types. *)
LEMMA UpsertFailsType ==
  ASSUME TypeInv, NEW k \in Child, UpsertFails(k)
  PROVE  TypeInv'
<1>0. TypeOK /\ todo = {}
  BY DEF TypeInv, UpsertFails, Child
<1>1. status' \in [consistent : BOOLEAN, resolved : BOOLEAN, done : BOOLEAN]
  BY StatusType DEF UpsertFails
<1>2. Nothing \in [Principal -> Bytes \cup {None}]
  BY DEF Nothing
<1>3. faults' \in Nat
  BY <1>0 DEF UpsertFails, Fault, TypeOK
<1>4. UNCHANGED <<spec, secret, enabled, edits, owner, roster, keytabs, todo>>
  BY DEF UpsertFails, frame, users, objects
<1>5. blind' \in BOOLEAN /\ labels' \in BOOLEAN /\ moved' \in BOOLEAN
  BY DEF UpsertFails
<1> QED
  BY <1>0, <1>1, <1>2, <1>3, <1>4, <1>5 DEF UpsertFails, TypeInv, TypeOK

(* Every step of the reconciler, of the users and of others keeps the      *)
(* types.                                                                  *)
LEMMA TypeStep == TypeInv /\ [Next]_vars => TypeInv'
<1> SUFFICES ASSUME TypeInv, [Next]_vars PROVE TypeInv'
  OBVIOUS
<1>0. TypeOK /\ (pc # "resolve" => todo = {})
  BY DEF TypeInv
<1> USE <1>0, TenantAssumption DEF TypeInv, users, objects, work, upsert, frame, Fault
<1>1. CASE List
  <2>1. listed' \subseteq Principal /\ read' \in [Principal -> Bytes \cup {None}]
    BY <1>1 DEF List, ListedNow, Nothing
  <2>2. blind' \in BOOLEAN
    BY <1>1 DEF List
  <2>3. faults' \in Nat
    BY <1>1 DEF List, TypeOK
  <2> QED
    BY <1>1, <2>1, <2>2, <2>3 DEF List, TypeOK
<1>2. ASSUME NEW p \in Principal, ResolveKeytab(p) PROVE TypeInv'
  <2>1. blind' \in BOOLEAN
    BY <1>2, Zenon DEF ResolveKeytab, TypeOK
  <2>2. faults' \in Nat
    BY <1>2 DEF ResolveKeytab, TypeOK
  <2> QED
    BY <1>2, <2>1, <2>2 DEF ResolveKeytab, TypeOK
<1>3. CASE AggregateAll
  <2> DEFINE restricted == \E r \in RosterRows(listed, read) : r.sel
  <2>1. restricted \in BOOLEAN
    OBVIOUS
  <2>2. /\ labels' = restricted \/ labels' = FALSE
        /\ faults' = faults \/ faults' = faults + 1
    BY <1>3, Zenon DEF AggregateAll
  <2> HIDE DEF restricted
  <2>3. labels' \in BOOLEAN
    BY <2>1, <2>2, Zenon
  <2>4. faults' \in Nat
    BY <2>2 DEF TypeOK
  <2> QED
    BY <1>3, <2>3, <2>4 DEF AggregateAll, TypeOK, Child
<1>4. ASSUME NEW k \in Child, UpsertOwned(k) PROVE TypeInv'
  <2>1. CASE CreateChild(k) \/ UpdateChild(k)
    BY <2>1, <1>4, PutType DEF CreateChild, UpdateChild
  <2>2. CASE UpsertFails(k)
    BY <2>2, <1>4, UpsertFailsType
  <2>3. CASE GetChild(k) \/ Conflict(k)
    <3>1. moved' \in BOOLEAN
      BY <2>3 DEF GetChild, Conflict
    <3>2. copy' \in {"unread", "none", "tenant", "same", "other"}
      BY <1>4, <2>3 DEF GetChild, Conflict, TypeOK
    <3> QED
      BY <2>3, <3>1, <3>2 DEF GetChild, Conflict, TypeOK
  <2>4. CASE KeepChild(k)
    <3>1. moved' \in BOOLEAN /\ pc' \in Child \cup {"status"} /\ todo = {}
      BY <1>4, <2>4 DEF KeepChild, Upserted, After, Child
    <3> QED
      BY <2>4, <3>1 DEF KeepChild, Upserted, TypeOK, Child
  <2> QED
    BY <1>4, <2>1, <2>2, <2>3, <2>4 DEF UpsertOwned
<1>5. CASE WriteStatus
  <2> DEFINE x == \A p \in listed : ~Duplicated(p, listed)
             y == \A p \in listed : read[p] # None
  <2>1. x \in BOOLEAN /\ y \in BOOLEAN
    OBVIOUS
  <2>2. status' = [consistent |-> x, resolved |-> y, done |-> TRUE] \/ UNCHANGED status
    BY <1>5 DEF WriteStatus
  <2> HIDE DEF x, y
  <2>3. status' \in [consistent : BOOLEAN, resolved : BOOLEAN, done : BOOLEAN]
    <3>1. TRUE \in BOOLEAN
      OBVIOUS
    <3>2. [consistent |-> x, resolved |-> y, done |-> TRUE]
            \in [consistent : BOOLEAN, resolved : BOOLEAN, done : BOOLEAN]
      BY <2>1, <3>1, StatusType, Zenon
    <3> QED
      BY <2>2, <3>2, Zenon DEF TypeOK
  <2>4. read' \in [Principal -> Bytes \cup {None}] /\ blind' \in BOOLEAN /\ labels' \in BOOLEAN
    BY <1>5 DEF WriteStatus, Nothing
  <2>5. faults' \in Nat
    BY <1>5 DEF WriteStatus, TypeOK
  <2> QED
    BY <1>5, <2>3, <2>4, <2>5 DEF WriteStatus, TypeOK
<1>6. CASE Edit
  <2>1. /\ spec' \in [Principal -> {"gone", "live", "off"}]
        /\ secret' \in [Principal -> Bytes \cup {None}]
        /\ edits' \in Nat
    BY <1>6 DEF Edit, TypeOK
  <2>2. enabled' \in BOOLEAN
    BY <1>6 DEF Edit, TypeOK
  <2> QED
    BY <1>6, <2>1, <2>2 DEF Edit, TypeOK
<1>7. ASSUME NEW k \in Child, Foreign(k) PROVE TypeInv'
  <2>1. moved' \in BOOLEAN
    BY <1>7 DEF Foreign
  <2>2. faults' \in Nat
    BY <1>7 DEF Foreign, Fault, TypeOK
  <2>3. PICK o \in {"none", "tenant", "other"} :
          /\ owner' = [owner EXCEPT ![k] = o]
          /\ roster' = roster \/ roster' = [rows |-> {}, labels |-> FALSE]
          /\ keytabs' = keytabs \/ keytabs' = [f \in File |-> None]
    BY <1>7 DEF Foreign
  <2>4. owner' \in [Child -> {"none", "tenant", "other"}]
    BY <2>3 DEF TypeOK
  <2>5. keytabs' \in [File -> Bytes \cup {None}]
    BY <2>3 DEF TypeOK
  <2>6. /\ roster'.rows \subseteq {Row(p) : p \in Principal}
        /\ \A r, s \in roster'.rows : r.uid = s.uid => r = s
    BY <2>3 DEF TypeOK
  <2>7. roster'.labels \in BOOLEAN
    <3>1. roster' = roster => roster'.labels \in BOOLEAN
      BY Zenon DEF TypeOK
    <3>2. roster' = [rows |-> {}, labels |-> FALSE] => roster'.labels \in BOOLEAN
      OBVIOUS
    <3> QED
      BY <2>3, <3>1, <3>2
  <2> QED
    BY <1>7, <2>1, <2>2, <2>4, <2>5, <2>6, <2>7 DEF Foreign, TypeOK
<1>8. CASE UNCHANGED vars
  BY <1>8 DEF vars, TypeOK
<1> QED
  BY <1>1, <1>2, <1>3, <1>4, <1>5, <1>6, <1>7, <1>8 DEF Next, Reconcile

(* The API server tells every writer that came in between by the version:  *)
(* what others do to the child being written is never missed.              *)
LEMMA CopyStep == TypeOK /\ CopyInv /\ [Next]_vars => CopyInv'
<1> SUFFICES ASSUME TypeOK, CopyInv, [Next]_vars PROVE CopyInv'
  OBVIOUS
<1> USE DEF CopyInv, objects, upsert, TypeOK
<1>1. CASE List \/ (\E p \in Principal : ResolveKeytab(p)) \/ AggregateAll \/ WriteStatus
  BY <1>1 DEF List, ResolveKeytab, AggregateAll, WriteStatus, Child
<1>2. ASSUME NEW k \in Child, UpsertOwned(k) PROVE CopyInv'
  BY <1>2 DEF UpsertOwned, GetChild, CreateChild, UpdateChild, KeepChild, Conflict,
              UpsertFails, Put, Upserted
<1>3. CASE Edit
  BY <1>3 DEF Edit
<1>4. ASSUME NEW k \in Child, Foreign(k) PROVE CopyInv'
  <2>1. /\ moved' = (moved \/ (pc = k /\ copy # "unread"))
        /\ pc' = pc /\ copy' = copy
        /\ \A j \in Child \ {k} : owner'[j] = owner[j]
    BY <1>4 DEF Foreign
  <2>2. moved' <=> moved \/ (pc = k /\ copy # "unread")
    BY <2>1
  <2> QED
    BY <2>1, <2>2
<1>5. CASE UNCHANGED vars
  BY <1>5 DEF vars
<1> QED
  BY <1>1, <1>2, <1>3, <1>4, <1>5 DEF Next, Reconcile

(* Between the writes of one reconcile nobody touches what was listed and  *)
(* read, and others do not change the contents of what is the Tenant's.    *)
LEMMA WrittenStep == TypeOK /\ CopyInv /\ WrittenInv /\ [Next]_vars => WrittenInv'
<1> SUFFICES ASSUME TypeOK, CopyInv, WrittenInv, [Next]_vars PROVE WrittenInv'
  OBVIOUS
<1> USE DEF WrittenInv, users, objects, work, upsert, frame, RosterWanted, SecretWanted
<1>1. CASE List \/ (\E p \in Principal : ResolveKeytab(p))
  BY <1>1 DEF List, ResolveKeytab
<1>2. CASE AggregateAll
  BY <1>2 DEF AggregateAll, CopyInv, Child
<1>3. ASSUME NEW k \in Child, UpsertOwned(k) PROVE WrittenInv'
  <2>1. CASE GetChild(k)
    BY <1>3, <2>1 DEF GetChild, Same, Child, TypeOK
  <2>2. CASE CreateChild(k) \/ UpdateChild(k)
    BY <1>3, <2>2 DEF CreateChild, UpdateChild, Put, Upserted, After, Child, TypeOK
  <2>3. CASE KeepChild(k)
    BY <1>3, <2>3 DEF KeepChild, Upserted, After, Child
  <2>4. CASE Conflict(k)
    BY <2>4 DEF Conflict
  <2>5. CASE UpsertFails(k)
    BY <2>5 DEF UpsertFails
  <2> QED
    BY <1>3, <2>1, <2>2, <2>3, <2>4, <2>5 DEF UpsertOwned
<1>4. CASE WriteStatus
  BY <1>4 DEF WriteStatus
<1>5. CASE Edit
  BY <1>5 DEF Edit
<1>6. ASSUME NEW k \in Child, Foreign(k) PROVE WrittenInv'
  BY <1>6 DEF Foreign, Child, TypeOK
<1>7. CASE UNCHANGED vars
  BY <1>7 DEF vars
<1> QED
  BY <1>1, <1>2, <1>3, <1>4, <1>5, <1>6, <1>7 DEF Next, Reconcile

(* What is undisputed stays so while users change nothing. *)
LEMMA UndisputedKept ==
  ASSUME UNCHANGED <<spec, secret, enabled>>, NEW p, Undisputed(p)
  PROVE  Undisputed(p)'
BY DEF Undisputed, Valid

(* A Principal that stays undisputed with one keytab is listed and read    *)
(* undisputed, in whichever order Secrets are read and others are edited.  *)
LEMMA SteadyStep == TypeInv /\ SteadyInv /\ [Next]_vars => SteadyInv'
<1> SUFFICES ASSUME TypeInv, SteadyInv, [Next]_vars PROVE SteadyInv'
  OBVIOUS
<1>0. TypeOK
  BY DEF TypeInv
<1> USE DEF users, objects, work, upsert, frame
<1>1. CASE List
  <2> SUFFICES ASSUME ~blind', NEW p \in steady'
               PROVE  /\ Undisputed(p)'
                      /\ p \in listed' /\ ~Duplicated(p, listed')
                      /\ p \in todo'
                      /\ \A q \in Principal : read'[q] = None
    BY <1>1 DEF SteadyInv, List, Duplicated
  <2>1. /\ UNCHANGED <<spec, secret, enabled>> /\ listed' = ListedNow
        /\ todo' = listed' /\ read' = Nothing
        /\ p \in Principal /\ Undisputed(p)
    BY <1>1 DEF List
  <2>2. /\ enabled /\ spec[p] = "live"
        /\ \A q \in Principal \ {p} : spec[q] = "live" => UidOf[q] # UidOf[p]
    BY <2>1 DEF Undisputed, Valid
  <2> QED
    BY <2>1, <2>2, UndisputedKept DEF ListedNow, Duplicated, Nothing
<1>2. ASSUME NEW x \in Principal, ResolveKeytab(x) PROVE SteadyInv'
  <2> SUFFICES ASSUME ~blind', NEW p \in steady
               PROVE  /\ Undisputed(p)'
                      /\ p \in listed /\ ~Duplicated(p, listed)
                      /\ p \notin todo' => read'[p] = secret[p]
                      /\ \A q \in Principal :
                            FileOf[q] = FileOf[p] => read'[q] \in {None, secret[p]}
    BY <1>2 DEF SteadyInv, ResolveKeytab, Duplicated
  <2>1. /\ UNCHANGED <<spec, secret, enabled>> /\ todo' = todo \ {x}
        /\ pc = "resolve" /\ ~blind /\ read' = [read EXCEPT ![x] = secret[x]]
    BY <1>2, <1>0 DEF ResolveKeytab, TypeOK
  <2>2. /\ Undisputed(p) /\ p \in listed /\ ~Duplicated(p, listed)
        /\ p \notin todo => read[p] = secret[p]
        /\ \A q \in Principal : FileOf[q] = FileOf[p] => read[q] \in {None, secret[p]}
    BY <2>1 DEF SteadyInv
  <2>3. \A q \in Principal : FileOf[q] = FileOf[p] => secret[q] \in {None, secret[p]}
    BY <2>2 DEF Undisputed
  <2>4. p \in Principal
    BY <1>0 DEF TypeOK
  <2> QED
    BY <1>0, <2>1, <2>2, <2>3, <2>4, UndisputedKept DEF TypeOK
<1>3. CASE Edit
  <2> SUFFICES ASSUME pc \in {"resolve", "cm"}, ~blind, NEW p \in steady'
               PROVE  /\ Undisputed(p)'
                      /\ p \in listed /\ ~Duplicated(p, listed)
                      /\ p \notin todo => read[p] = secret'[p]
                      /\ \A q \in Principal :
                            FileOf[q] = FileOf[p] => read[q] \in {None, secret'[p]}
    BY <1>3 DEF SteadyInv, Edit, Duplicated
  <2>1. p \in steady /\ Undisputed(p)' /\ secret'[p] = secret[p]
    BY <1>3 DEF Edit
  <2> QED
    BY <2>1 DEF SteadyInv
<1>4. CASE WriteStatus
  BY <1>4 DEF SteadyInv, WriteStatus
<1>5. ASSUME NEW k \in Child, CreateChild(k) \/ UpdateChild(k) \/ KeepChild(k) \/ UpsertFails(k)
      PROVE  SteadyInv'
  BY <1>5 DEF SteadyInv, CreateChild, UpdateChild, KeepChild, Put, Upserted, After, Child,
              UpsertFails
<1>6. ASSUME UNCHANGED <<spec, secret, enabled, listed, todo, read, steady, blind>>,
             pc' = pc \/ (pc = "resolve" /\ pc' = "cm")
      PROVE  SteadyInv'
  BY <1>6, UndisputedKept DEF SteadyInv, Duplicated
<1>7. CASE AggregateAll
  BY <1>6, <1>7 DEF AggregateAll
<1>8. ASSUME NEW k \in Child, GetChild(k) \/ Conflict(k) \/ Foreign(k) PROVE SteadyInv'
  BY <1>6, <1>8 DEF GetChild, Conflict, Foreign
<1>9. CASE UNCHANGED vars
  BY <1>6, <1>9 DEF vars
<1> QED
  BY <1>1, <1>2, <1>3, <1>4, <1>5, <1>7, <1>8, <1>9 DEF Next, Reconcile, UpsertOwned

(* The invariant holds in every reachable state. *)
LEMMA Invariance == Spec => []IInv
<1>1. IInv /\ [Next]_vars => IInv'
  BY TypeStep, CopyStep, WrittenStep, SteadyStep DEF IInv, TypeInv
<1> QED
  BY <1>1, IInvInit, PTL DEF Spec

-----------------------------------------------------------------------------
(* Every variable keeps its type, and the roster that is stored never has  *)
(* two rows with one UID, whatever users create and in whichever order.    *)
THEOREM TypeCorrect == Spec => []TypeOK
<1>1. IInv => TypeOK
  BY DEF IInv, TypeInv
<1> QED
  BY <1>1, Invariance, PTL

(* Aggregate, buildRosterCMData and upsertOwnedSecret: every row a         *)
(* reconcile has written is backed by its own Principal's bytes, whatever  *)
(* UIDs and file names Principals share and whatever others did before.    *)
THEOREM RowsServedByOwnKeytabCorrect == Spec => []RowsServedByOwnKeytab
<1>1. IInv => RowsServedByOwnKeytab
  <2> SUFFICES ASSUME IInv, pc \in {"role", "binding", "ds", "status"},
                      owner["cm"] = "tenant", owner["secret"] = "tenant", NEW p \in listed,
                      Row(p) \in roster.rows, ~Duplicated(p, listed)
               PROVE  keytabs[FileOf[p]] = read[p] /\ read[p] # None
    BY DEF RowsServedByOwnKeytab
  <2>1. /\ roster.rows = RosterRows(listed, read) /\ keytabs = KeytabData(listed, read)
        /\ listed \in SUBSET Principal
    BY DEF IInv, TypeInv, TypeOK, WrittenInv
  <2>2. p \in Included(listed, read)
    BY <2>1, RowOwner
  <2> QED
    BY <2>1, <2>2, IncludedServed
<1> QED
  BY <1>1, Invariance, PTL

(* upsertOwned: no step of a reconcile, failed ones included, changes an   *)
(* object of the Tenant's name that is somebody else's at that moment,     *)
(* whoever owned it, if anybody, when the reconcile got it.                *)
THEOREM NeverClobbersCorrect == Spec => NeverClobbers
<1>1. ASSUME IInv, Reconcile
      PROVE  /\ \A k \in Child : owner[k] = "other" => owner'[k] = "other"
             /\ owner["cm"] = "other" => roster' = roster
             /\ owner["secret"] = "other" => keytabs' = keytabs
  <2>0. TypeOK /\ CopyInv
    BY <1>1 DEF IInv, TypeInv
  <2>1. CASE List \/ (\E p \in Principal : ResolveKeytab(p)) \/ AggregateAll \/ WriteStatus
    BY <2>1 DEF List, ResolveKeytab, AggregateAll, WriteStatus, objects
  <2>2. ASSUME NEW k \in Child, CreateChild(k) \/ UpdateChild(k)
        PROVE  owner[k] # "other" /\ Put(k)
    BY <2>0, <2>2 DEF CreateChild, UpdateChild, CopyInv
  <2>3. ASSUME NEW k \in Child, owner[k] # "other", Put(k)
        PROVE  /\ \A j \in Child : owner[j] = "other" => owner'[j] = "other"
               /\ owner["cm"] = "other" => roster' = roster
               /\ owner["secret"] = "other" => keytabs' = keytabs
    BY <2>0, <2>3 DEF Put, TypeOK, Child
  <2>4. ASSUME NEW k \in Child, GetChild(k) \/ KeepChild(k) \/ Conflict(k) \/ UpsertFails(k)
        PROVE  UNCHANGED objects
    BY <2>4 DEF GetChild, KeepChild, Conflict, UpsertFails
  <2> QED
    BY <1>1, <2>1, <2>2, <2>3, <2>4 DEF Reconcile, UpsertOwned, objects
<1> QED
  BY <1>1, Invariance, PTL DEF NeverClobbers

(* A roster written from reads that all succeeded has the row of every     *)
(* Principal that was undisputed since the reconcile began: what other     *)
(* users do between its reads never takes one out.                         *)
THEOREM ValidKeptCorrect == Spec => ValidKept
<1>1. ASSUME IInv, pc = "cm", ~blind, NEW p \in steady
      PROVE  Row(p) \in RosterRows(listed, read)
  <2>1. /\ listed \in SUBSET Principal /\ p \in listed /\ ~Duplicated(p, listed)
        /\ Undisputed(p) /\ read[p] = secret[p]
        /\ \A q \in Principal : FileOf[q] = FileOf[p] => read[q] \in {None, secret[p]}
    BY <1>1 DEF IInv, TypeInv, TypeOK, SteadyInv
  <2>2. read[p] # None
    BY <2>1 DEF Undisputed, Valid
  <2>3. p \in Candidates(listed, read)
    BY <2>1, <2>2 DEF Candidates
  <2>4. ~Collides(p, listed, read)
    BY <2>1 DEF Collides, Candidates
  <2> QED
    BY <2>3, <2>4 DEF Included, RosterRows
<1>2. ASSUME Reconcile, pc = "cm"
      PROVE  roster' = roster \/ roster'.rows = RosterRows(listed, read)
  <2>1. PICK k \in Child : UpsertOwned(k)
    BY <1>2 DEF Reconcile, List, ResolveKeytab, AggregateAll, WriteStatus
  <2> QED
    BY <2>1 DEF UpsertOwned, GetChild, CreateChild, UpdateChild, KeepChild, Conflict,
                UpsertFails, Put, RosterWanted, objects
<1>3. ASSUME IInv
      PROVE  Reconcile /\ pc = "cm" /\ ~blind =>
                \A p \in steady : Row(p) \in roster.rows => Row(p) \in roster'.rows
  BY <1>1, <1>2, <1>3
<1> QED
  BY <1>3, Invariance, PTL DEF ValidKept
=============================================================================
