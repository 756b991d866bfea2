---------------------------- MODULE StatusProofs ----------------------------
(* What the status machinery of module Status guarantees for every cluster *)
(* of finitely many nodes, every staleness and TTL, and every bound.       *)
EXTENDS Status, FiniteSetTheorems, TLAPS

NodeStatus == [reason : Reason \cup {"podReadiness"}, at : Nat, life : Nat]
NodeMap == UNION {[D -> NodeStatus] : D \in SUBSET Pod}
Object == [life : Nat, disabled : BOOLEAN, cond : Conditions, nodes : NodeMap]
Work == [nodes : NodeMap, desired : Nat, ready : Nat, daemons : Nat,
         tenant : {"none", "enabled", "disabled"}, guess : BOOLEAN]

(* TypeOK with the types of whole objects and of the history. *)
TypeInv ==
    /\ TypeOK
    /\ {obj, seen} \subseteq Object /\ work \in Work
    /\ taken \subseteq Event
    /\ IsFiniteSet(leaving)

(* An ingested Event is past its TTL, or the cache has one of its pod that *)
(* is no older.                                                            *)
CacheInv ==
    \A e \in taken :
        e.at + TTL < clock \/ \E o \in cache : o.pod = e.pod /\ o.at >= e.at

(* A set of entries that report a mint stands behind the ready count. *)
WorkInv ==
    ~work.guess => \E S \in SUBSET DOMAIN work.nodes :
        /\ Cardinality(S) = work.ready
        /\ \A n \in S : work.nodes[n].reason = "Minted"

(* A copy with the current version is the current object. *)
CopyInv == current => seen = obj

IInv == TypeInv /\ CacheInv /\ WorkInv /\ CopyInv

-----------------------------------------------------------------------------
(* Counting nodes gives a natural number: spec.nodeSelector and the        *)
(* DaemonSet select among finitely many.                                   *)
LEMMA NodeCounts == \A S \in SUBSET Node : IsFiniteSet(S) /\ Cardinality(S) \in Nat
BY StatusAssumption, FS_Subset, FS_CardinalityType

(* The status of no node is a node map. *)
LEMMA EmptyMap == <<>> \in NodeMap /\ DOMAIN <<>> = {}
<1>1. <<>> = [n \in {} |-> n] /\ DOMAIN <<>> = {}
  OBVIOUS
<1>2. <<>> \in [{} -> NodeStatus]
  BY <1>1
<1> QED
  BY <1>1, <1>2 DEF NodeMap

(* FetchTenantHealth lists finitely many pods. *)
LEMMA ListedType ==
  ASSUME TypeInv
  PROVE  Listed \in SUBSET Pod /\ IsFiniteSet(Listed)
<1> DEFINE f == [n \in up |-> <<n, pod[n]>>]
           running == {<<n, pod[n]>> : n \in up}
<1>1. up \subseteq Node /\ pod \in [Node -> Nat] /\ leaving \subseteq Pod /\ IsFiniteSet(leaving)
  BY DEF TypeInv, TypeOK
<1>2. running \in SUBSET Pod
  BY <1>1 DEF Pod
<1>3. IsFiniteSet(up)
  BY <1>1, NodeCounts
<1>4. f \in Surjection(up, running)
  BY DEF Surjection
<1>5. IsFiniteSet(running)
  BY <1>3, <1>4, FS_Surjection, Zenon
<1>6. Listed = running \cup leaving
  BY DEF Listed
<1>7. IsFiniteSet(running \cup leaving)
  BY <1>1, <1>5, FS_Union
<1> QED
  BY <1>1, <1>2, <1>6, <1>7

(* BuildNodeStatuses yields one well-formed entry for each listed pod. *)
LEMMA NodeStatusesType ==
  ASSUME TypeInv, NEW by \in PodByNode
  PROVE  NodeStatuses(by) \in NodeMap /\ DOMAIN NodeStatuses(by) = Listed
<1> USE DEF TypeInv, TypeOK
<1>1. ASSUME NEW p \in Listed PROVE NodeStatuses(by)[p] \in NodeStatus
  <2> DEFINE q == by[p[1]]
  <2>1. CASE Fresh(q) # {}
    <3>1. (CHOOSE o \in Fresh(q) : TRUE) \in Event
      BY <2>1 DEF Fresh
    <3> QED
      BY <2>1, <3>1 DEF NodeStatuses, NodeStatus, Event
  <2>2. CASE Fresh(q) = {}
    BY <2>2 DEF NodeStatuses, NodeStatus
  <2> QED
    BY <2>1, <2>2
<1>2. NodeStatuses(by) \in [Listed -> NodeStatus]
  BY <1>1 DEF NodeStatuses
<1>3. Listed \in SUBSET Pod
  BY ListedType
<1> QED
  BY <1>2, <1>3 DEF NodeMap

(* principalHealth: the counts are numbers, and as many entries as it      *)
(* calls ready have a mint in the statuses it publishes.                   *)
LEMMA HealthType ==
  ASSUME TypeInv, NEW by \in PodByNode
  PROVE  /\ Health(by) \in Work
         /\ \E S \in SUBSET DOMAIN Health(by).nodes :
               /\ Cardinality(S) = Health(by).ready
               /\ \A p \in S : Health(by).nodes[p].reason = "Minted"
<1> DEFINE N == NodeStatuses(by)
           S == {p \in DOMAIN N : p[1] \in EligibleNodes /\ N[p].reason = "Minted"}
<1>1. N \in NodeMap /\ DOMAIN N = Listed
  BY NodeStatusesType
<1>2. S \in SUBSET DOMAIN N
  OBVIOUS
<1>3. ReadyCount(N) = Cardinality(S)
  BY DEF ReadyCount
<1>4. ReadyCount(N) \in Nat
  <2>1. IsFiniteSet(S)
    BY <1>1, <1>2, ListedType, FS_Subset
  <2> QED
    BY <1>3, <2>1, FS_CardinalityType
<1>5. DesiredNodes \in Nat
  BY NodeCounts, StatusAssumption DEF DesiredNodes, TypeInv, TypeOK
<1> HIDE DEF N
<1>6. Health(by) = [nodes |-> N, desired |-> DesiredNodes, ready |-> ReadyCount(N),
                    daemons |-> desired, tenant |-> tenant, guess |-> FALSE]
  BY DEF Health, N
<1>7. Health(by) \in Work
  BY <1>1, <1>4, <1>5, <1>6 DEF Work, TypeInv, TypeOK
<1>8. Health(by).nodes = N /\ Health(by).ready = Cardinality(S)
  BY <1>3, <1>6
<1>9. /\ S \in SUBSET DOMAIN Health(by).nodes
      /\ Cardinality(S) = Health(by).ready
      /\ \A p \in S : Health(by).nodes[p].reason = "Minted"
  BY <1>2, <1>8
<1> QED
  BY <1>7, <1>9

(* So it is when nodes cannot be listed, except that nothing stands behind *)
(* the ready count.                                                        *)
LEMMA GuessType ==
  ASSUME TypeInv, NEW by \in PodByNode, NEW r \in 0..Cardinality(up)
  PROVE  GuessedHealth(by, r) \in Work /\ GuessedHealth(by, r).guess = TRUE
<1>1. r \in Nat /\ desired \in Nat
  BY NodeCounts DEF TypeInv, TypeOK
<1> QED
  BY <1>1, HealthType DEF GuessedHealth, Work

(* Every case of the Ready condition is a condition. *)
LEMMA ConditionType == \A w, dis : Condition(w, dis) \in Conditions
BY DEF Condition, Conditions

-----------------------------------------------------------------------------
(* An operator that has just started, in a cluster without daemon pods and *)
(* without this Principal, satisfies the invariant.                        *)
LEMMA IInvInit == Init => IInv
<1> SUFFICES ASSUME Init PROVE IInv
  OBVIOUS
<1>1. NoObj \in Object /\ NoWork \in Work
  BY EmptyMap DEF NoObj, NoWork, Object, Work, Conditions
<1>2. desired \in Nat
  BY NodeCounts DEF Init
<1>3. TypeOK
  BY <1>1, <1>2, EmptyMap DEF Init, TypeOK, Object, Work, Conditions, NoObj, NoWork
<1>4. TypeInv
  BY <1>1, <1>3, FS_EmptySet DEF Init, TypeInv
<1>5. WorkInv
  <2>1. Cardinality({}) = 0
    BY FS_EmptySet
  <2> QED
    BY <2>1 DEF WorkInv, Init, NoWork
<1> QED
  BY <1>4, <1>5 DEF IInv, Init, CacheInv, CopyInv

(* Every step keeps the types. *)
LEMMA TypeStep == TypeInv /\ [Next]_vars => TypeInv'
<1> SUFFICES ASSUME TypeInv, [Next]_vars PROVE TypeInv'
  OBVIOUS
<1>a. NoObj \in Object /\ NoWork \in Work
  BY EmptyMap DEF NoObj, NoWork, Object, Work, Conditions
<1>b. \A f \in NodeMap : DOMAIN f \subseteq Pod
  BY DEF NodeMap
<1> USE <1>a, <1>b, StatusAssumption
    DEF TypeInv, TypeOK, api, bounds, Chaos, ingestFrame, publishFrame, podFrame,
        userFrame, Trigger
<1>1. CASE StartReconcile
  <2>1. work' \in Work
    BY <1>1, HealthType, GuessType DEF StartReconcile
  <2>2. work'.guess \in BOOLEAN
    BY <2>1 DEF Work
  <2>3. dirty' \in BOOLEAN
    BY <1>1 DEF StartReconcile
  <2>4. pc' \in {"idle", "publish"} /\ chaos' \in Nat
    BY <1>1 DEF StartReconcile
  <2> QED
    BY <1>1, <2>1, <2>2, <2>3, <2>4 DEF StartReconcile
<1>2. CASE WriteStatus
  <2>1. /\ work.nodes \in NodeMap
        /\ Condition(work, seen.disabled) \in Conditions
        /\ seen \in Object
    BY ConditionType DEF Work
  <2>2. obj' \in Object
    BY <1>2, <2>1 DEF WriteStatus, Object
  <2>3. current' \in BOOLEAN
    BY <1>2, Zenon DEF WriteStatus
  <2> QED
    BY <1>2, <2>2, <2>3 DEF WriteStatus, Object, Work
<1>3. CASE StatusConflict \/ StatusGone
  BY <1>3 DEF StatusConflict, StatusGone, Work
<1>4. ASSUME NEW e \in events, Ingest(e) PROVE TypeInv'
  BY <1>4 DEF Ingest, Put
<1>5. ASSUME NEW e \in events, IngestFails(e) PROVE TypeInv'
  BY <1>5 DEF IngestFails
<1>6. CASE GC
  BY <1>6 DEF GC
<1>7. CASE InformerSync \/ Resync
  BY <1>7 DEF InformerSync, Resync
<1>8. ASSUME NEW n \in Node, PodStart(n) \/ PodEnd(n) PROVE TypeInv'
  <2>1. dirty' \in BOOLEAN
    BY <1>8, Zenon DEF PodStart, PodEnd
  <2>2. pod' \in [Node -> Nat] /\ up' \subseteq Node /\ chaos' \in Nat
    BY <1>8 DEF PodStart, PodEnd
  <2>3. leaving' \subseteq Pod /\ IsFiniteSet(leaving')
    <3>1. <<n, pod[n]>> \in Pod
      BY DEF Pod
    <3>2. leaving' = leaving \/ leaving' = leaving \cup {<<n, pod[n]>>}
      BY <1>8 DEF PodStart, PodEnd
    <3>3. IsFiniteSet(leaving \cup {<<n, pod[n]>>})
      BY FS_AddElement
    <3> QED
      BY <3>1, <3>2, <3>3
  <2> QED
    BY <1>8, <2>1, <2>2, <2>3 DEF PodStart, PodEnd
<1>17. ASSUME NEW p \in leaving, PodGone(p) PROVE TypeInv'
  <2>1. dirty' \in BOOLEAN
    BY <1>17, Zenon DEF PodGone
  <2>2. leaving' \subseteq leaving /\ IsFiniteSet(leaving')
    BY <1>17, FS_Subset DEF PodGone
  <2> QED
    BY <1>17, <2>1, <2>2 DEF PodGone
<1>9. ASSUME NEW n \in Node, NEW r \in Reason, Post(n, r) PROVE TypeInv'
  BY <1>9 DEF Post, Event, Pod, Object
<1>10. CASE Create
  <2>0. chaos' \in Nat /\ lives' \in Nat
    BY <1>10 DEF Create
  <2>1. obj' \in Object
    BY <1>10, <2>0 DEF Create, Object
  <2>2. current' \in BOOLEAN
    BY <1>10 DEF Create
  <2> QED
    BY <1>10, <2>0, <2>1, <2>2 DEF Create, Object
<1>11. CASE SetDisabled
  <2>0. chaos' \in Nat /\ (~obj.disabled) \in BOOLEAN
    BY <1>11 DEF SetDisabled
  <2>1. obj' \in Object
    BY <1>11, <2>0 DEF SetDisabled, Object
  <2>2. current' \in BOOLEAN
    BY <1>11 DEF SetDisabled
  <2> QED
    BY <1>11, <2>0, <2>1, <2>2 DEF SetDisabled, Object
<1>12. CASE Remove
  <2>1. obj' \in Object /\ chaos' \in Nat /\ lives' \in Nat
    BY <1>12 DEF Remove, Object
  <2>2. current' \in BOOLEAN
    BY <1>12 DEF Remove
  <2> QED
    BY <1>12, <2>1, <2>2 DEF Remove, EvictUID, Object
<1>13. ASSUME NEW t \in {"none", "enabled", "disabled"}, EditTenant(t) PROVE TypeInv'
  BY <1>13 DEF EditTenant
<1>14. CASE OperatorRestart
  BY <1>14 DEF OperatorRestart, Object, Work
<1>15. CASE Tick
  BY <1>15 DEF Tick
<1>16. CASE UNCHANGED vars
  BY <1>16 DEF vars
<1> QED
  BY <1>1, <1>2, <1>3, <1>4, <1>5, <1>6, <1>7, <1>8, <1>9, <1>10, <1>11, <1>12, <1>13,
     <1>14, <1>15, <1>16, <1>17 DEF Next, Reconciler, Ingester, Pods, Users

(* Ingesting keeps an observation that is no older than what was ingested: *)
(* Put discards the older one, and an Event is only uncovered by GC once   *)
(* it is past its TTL.                                                     *)
LEMMA CacheStep == TypeInv /\ CacheInv /\ [Next]_vars => CacheInv'
<1> SUFFICES ASSUME TypeInv, CacheInv, [Next]_vars PROVE CacheInv'
  OBVIOUS
<1>a. /\ clock \in Nat /\ TTL \in Nat /\ cache \subseteq taken
      /\ \A e \in taken \cup events : e \in Event /\ e.at \in Nat
  BY StatusAssumption DEF TypeInv, TypeOK, Event
<1> USE <1>a DEF CacheInv, api, bounds, Chaos, ingestFrame, publishFrame, podFrame,
        userFrame
<1>1. ASSUME NEW e \in events, Ingest(e) PROVE CacheInv'
  <2> SUFFICES ASSUME NEW x \in taken', ~(x.at + TTL < clock')
               PROVE  \E o \in cache' : o.pod = x.pod /\ o.at >= x.at
    OBVIOUS
  <2>1. clock' = clock /\ taken' = taken \cup {e} /\ cache' = Put(e)
    BY <1>1 DEF Ingest
  <2>2. CASE x = e
    BY <2>1, <2>2 DEF Put
  <2>3. CASE x # e
    <3>1. PICK o \in cache : o.pod = x.pod /\ o.at >= x.at
      BY <2>1, <2>3
    <3>2. CASE o \in Put(e)
      BY <2>1, <3>1, <3>2
    <3>3. CASE o \notin Put(e)
      BY <2>1, <2>3, <3>1, <3>3 DEF Put
    <3> QED
      BY <3>2, <3>3
  <2> QED
    BY <2>2, <2>3
<1>2. CASE GC
  <2> SUFFICES ASSUME NEW x \in taken, ~(x.at + TTL < clock)
               PROVE  \E o \in cache' : o.pod = x.pod /\ o.at >= x.at
    BY <1>2 DEF GC
  <2>1. PICK o \in cache : o.pod = x.pod /\ o.at >= x.at
    OBVIOUS
  <2>2. o.at + TTL >= clock
    BY <2>1
  <2> QED
    BY <1>2, <2>1, <2>2 DEF GC
<1>3. CASE Remove \/ OperatorRestart
  BY <1>3 DEF Remove, EvictUID, OperatorRestart
<1>4. CASE Tick
  <2> SUFFICES ASSUME NEW x \in taken, ~(x.at + TTL < clock')
               PROVE  \E o \in cache : o.pod = x.pod /\ o.at >= x.at
    BY <1>4 DEF Tick
  <2>1. clock' = clock + 1
    BY <1>4 DEF Tick
  <2> QED
    BY <2>1
<1>5. ASSUME UNCHANGED <<cache, taken, clock>> PROVE CacheInv'
  BY <1>5
<1>6. ASSUME Reconciler \/ InformerSync \/ Resync \/ Pods
             \/ (\E e \in events : IngestFails(e)) \/ UNCHANGED vars
      PROVE  UNCHANGED <<cache, taken, clock>>
  BY <1>6 DEF Reconciler, StartReconcile, WriteStatus, StatusConflict, StatusGone,
              InformerSync, Resync, Pods, PodStart, PodEnd, PodGone, Post, IngestFails, vars
<1>7. ASSUME Create \/ SetDisabled
             \/ (\E t \in {"none", "enabled", "disabled"} : EditTenant(t))
      PROVE  UNCHANGED <<cache, taken, clock>>
  BY <1>7 DEF Create, SetDisabled, EditTenant
<1> QED
  BY <1>1, <1>2, <1>3, <1>4, <1>5, <1>6, <1>7 DEF Next, Ingester, Users

(* publishStatus carries the mints behind its count to the write, and a    *)
(* copy is current only while nobody has written the object.               *)
LEMMA WorkStep == IInv /\ [Next]_vars => WorkInv' /\ CopyInv'
<1> SUFFICES ASSUME IInv, [Next]_vars PROVE WorkInv' /\ CopyInv'
  OBVIOUS
<1>a. NoWork.nodes = <<>> /\ NoWork.ready = 0 /\ Cardinality({}) = 0
  BY FS_EmptySet DEF NoWork
<1>b. WorkInv /\ CopyInv /\ TypeInv
  BY DEF IInv
<1>c. ASSUME work' = NoWork PROVE WorkInv'
  <2>1. /\ {} \in SUBSET DOMAIN work'.nodes
        /\ Cardinality({}) = work'.ready
        /\ \A n \in {} : work'.nodes[n].reason = "Minted"
    BY <1>a, <1>c
  <2> QED
    BY <2>1 DEF WorkInv
<1>d. ASSUME UNCHANGED work PROVE WorkInv'
  BY <1>b, <1>d DEF WorkInv
<1> USE <1>b DEF CopyInv, api, bounds, Chaos, ingestFrame, publishFrame, podFrame, userFrame
<1>1. CASE StartReconcile
  <2>1. ASSUME NEW by \in PodByNode, work' = Health(by) PROVE WorkInv'
    BY <2>1, HealthType DEF WorkInv
  <2>2. ASSUME NEW by \in PodByNode, NEW r \in 0..Cardinality(up),
               work' = GuessedHealth(by, r)
        PROVE  WorkInv'
    BY <2>2, GuessType DEF WorkInv
  <2>3. UNCHANGED work \/ \E by \in PodByNode :
          work' = Health(by) \/ \E r \in 0..Cardinality(up) : work' = GuessedHealth(by, r)
    BY <1>1 DEF StartReconcile
  <2>4. UNCHANGED <<current, seen, obj>>
    BY <1>1 DEF StartReconcile
  <2> QED
    BY <1>d, <2>1, <2>2, <2>3, <2>4
<1>2. CASE WriteStatus
  BY <1>c, <1>2 DEF WriteStatus
<1>3. CASE StatusConflict \/ StatusGone
  BY <1>c, <1>d, <1>3 DEF StatusConflict, StatusGone
<1>4. CASE Ingester \/ GC \/ InformerSync \/ Resync \/ Tick
  BY <1>d, <1>4 DEF Ingester, Ingest, IngestFails, GC, InformerSync, Resync, Tick
<1>5. CASE Pods
  BY <1>d, <1>5 DEF Pods, PodStart, PodEnd, PodGone, Post
<1>6. CASE Users
  BY <1>d, <1>6 DEF Users, Create, SetDisabled, Remove, EditTenant
<1>7. CASE OperatorRestart
  BY <1>c, <1>7 DEF OperatorRestart
<1>8. CASE UNCHANGED vars
  BY <1>d, <1>8 DEF vars
<1> QED
  BY <1>1, <1>2, <1>3, <1>4, <1>5, <1>6, <1>7, <1>8 DEF Next, Reconciler

(* The invariant holds in every reachable state. *)
LEMMA Invariance == Spec => []IInv
<1>1. IInv /\ [Next]_vars => IInv'
  BY TypeStep, CacheStep, WorkStep DEF IInv
<1> QED
  BY <1>1, IInvInit, PTL DEF Spec

-----------------------------------------------------------------------------
(* Every variable keeps its type, and the cache one observation per pod,   *)
(* whatever order Events, writes, restarts and users come in.              *)
THEOREM TypeCorrect == Spec => []TypeOK
<1>1. IInv => TypeOK
  BY DEF IInv, TypeInv
<1> QED
  BY <1>1, Invariance, PTL

(* Cache.Put and GC: for every TTL and every order of delivery, an         *)
(* observation that has not aged out is the newest one ingested of its     *)
(* pod.                                                                    *)
THEOREM CacheIsNewestCorrect == Spec => []CacheIsNewest
<1>1. IInv => CacheIsNewest
  <2> SUFFICES ASSUME IInv, NEW o \in cache, NEW e \in taken,
                      o.pod = e.pod, o.at + TTL >= clock
               PROVE  o.at >= e.at
    BY DEF CacheIsNewest
  <2>1. /\ o.at \in Nat /\ e.at \in Nat /\ TTL \in Nat /\ clock \in Nat
        /\ \A p \in cache : p.pod = o.pod => p = o
    BY StatusAssumption DEF IInv, TypeInv, TypeOK, Event
  <2>2. e.at + TTL < clock \/ o.at >= e.at
    BY <2>1 DEF IInv, CacheInv
  <2> QED
    BY <2>1, <2>2
<1> QED
  BY <1>1, Invariance, PTL

(* publishStatus reads spec.disabled and writes the condition through one  *)
(* resourceVersion: no step of anybody turns a disabled Principal Ready.   *)
THEOREM NeverReadyWhileDisabledCorrect == Spec => NeverReadyWhileDisabled
<1>1. ASSUME IInv, [Next]_vars
      PROVE  obj'.cond = "AllDaemonsReady" /\ obj'.cond # obj.cond => ~obj'.disabled
  <2>a. obj \in Object /\ seen \in Object
    BY <1>1 DEF IInv, TypeInv
  <2> USE DEF api, bounds, Chaos, ingestFrame, publishFrame, podFrame, userFrame
  <2>1. CASE WriteStatus
    <3>1. obj'.cond = Condition(work, seen.disabled) /\ obj'.disabled = seen.disabled
      BY <2>a, <2>1 DEF WriteStatus, Object
    <3> QED
      BY <3>1 DEF Condition
  <2>2. CASE Create
    BY <2>2 DEF Create, NoObj
  <2>3. CASE SetDisabled
    BY <2>a, <2>3 DEF SetDisabled, Object
  <2>4. CASE Remove
    BY <2>4 DEF Remove, NoObj
  <2>5. CASE StartReconcile \/ StatusConflict \/ StatusGone
    BY <2>5 DEF StartReconcile, StatusConflict, StatusGone
  <2>6. CASE Ingester \/ GC \/ InformerSync \/ Resync \/ Tick \/ OperatorRestart
    BY <2>6 DEF Ingester, Ingest, IngestFails, GC, InformerSync, Resync, Tick, OperatorRestart
  <2>7. CASE Pods
    BY <2>7 DEF Pods, PodStart, PodEnd, PodGone, Post
  <2>8. ASSUME NEW t \in {"none", "enabled", "disabled"}, EditTenant(t)
        PROVE  UNCHANGED obj
    BY <2>8 DEF EditTenant
  <2>9. CASE UNCHANGED vars
    BY <2>9 DEF vars
  <2> QED
    BY <1>1, <2>1, <2>2, <2>3, <2>4, <2>5, <2>6, <2>7, <2>8, <2>9 DEF Next, Reconciler, Users
<1> QED
  BY <1>1, Invariance, PTL DEF Spec, NeverReadyWhileDisabled

(* principalHealth: a Ready condition that was not guessed from pod counts *)
(* is written together with a non-empty set of at least desired entries    *)
(* that say Minted, whatever happened since they were counted.             *)
THEOREM ReadyIsEarnedCorrect == Spec => ReadyIsEarned
<1> DEFINE Earned ==
      (pc = "publish" /\ pc' = "idle" /\ ~work.guess /\ obj' # obj
            /\ obj'.cond = "AllDaemonsReady")
         => \E S \in SUBSET DOMAIN obj'.nodes :
                /\ S # {} /\ Cardinality(S) >= work.desired
                /\ \A p \in S : obj'.nodes[p].reason = "Minted"
<1>1. ASSUME IInv, [Next]_vars PROVE Earned
  <2> SUFFICES ASSUME pc = "publish", pc' = "idle", ~work.guess, obj' # obj,
                      obj'.cond = "AllDaemonsReady"
               PROVE  \E S \in SUBSET DOMAIN obj'.nodes :
                         /\ S # {} /\ Cardinality(S) >= work.desired
                         /\ \A p \in S : obj'.nodes[p].reason = "Minted"
    OBVIOUS
  <2> USE DEF api, bounds, Chaos, ingestFrame, publishFrame, podFrame, userFrame
  <2>1. WriteStatus
    <3>1. ~StartReconcile /\ ~StatusConflict /\ ~StatusGone
      BY DEF StartReconcile, StatusConflict, StatusGone
    <3>2. ~Ingester /\ ~GC /\ ~InformerSync /\ ~Resync /\ ~Tick /\ ~OperatorRestart
      BY DEF Ingester, Ingest, IngestFails, GC, InformerSync, Resync, Tick, OperatorRestart
    <3>3. ~Pods
      BY DEF Pods, PodStart, PodEnd, PodGone, Post
    <3>4. ~Users
      BY DEF Users, Create, SetDisabled, Remove, EditTenant
    <3>5. vars' # vars
      BY DEF vars
    <3> QED
      BY <1>1, <3>1, <3>2, <3>3, <3>4, <3>5 DEF Next, Reconciler
  <2>2. seen \in Object /\ work \in Work
    BY <1>1 DEF IInv, TypeInv
  <2>3. obj'.nodes = work.nodes /\ Condition(work, seen.disabled) = "AllDaemonsReady"
    BY <2>1, <2>2 DEF WriteStatus, Object
  <2>4. work.desired # 0 /\ ~(work.ready < work.desired)
    BY <2>3 DEF Condition
  <2>5. PICK S \in SUBSET DOMAIN work.nodes :
           Cardinality(S) = work.ready /\ \A p \in S : work.nodes[p].reason = "Minted"
    BY <1>1 DEF IInv, WorkInv
  <2>6. work.ready >= work.desired /\ work.ready # 0
    BY <2>2, <2>4 DEF Work
  <2>7. S # {}
    BY <2>5, <2>6, FS_EmptySet
  <2> QED
    BY <2>3, <2>5, <2>6, <2>7
<1> QED
  BY <1>1, Invariance, PTL DEF Spec, ReadyIsEarned
=============================================================================
