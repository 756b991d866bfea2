------------------------------- MODULE Status -------------------------------
(***************************************************************************)
(* The status of a live Principal: the EventReconciler that ingests the    *)
(* daemons' Events into a cache (operator/internal/events), and path A of  *)
(* PrincipalReconciler, which mixes that cache with the DaemonSet's pods,  *)
(* derives the Ready condition and writes it back                          *)
(* (operator/internal/controller/principal_finalizer.go).                  *)
(*                                                                         *)
(* One Principal (one UID).  The operator reads it through an informer     *)
(* that lags behind the API server; writes are refused when the copy read  *)
(* is not the current version.  Both controllers are triggered by the same *)
(* Event and run in either order.                                          *)
(***************************************************************************)
EXTENDS Naturals, FiniteSets

CONSTANTS
    Node,        \* nodes of the cluster; each may run a daemon pod
    Selected,    \* nodes whose labels match the Principal's nodeSelector
    Restricted,  \* the Principal has a nodeSelector
    Reason,      \* event reasons the daemons post (short form)
    Staleness,   \* ResolveStaleness(tenant), in clock ticks
    TTL,         \* Cache.ttl
    MaxClock,    \* bound: clock
    MaxPosts,    \* bound: Events posted
    MaxLives,    \* bound: creations of the Principal
    MaxChaos     \* bound: edits, pod ends, failed reads, operator restarts

ASSUME StatusAssumption ==
    /\ IsFiniteSet(Node) /\ Node # {}
    /\ Selected \subseteq Node
    /\ Restricted \in BOOLEAN
    /\ "Minted" \in Reason
    /\ {Staleness, TTL, MaxClock, MaxPosts, MaxLives, MaxChaos} \subseteq Nat

VARIABLES
    (* API server *)
    obj,      \* the Principal: life, disabled, cond, nodes
    tenant,   \* "none" (or its DaemonSet missing), "enabled", "disabled"
    desired,  \* DaemonSet status.desiredNumberScheduled
    up,       \* nodes with a daemon pod that runs
    leaving,  \* ended daemon pods that are still listed
    pod,      \* pod[n]: number of the daemon pod of node n
    events,   \* Events of this UID: pod, reason, at, life
    (* operator *)
    seen,     \* the informer's copy of obj
    current,  \* that copy has the resourceVersion of obj
    ingest,   \* Events in the ingester's workqueue
    cache,    \* Cache.data: at most one observation per pod
    dirty,    \* the Principal is in the reconciler's workqueue
    pc,       \* the reconciler: "idle" or "publish"
    work,     \* what publishStatus computed before writing
    (* history *)
    taken,    \* Events ingested since the cache was last emptied
    clock, posts, lives, chaos

api == <<obj, tenant, desired, up, leaving, pod, events>>
bounds == <<clock, posts, lives, chaos>>
vars == <<api, seen, current, ingest, cache, dirty, pc, work, taken, bounds>>

NoObj == [life |-> 0, disabled |-> FALSE, cond |-> "none", nodes |-> <<>>]
NoWork == [nodes |-> <<>>, desired |-> 0, ready |-> 0, daemons |-> 0,
           tenant |-> "none", guess |-> FALSE]

Conditions == {"none", "Disabled", "TenantDisabled", "NoDaemons", "NoEligibleNodes",
               "SomeDaemonsNotReady", "AllDaemonsReady"}

-----------------------------------------------------------------------------
Init ==
    /\ obj = NoObj /\ seen = NoObj /\ current = TRUE
    /\ tenant = "enabled" /\ desired \in {0, Cardinality(Node)}
    /\ up = {} /\ leaving = {}
    /\ pod = [n \in Node |-> 0]
    /\ events = {} /\ ingest = {} /\ cache = {}
    /\ dirty = FALSE /\ pc = "idle" /\ work = NoWork
    /\ taken = {}
    /\ clock = 0 /\ posts = 0 /\ lives = 0 /\ chaos = 0

Chaos == chaos < MaxChaos /\ chaos' = chaos + 1

-----------------------------------------------------------------------------
(* The event cache *)

(* Put: an observation older than the cached one is discarded. *)
PutSlip(e) == {o \in cache : o.pod # e.pod} \cup {e} \* slip: last arrival wins
PutBothSlip(e) == cache \cup {e}         \* slip: the key has more than the pod
Put(e) ==
    IF \E o \in cache : o.pod = e.pod /\ o.at > e.at
    THEN cache
    ELSE {o \in cache : o.pod # e.pod} \cup {e}

ingestFrame == <<api, seen, current, dirty, pc, work, clock, posts, lives>>

(* EventReconciler.Reconcile, in whatever order the queue delivers. *)
Ingest(e) ==
    /\ e \in ingest
    /\ ingest' = ingest \ {e}
    /\ cache' = Put(e)
    /\ taken' = taken \cup {e}
    /\ UNCHANGED <<ingestFrame, chaos>>

(* The Event cannot be fetched: dropped without a retry. *)
IngestFails(e) ==
    /\ e \in ingest
    /\ Chaos
    /\ ingest' = ingest \ {e}
    /\ UNCHANGED <<ingestFrame, cache, taken>>

(* Cache.GC, on a timer. *)
GC ==
    /\ \E o \in cache : o.at + TTL < clock
    /\ cache' = {o \in cache : o.at + TTL >= clock}
    /\ UNCHANGED <<ingestFrame, ingest, taken, chaos>>

(* removeFinalizer's EvictUID: all entries are of this UID. *)
EvictUID == cache' = {} /\ taken' = {}

-----------------------------------------------------------------------------
(* BuildNodeStatuses and principalHealth *)

(* The pods FetchTenantHealth lists, and their nodes. *)
Listed == {<<n, pod[n]>> : n \in up} \cup leaving
ListedNodes == {p[1] : p \in Listed}

(* TenantHealth.PodByNode: of two pods of one node, the last in the list.  *)
PodByNode == {by \in [ListedNodes -> Listed] : \A n \in ListedNodes : by[n][1] = n}

(* The cached observation of pod p, if it is fresh. *)
FreshSlip(p) == {o \in cache : o.pod = p} \* slip: age not looked at
Fresh(p) == {o \in cache : o.pod = p /\ o.at + Staleness >= clock}

(* One entry per listed pod: the fresh observation of the pod its node is  *)
(* known by, else its own readiness (never the word Minted) stamped with   *)
(* the time of this reconcile.                                             *)
NodeStatuses(by) ==
    [p \in Listed |->
        IF Fresh(by[p[1]]) # {}
        THEN LET o == CHOOSE o \in Fresh(by[p[1]]) : TRUE
             IN  [reason |-> o.reason, at |-> o.at, life |-> o.life]
        ELSE [reason |-> "podReadiness", at |-> clock, life |-> 0]]

EligibleNodes == IF Restricted THEN Selected ELSE ListedNodes

DesiredNodes == IF Restricted THEN Cardinality(Selected) ELSE desired

(* slip: a pod that runs is taken for a mint. *)
ReadyCountSlip(nodes) == Cardinality({p \in DOMAIN nodes : p[1] \in EligibleNodes})
ReadyCount(nodes) ==
    Cardinality({p \in DOMAIN nodes : p[1] \in EligibleNodes /\ nodes[p].reason = "Minted"})

(* publishStatus up to the write. *)
Health(by) ==
    [nodes |-> NodeStatuses(by), desired |-> DesiredNodes,
     ready |-> ReadyCount(NodeStatuses(by)), daemons |-> desired,
     tenant |-> tenant, guess |-> FALSE]

(* Nodes cannot be listed: the DaemonSet's counts stand in, r pods ready. *)
GuessedHealth(by, r) ==
    [Health(by) EXCEPT !.desired = desired, !.ready = r, !.guess = TRUE]

(* The Ready condition: the first case that applies. *)
Condition(w, dis) ==
    IF dis THEN "Disabled"
    ELSE IF w.tenant = "disabled" THEN "TenantDisabled"
    ELSE IF w.desired = 0 THEN IF w.daemons = 0 THEN "NoDaemons" ELSE "NoEligibleNodes"
    ELSE IF w.ready < w.desired THEN "SomeDaemonsNotReady"
    ELSE "AllDaemonsReady"

-----------------------------------------------------------------------------
(* PrincipalReconciler.Reconcile, path A.  Nothing is requeued: the next   *)
(* reconcile needs a new trigger.                                          *)

StartReconcile ==
    /\ pc = "idle" /\ dirty
    /\ dirty' = FALSE
    /\ \/ (seen.life = 0 \/ tenant = "none") /\ UNCHANGED <<pc, work, chaos>>
       \/ /\ seen.life > 0 /\ tenant # "none" /\ pc' = "publish"
          /\ \E by \in PodByNode :
              \/ work' = Health(by) /\ UNCHANGED chaos
              \/ /\ Restricted /\ Chaos
                 /\ \E r \in 0..Cardinality(up) : work' = GuessedHealth(by, r)
    /\ UNCHANGED <<api, seen, current, ingest, cache, taken, clock, posts, lives>>

publishFrame == <<tenant, desired, up, leaving, pod, events, seen, ingest, cache, dirty, taken,
                  bounds>>

(* slip: an unconditional write of the condition computed from the copy. *)
WriteStatusSlip ==
    /\ pc = "publish" /\ seen.life > 0
    /\ obj' = [obj EXCEPT !.nodes = work.nodes, !.cond = Condition(work, seen.disabled)]
    /\ current' = (current /\ obj' = obj)
    /\ pc' = "idle" /\ work' = NoWork
    /\ UNCHANGED publishFrame

(* The write succeeds: the object read is the current one.  An update that *)
(* changes nothing leaves its version alone.                               *)
WriteStatus ==
    /\ pc = "publish" /\ seen.life > 0 /\ current
    /\ obj' = [seen EXCEPT !.nodes = work.nodes, !.cond = Condition(work, seen.disabled)]
    /\ current' = (obj' = obj)
    /\ pc' = "idle" /\ work' = NoWork
    /\ UNCHANGED publishFrame

(* Conflict: retryOnConflict runs the closure again, or gives up and only  *)
(* logs.                                                                   *)
StatusConflict ==
    /\ pc = "publish" /\ seen.life > 0 /\ ~current
    /\ \/ UNCHANGED <<pc, work>>
       \/ pc' = "idle" /\ work' = NoWork
    /\ UNCHANGED <<obj, current, publishFrame>>

(* The Principal is gone from the informer: the write fails, and logs. *)
StatusGone ==
    /\ pc = "publish" /\ seen.life = 0
    /\ pc' = "idle" /\ work' = NoWork
    /\ UNCHANGED <<obj, current, publishFrame>>

-----------------------------------------------------------------------------
(* Watches *)

(* The informer catches up; the Principal watch has no predicate, so the   *)
(* operator's own status writes trigger it too.                            *)
InformerSync ==
    /\ ~current
    /\ seen' = obj /\ current' = TRUE /\ dirty' = TRUE
    /\ UNCHANGED <<api, ingest, cache, pc, work, taken, bounds>>

(* The informer's periodic resync. *)
Resync ==
    /\ ~dirty /\ pc = "idle" /\ seen.life > 0
    /\ dirty' = TRUE
    /\ UNCHANGED <<api, seen, current, ingest, cache, pc, work, taken, bounds>>

(* mapEventToPrincipal, mapDaemonPodToPrincipals: the reconciler is        *)
(* triggered when the informer knows the Principal.                        *)
Trigger == dirty' = (dirty \/ seen.life > 0)

(* A daemon posts an Event about the UID, which it knows from the roster:  *)
(* the Principal has existed.  Two controllers are triggered.              *)
Post(n, r) ==
    /\ n \in up /\ lives > 0 /\ posts < MaxPosts
    /\ posts' = posts + 1
    /\ LET e == [pod |-> <<n, pod[n]>>, reason |-> r, at |-> clock, life |-> obj.life]
       IN  events' = events \cup {e} /\ ingest' = ingest \cup {e}
    /\ Trigger
    /\ UNCHANGED <<obj, tenant, desired, up, leaving, pod, seen, current, cache, pc, work,
                   taken, clock, lives, chaos>>

podFrame == <<obj, tenant, desired, events, seen, current, ingest, cache, pc, work, taken, clock, posts, lives>>

PodStart(n) ==
    /\ desired > 0 /\ n \notin up
    /\ up' = up \cup {n} /\ pod' = [pod EXCEPT ![n] = @ + 1]
    /\ Trigger
    /\ UNCHANGED <<leaving, chaos, podFrame>>

(* A pod ends and is being deleted.  The DaemonSet controller may start    *)
(* the next one before it is gone.                                         *)
PodEnd(n) ==
    /\ n \in up
    /\ Chaos
    /\ up' = up \ {n} /\ leaving' = leaving \cup {<<n, pod[n]>>}
    /\ Trigger
    /\ UNCHANGED <<pod, podFrame>>

PodGone(p) ==
    /\ p \in leaving
    /\ leaving' = leaving \ {p}
    /\ Trigger
    /\ UNCHANGED <<up, pod, chaos, podFrame>>

-----------------------------------------------------------------------------
(* Users and the cluster *)

userFrame == <<desired, up, leaving, pod, events, seen, ingest, dirty, pc, work, clock, posts>>

Create ==
    /\ obj.life = 0 /\ lives < MaxLives
    /\ lives' = lives + 1
    /\ obj' = [NoObj EXCEPT !.life = lives']
    /\ current' = FALSE
    /\ UNCHANGED <<tenant, cache, taken, chaos, userFrame>>

SetDisabled ==
    /\ obj.life > 0
    /\ Chaos
    /\ obj' = [obj EXCEPT !.disabled = ~@]
    /\ current' = FALSE
    /\ UNCHANGED <<tenant, cache, taken, lives, userFrame>>

(* The Principal reconciler does not watch Tenants. *)
EditTenant(t) ==
    /\ t # tenant
    /\ Chaos
    /\ tenant' = t
    /\ UNCHANGED <<obj, current, cache, taken, lives, userFrame>>

(* Path B ends (module Deletion): the object goes, then its UID is evicted *)
(* from the cache.                                                         *)
Remove ==
    /\ obj.life > 0 /\ pc = "idle"
    /\ Chaos
    /\ obj' = NoObj /\ current' = FALSE
    /\ EvictUID
    /\ UNCHANGED <<tenant, lives, userFrame>>

(* The operator restarts: the cache is lost, every stored Event is listed  *)
(* and ingested again.                                                     *)
OperatorRestart ==
    /\ Chaos
    /\ cache' = {} /\ taken' = {} /\ ingest' = events
    /\ pc' = "idle" /\ work' = NoWork
    /\ seen' = obj /\ current' = TRUE /\ dirty' = (obj.life > 0)
    /\ UNCHANGED <<api, clock, posts, lives>>

(* Time passes; the API server drops the Events of earlier ticks it likes. *)
Tick ==
    /\ clock < MaxClock
    /\ clock' = clock + 1
    /\ \E kept \in SUBSET events : events' = kept /\ ingest' = ingest \cap kept
    /\ UNCHANGED <<obj, tenant, desired, up, leaving, pod, seen, current, cache, dirty, pc,
                   work, taken, posts, lives, chaos>>

-----------------------------------------------------------------------------
Reconciler == StartReconcile \/ WriteStatus \/ StatusConflict \/ StatusGone

Ingester == \E e \in events : Ingest(e) \/ IngestFails(e)

Pods ==
    \/ \E n \in Node : PodStart(n) \/ PodEnd(n)
    \/ \E p \in leaving : PodGone(p)
    \/ \E n \in Node, r \in Reason : Post(n, r)

Users ==
    \/ Create \/ SetDisabled \/ Remove
    \/ \E t \in {"none", "enabled", "disabled"} : EditTenant(t)

Next ==
    Reconciler \/ Ingester \/ GC \/ InformerSync \/ Resync \/ Pods \/ Users
        \/ OperatorRestart \/ Tick

Spec == Init /\ [][Next]_vars

(* Workers and informers keep running, informers resync, pods that are     *)
(* being deleted go, and time passes.                                      *)
Fairness ==
    /\ WF_vars(Reconciler) /\ WF_vars(InformerSync) /\ WF_vars(Resync)
    /\ WF_vars(Ingester) /\ WF_vars(\E p \in leaving : PodGone(p)) /\ WF_vars(Tick)

FairSpec == Spec /\ Fairness

-----------------------------------------------------------------------------
Pod == Node \X Nat
Event == [pod : Pod, reason : Reason, at : Nat, life : Nat]

(* Every variable holds a value of its type, and the cache has at most one *)
(* observation per pod.                                                    *)
TypeOK ==
    /\ {obj.life, seen.life, desired, clock, posts, lives, chaos} \subseteq Nat
    /\ {obj.cond, seen.cond} \subseteq Conditions
    /\ DOMAIN obj.nodes \subseteq Pod /\ DOMAIN seen.nodes \subseteq Pod
    /\ tenant \in {"none", "enabled", "disabled"}
    /\ up \subseteq Node /\ pod \in [Node -> Nat] /\ leaving \subseteq Pod
    /\ events \subseteq Event /\ ingest \subseteq events /\ cache \subseteq taken
    /\ \A o, p \in cache : o.pod = p.pod => o = p
    /\ pc \in {"idle", "publish"}
    /\ {current, dirty, work.guess} \subseteq BOOLEAN

(* Events arrive in any order and more than once, and entries age out in   *)
(* between: an observation within its TTL is the newest Event of its pod   *)
(* ingested since the cache was emptied.                                   *)
CacheIsNewest ==
    \A o \in cache, e \in taken :
        o.pod = e.pod /\ o.at + TTL >= clock => o.at >= e.at

(* A status write never turns a Principal Ready that is disabled at that   *)
(* moment, however long the write took and whoever edited meanwhile.       *)
NeverReadyWhileDisabled ==
    [][obj'.cond = "AllDaemonsReady" /\ obj'.cond # obj.cond => ~obj'.disabled]_vars

(* A Ready condition that was not guessed shows as many entries with a     *)
(* mint as there are eligible nodes: a pod that merely runs, or has not    *)
(* reported in time, never stands in for one.                              *)
ReadyIsEarned ==
    [][(pc = "publish" /\ pc' = "idle" /\ ~work.guess /\ obj' # obj
            /\ obj'.cond = "AllDaemonsReady")
         => \E S \in SUBSET DOMAIN obj'.nodes :
                /\ S # {} /\ Cardinality(S) >= work.desired
                /\ \A p \in S : obj'.nodes[p].reason = "Minted"]_vars

(* Once users, pods and daemons settle, the published Ready condition is   *)
(* what the cluster says, whatever was lost, conflicted or raced on the    *)
(* way: disabled exactly when the Principal is, and ready exactly when     *)
(* enough eligible pods have a mint as their newest fresh word.            *)
TrulyMinted ==
    {n \in EligibleNodes \cap up :
        \E e \in cache : /\ e.pod = <<n, pod[n]>> /\ e.reason = "Minted"
                         /\ clock <= e.at + Staleness}

Agrees ==
    (obj.life > 0 /\ tenant # "none") =>
        /\ (obj.cond = "Disabled") = obj.disabled
        /\ (obj.cond = "AllDaemonsReady") =
              (/\ ~obj.disabled /\ tenant = "enabled" /\ DesiredNodes > 0
               /\ Cardinality(TrulyMinted) >= DesiredNodes)

StatusConverges == <>[]Agrees

(* The comment on EvictUID: "a stale event from a previous incarnation of  *)
(* the same UID doesn't leak into a replacement principal's status".       *)
NoLeakedObservation ==
    obj.life > 0 => \A p \in DOMAIN obj.nodes : obj.nodes[p].life \in {0, obj.life}
=============================================================================
