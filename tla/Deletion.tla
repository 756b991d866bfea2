------------------------------ MODULE Deletion ------------------------------
(***************************************************************************)
(* Deleting a Principal: the finalizer of PrincipalReconciler              *)
(* (operator/internal/controller/principal_finalizer.go) against the       *)
(* TenantReconciler that writes the roster, the kubelets that project it,  *)
(* the daemons that prune and report, and the cluster changing underneath. *)
(*                                                                         *)
(* One tenant in one namespace; a Principal is identified by its UID.  A   *)
(* daemon is what module Daemon shows it to be, one sweep per step: a      *)
(* sweep prunes managed users missing from its mounted roster, reports     *)
(* each removal, and mints.                                                *)
(***************************************************************************)
EXTENDS Naturals, FiniteSets

CONSTANTS
    UID,          \* numeric user ids
    Node,         \* nodes the tenant's DaemonSet may run on
    Timeout,      \* Tenant.spec.deletionTimeout, in clock ticks
    MaxClock,     \* bound: clock
    MaxCreates,   \* bound: lives of a UID (creations of its Principal)
    MaxFlaps,     \* bound: enable/disable and failed Principal lists
    MaxRestarts,  \* bound: daemon pod replacements
    MaxChurn,     \* bound: nodes leaving, DaemonSet or Tenant deleted
    MaxRefusals,  \* bound: changes after which the webhook refuses a UID
    MaxFaults     \* bound: failed removals

ASSUME DeletionAssumption ==
    /\ UID \subseteq Nat \ {0} /\ IsFiniteSet(UID)
    /\ IsFiniteSet(Node)
    /\ Timeout \in Nat \ {0}
    /\ {MaxClock, MaxCreates, MaxFlaps, MaxRestarts, MaxChurn, MaxRefusals, MaxFaults}
          \subseteq Nat

VARIABLES
    (* API server *)
    phase,      \* phase[u]: "absent", "live" or "deleting"
    finalizer,  \* users whose Principal carries ccache-purged
    disabled,   \* users whose Principal has spec.disabled
    deletedAt,  \* deletedAt[u]: metadata.deletionTimestamp
    tenant,     \* the Tenant exists
    ds,         \* its DaemonSet exists
    desired,    \* the DaemonSet's status.desiredNumberScheduled
    roster,     \* users in the roster ConfigMap
    events,     \* KerberosCcachePruned Events stored: pod, uid, at
    reports,    \* the Events daemons have emitted, stored or not
    refused,    \* users whose Principal the webhook would not let be updated
    (* nodes *)
    nodes,      \* nodes in the cluster
    running,    \* nodes whose daemon pod is running
    pod,        \* pod[n]: number of the daemon pod of node n
    mounted,    \* mounted[n]: users in the projected roster
    ccache,     \* ccache[n]: users whose daemon-minted file is on node n
    managed,    \* managed[n]: Processor.managed
    (* history and bounds *)
    released,   \* released[u]: why the last finalizer was removed
    clock, creates, flaps, restarts, churn, refusals, faults

api == <<phase, finalizer, disabled, deletedAt, tenant, ds, desired, roster>>
hosts == <<nodes, running, pod, mounted, ccache, managed>>
eventLog == <<reports, events>>
hook == <<refused, refusals>>
bounds == <<clock, creates, flaps, restarts, churn, faults>>
vars == <<api, eventLog, hook, hosts, released, bounds>>

Why == {"none", "confirmed", "notenant", "timeout"}

-----------------------------------------------------------------------------
Init ==
    /\ phase = [u \in UID |-> "absent"]
    /\ finalizer = {} /\ disabled = {}
    /\ deletedAt = [u \in UID |-> 0]
    /\ tenant = TRUE /\ ds = TRUE /\ desired = Cardinality(Node) /\ roster = {}
    /\ events = {} /\ reports = {} /\ refused = {} /\ refusals = 0
    /\ nodes = Node /\ running = {}
    /\ pod = [n \in Node |-> 0]
    /\ mounted = [n \in Node |-> {}]
    /\ ccache = [n \in Node |-> {}]
    /\ managed = [n \in Node |-> {}]
    /\ released = [u \in UID |-> "none"]
    /\ clock = 0 /\ creates = [u \in UID |-> 0] /\ flaps = 0 /\ restarts = 0 /\ churn = 0 /\ faults = 0

-----------------------------------------------------------------------------
(* Users of the API *)

Create(u) ==
    /\ phase[u] = "absent" /\ creates[u] < MaxCreates /\ u \notin refused
    /\ creates' = [creates EXCEPT ![u] = @ + 1]
    /\ phase' = [phase EXCEPT ![u] = "live"]
    /\ disabled' = disabled \ {u}
    /\ released' = [released EXCEPT ![u] = "none"]
    /\ UNCHANGED <<hook, finalizer, deletedAt, tenant, ds, desired, roster, eventLog, hosts,
                   clock, flaps, restarts, churn, faults>>

(* spec.disabled is flipped by an edit or by kubectl krb disable/enable. *)
ToggleDisabled(u) ==
    /\ phase[u] = "live" /\ flaps < MaxFlaps /\ u \notin refused
    /\ flaps' = flaps + 1
    /\ disabled' = IF u \in disabled THEN disabled \ {u} ELSE disabled \cup {u}
    /\ UNCHANGED <<hook, phase, finalizer, deletedAt, tenant, ds, desired, roster, eventLog, hosts,
                   released, clock, creates, restarts, churn, faults>>

(* kubectl delete: the API server keeps the object while it has a finalizer. *)
Delete(u) ==
    /\ phase[u] = "live" /\ clock + Timeout <= MaxClock
    /\ phase' = [phase EXCEPT ![u] = IF u \in finalizer THEN "deleting" ELSE "absent"]
    /\ deletedAt' = [deletedAt EXCEPT ![u] = clock]
    /\ UNCHANGED <<hook, finalizer, disabled, tenant, ds, desired, roster, eventLog, hosts,
                   released, bounds>>

(* The validating webhook judges every create and update, those of a       *)
(* Principal under deletion too.  Somebody changes the Tenant's realm or   *)
(* the namespace's UID range, and the spec no longer fits; or the change   *)
(* is undone, or the webhook stops serving (updates ignore that).  Module  *)
(* Admission has the rules.                                                *)
WebhookTurns(u) ==
    /\ \/ u \notin refused /\ refusals < MaxRefusals
          /\ refused' = refused \cup {u} /\ refusals' = refusals + 1
       \/ u \in refused
          /\ refused' = refused \ {u} /\ UNCHANGED refusals
    /\ UNCHANGED <<api, eventLog, hosts, released, bounds>>

-----------------------------------------------------------------------------
(* PrincipalReconciler.Reconcile *)

(* Path A: a live Principal gets its finalizer, by an Update. *)
AddFinalizer(u) ==
    /\ phase[u] = "live" /\ u \notin finalizer /\ u \notin refused
    /\ finalizer' = finalizer \cup {u}
    /\ UNCHANGED <<hook, phase, disabled, deletedAt, tenant, ds, desired, roster, eventLog, hosts,
                   released, bounds>>

(* Whether the text "uid=<u>" occurs in a message about user v: it does    *)
(* when the decimal digits of u are the leading digits of v (a UID has at  *)
(* most ten).                                                              *)
Mentions(v, u) == \E k \in 0..9 : v \div (10 ^ k) = u

(* The pods purgeConfirmed counts: a stored prune event of theirs mentions *)
(* the UID and was emitted not before the deletion.                        *)
ConfirmedPods(u) ==
    {e.pod : e \in {f \in events : Mentions(f.uid, u) /\ f.at >= deletedAt[u]}}

PurgeConfirmedSlip(u) == ConfirmedPods(u) # {} \* slip: any pod will do
PurgeConfirmed(u) == ds => Cardinality(ConfirmedPods(u)) >= desired

(* slip: the object is let go with the finalizer still listed. *)
RemoveFinalizerSlip(u, why) ==
    /\ u \notin refused
    /\ phase' = [phase EXCEPT ![u] = "absent"]
    /\ released' = [released EXCEPT ![u] = why]
    /\ UNCHANGED <<hook, finalizer, disabled, deletedAt, tenant, ds, desired, roster, eventLog, hosts,
                   bounds>>

(* removeFinalizer: an Update, which the webhook may refuse (the reconcile *)
(* then fails and is tried again); the API server drops the object.        *)
RemoveFinalizer(u, why) ==
    /\ u \notin refused
    /\ finalizer' = finalizer \ {u}
    /\ phase' = [phase EXCEPT ![u] = "absent"]
    /\ released' = [released EXCEPT ![u] = why]
    /\ UNCHANGED <<hook, disabled, deletedAt, tenant, ds, desired, roster, eventLog, hosts, bounds>>

Deleting(u) == phase[u] = "deleting" /\ u \in finalizer

(* Path B, parent Tenant not found. *)
ReleaseNoTenant(u) == Deleting(u) /\ ~tenant /\ RemoveFinalizer(u, "notenant")

(* Path B, enough pods have reported, or there is no DaemonSet. *)
ReleaseConfirmed(u) ==
    Deleting(u) /\ tenant /\ PurgeConfirmed(u) /\ RemoveFinalizer(u, "confirmed")

(* Path B, not confirmed (or the check failed) and the timeout has passed. *)
TimedOutSlip(u) == clock > MaxClock      \* slip: the deadline is never met
TimedOut(u) == clock - deletedAt[u] >= Timeout
ReleaseTimeout(u) ==
    Deleting(u) /\ tenant /\ TimedOut(u) /\ RemoveFinalizer(u, "timeout")

Release(u) == ReleaseNoTenant(u) \/ ReleaseConfirmed(u) \/ ReleaseTimeout(u)

-----------------------------------------------------------------------------
(* TenantReconciler.Reconcile, as far as the roster is concerned *)

(* listPrincipalsFor: live Principals that are not disabled. *)
Listed == {u \in UID : phase[u] = "live"} \ disabled

(* slip: nothing is written for a tenant without Principals. *)
TenantReconcileSlip ==
    /\ tenant /\ Listed # {}
    /\ roster' = Listed /\ ds' = TRUE
    /\ UNCHANGED <<hook, phase, finalizer, disabled, deletedAt, tenant, desired, eventLog,
                   hosts, released, bounds>>

TenantReconcile ==
    /\ tenant
    /\ roster' = Listed /\ ds' = TRUE
    /\ UNCHANGED <<hook, phase, finalizer, disabled, deletedAt, tenant, desired, eventLog,
                   hosts, released, bounds>>

(* The list call fails: the error is only logged and the reconcile goes on *)
(* with no Principals.                                                     *)
TenantReconcileListFails ==
    /\ tenant /\ flaps < MaxFlaps
    /\ flaps' = flaps + 1
    /\ roster' = {} /\ ds' = TRUE
    /\ UNCHANGED <<hook, phase, finalizer, disabled, deletedAt, tenant, desired, eventLog,
                   hosts, released, clock, creates, restarts, churn, faults>>

-----------------------------------------------------------------------------
(* Nodes *)

(* The DaemonSet controller publishes how many nodes it wants. *)
DaemonSetScheduled ==
    /\ ds /\ desired # Cardinality(nodes)
    /\ desired' = Cardinality(nodes)
    /\ UNCHANGED <<hook, phase, finalizer, disabled, deletedAt, tenant, ds, roster, eventLog,
                   hosts, released, bounds>>

(* A daemon pod starts on node n: a new name, a fresh mount, and only the  *)
(* files of users in the roster are adopted (StartLoop).                   *)
PodStart(n) ==
    /\ ds /\ desired > 0 /\ n \in nodes \ running
    /\ running' = running \cup {n}
    /\ pod' = [pod EXCEPT ![n] = @ + 1]
    /\ mounted' = [mounted EXCEPT ![n] = roster]
    /\ managed' = [managed EXCEPT ![n] = ccache[n] \cap roster]
    /\ UNCHANGED <<hook, api, eventLog, nodes, ccache, released, bounds>>

(* It ends: a crash, an eviction, a rollout. *)
PodEnd(n) ==
    /\ n \in running /\ restarts < MaxRestarts
    /\ restarts' = restarts + 1
    /\ running' = running \ {n}
    /\ mounted' = [mounted EXCEPT ![n] = {}]
    /\ managed' = [managed EXCEPT ![n] = {}]
    /\ UNCHANGED <<hook, api, eventLog, nodes, pod, ccache, released, clock, creates, flaps,
                   churn, faults>>

(* The kubelet refreshes the roster volume some time after the write. *)
KubeletSync(n) ==
    /\ n \in running /\ mounted[n] # roster
    /\ mounted' = [mounted EXCEPT ![n] = roster]
    /\ UNCHANGED <<hook, api, eventLog, nodes, running, pod, ccache, managed, released, bounds>>

(* ProcessRoster on node n: ok is what kinit succeeds for, kept what could *)
(* not be removed.  Each removal is emitted, stamped with the time.        *)
Sweep(n, ok, kept) ==
    LET stale == managed[n] \ mounted[n]
        gone  == stale \ kept
    IN  /\ n \in running
        /\ ok \subseteq mounted[n] /\ kept \subseteq stale
        /\ faults + Cardinality(kept) <= MaxFaults
        /\ faults' = faults + Cardinality(kept)
        /\ ccache' = [ccache EXCEPT ![n] = (@ \ gone) \cup ok]
        /\ managed' = [managed EXCEPT ![n] = (@ \ stale) \cup ok]
        /\ reports' = reports \cup
               {[pod |-> <<n, pod[n]>>, uid |-> u, at |-> clock] : u \in gone}
        /\ UNCHANGED <<hook, api, events, nodes, running, pod, mounted, released, clock,
                       creates, flaps, restarts, churn>>

(* The daemon's broadcaster stores an Event and the operator's cache gets  *)
(* to see it: any time later, in any order, or never.                      *)
StoreEvent(e) ==
    /\ e \in reports \ events
    /\ events' = events \cup {e}
    /\ UNCHANGED <<hook, api, reports, hosts, released, bounds>>

(* A node leaves the cluster with everything on it. *)
NodeLeaves(n) ==
    /\ n \in nodes /\ churn < MaxChurn /\ nodes # {n}
    /\ churn' = churn + 1
    /\ nodes' = nodes \ {n} /\ running' = running \ {n}
    /\ mounted' = [mounted EXCEPT ![n] = {}]
    /\ ccache' = [ccache EXCEPT ![n] = {}]
    /\ managed' = [managed EXCEPT ![n] = {}]
    /\ UNCHANGED <<hook, api, eventLog, pod, released, clock, creates, flaps,
                   restarts, faults>>

(* Somebody deletes the DaemonSet (the next TenantReconcile re-creates it) *)
(* or the whole Tenant: the daemons end, the files stay.                   *)
DaemonsEnd ==
    /\ running' = {}
    /\ mounted' = [n \in Node |-> {}]
    /\ managed' = [n \in Node |-> {}]

DaemonSetDeleted ==
    /\ ds /\ churn < MaxChurn
    /\ churn' = churn + 1
    /\ ds' = FALSE /\ desired' = 0
    /\ DaemonsEnd
    /\ UNCHANGED <<hook, phase, finalizer, disabled, deletedAt, tenant, roster, eventLog,
                   nodes, pod, ccache, released, clock, creates, flaps, restarts, faults>>

TenantDeleted ==
    /\ tenant /\ churn < MaxChurn
    /\ churn' = churn + 1
    /\ tenant' = FALSE /\ ds' = FALSE /\ desired' = 0 /\ roster' = {}
    /\ DaemonsEnd
    /\ UNCHANGED <<hook, phase, finalizer, disabled, deletedAt, eventLog, nodes, pod, ccache,
                   released, clock, creates, flaps, restarts, faults>>

Tick ==
    /\ clock < MaxClock
    /\ clock' = clock + 1
    /\ UNCHANGED <<hook, api, eventLog, hosts, released, creates, flaps, restarts, churn, faults>>

-----------------------------------------------------------------------------
Operator == TenantReconcile \/ \E u \in UID : AddFinalizer(u) \/ Release(u)

SomeSweep(n) == \E ok, kept \in SUBSET UID : Sweep(n, ok, kept)

NodeStep(n) == PodStart(n) \/ KubeletSync(n) \/ SomeSweep(n)

Environment ==
    \/ \E u \in UID : Create(u) \/ ToggleDisabled(u) \/ Delete(u) \/ WebhookTurns(u)
    \/ \E e \in reports : StoreEvent(e)
    \/ TenantReconcileListFails \/ DaemonSetDeleted \/ TenantDeleted \/ Tick
    \/ DaemonSetScheduled
    \/ \E n \in Node : PodEnd(n) \/ NodeLeaves(n)

Next == Operator \/ Environment \/ \E n \in Node : NodeStep(n)

Spec == Init /\ [][Next]_vars

(* Reconcilers are requeued (every 15 s the Tenant, within 5 s a deleting  *)
(* Principal), kubelets resync, daemons sweep, clocks advance.  Nothing is *)
(* assumed of the webhook or of the storage of Events.                     *)
Fairness ==
    /\ WF_vars(TenantReconcile) /\ WF_vars(DaemonSetScheduled) /\ WF_vars(Tick)
    /\ \A u \in UID : WF_vars(AddFinalizer(u)) /\ WF_vars(Release(u))
    /\ \A n \in Node :
        WF_vars(PodStart(n)) /\ WF_vars(KubeletSync(n)) /\ WF_vars(SomeSweep(n))

FairSpec == Spec /\ Fairness

-----------------------------------------------------------------------------
(* Every variable holds a value of its type, and only an existing object   *)
(* carries the finalizer.                                                  *)
TypeOK ==
    /\ \A u \in finalizer : phase[u] # "absent"
    /\ phase \in [UID -> {"absent", "live", "deleting"}]
    /\ finalizer \subseteq UID /\ disabled \subseteq UID
    /\ deletedAt \in [UID -> Nat]
    /\ tenant \in BOOLEAN /\ ds \in BOOLEAN /\ desired \in Nat
    /\ roster \subseteq UID
    /\ reports \subseteq [pod : Node \X Nat, uid : UID, at : Nat]
    /\ events \subseteq reports
    /\ refused \subseteq UID
    /\ nodes \subseteq Node /\ running \subseteq nodes
    /\ pod \in [Node -> Nat]
    /\ mounted \in [Node -> SUBSET UID]
    /\ ccache \in [Node -> SUBSET UID]
    /\ managed \in [Node -> SUBSET UID]
    /\ released \in [UID -> Why]
    /\ creates \in [UID -> Nat]
    /\ {clock, flaps, restarts, churn, refusals, faults} \subseteq Nat

(* "The operator won't remove the finalizer until every daemon confirms    *)
(* the on-node ccache is gone": once purgeConfirmed has released a         *)
(* Principal, no node holds a ccache the daemons minted for it.            *)
ConfirmedMeansPurged ==
    \A u \in UID : phase[u] = "absent" /\ released[u] = "confirmed"
                      => \A n \in nodes : u \notin ccache[n]

(* A deletion completes, whatever becomes of the daemons, their Events,    *)
(* the DaemonSet and the Tenant, if the webhook does not refuse updates of *)
(* the Principal for good.                                                 *)
DeletionCompletes ==
    \A u \in UID : <>[](u \notin refused)
                      => (phase[u] = "deleting" ~> phase[u] # "deleting")

(* Once a Principal is gone for good, every daemon that still manages its  *)
(* ccache prunes it.                                                       *)
EventuallyUnmanaged ==
    \A u \in UID : <>[](phase[u] = "absent")
                      => <>[](\A n \in nodes : u \notin managed[n])
=============================================================================
