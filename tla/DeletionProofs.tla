--------------------------- MODULE DeletionProofs ---------------------------
(* What the finalizer of module Deletion guarantees for every finite set   *)
(* of nodes and UIDs, every timeout, and every number of restarted daemons *)
(* and faults.                                                             *)
EXTENDS Deletion, FiniteSetTheorems, TLAPS

(* Numbers of removals and of nodes are natural numbers. *)
LEMMA Counts ==
    /\ \A S \in SUBSET UID : Cardinality(S) \in Nat
    /\ \A S \in SUBSET Node : Cardinality(S) \in Nat
BY DeletionAssumption, FS_Subset, FS_CardinalityType

(* A cluster without Principals and daemon pods is well typed. *)
LEMMA InitType == Init => TypeOK
<1> SUFFICES ASSUME Init PROVE TypeOK
  OBVIOUS
<1>1. tenant \in BOOLEAN /\ ds \in BOOLEAN
  BY DEF Init
<1>2. desired \in Nat
  BY Counts DEF Init
<1> QED
  BY <1>1, <1>2 DEF Init, TypeOK, Why

(* removeFinalizer lets the object go with the finalizer. *)
LEMMA ReleaseType ==
  ASSUME TypeOK, NEW u \in UID, NEW why \in Why, RemoveFinalizer(u, why)
  PROVE  TypeOK'
BY DEF TypeOK, RemoveFinalizer, eventLog, hook, hosts, bounds

(* Every step keeps every variable well typed. *)
LEMMA StepType == TypeOK /\ [Next]_vars => TypeOK'
<1> SUFFICES ASSUME TypeOK, [Next]_vars PROVE TypeOK'
  OBVIOUS
<1> USE DeletionAssumption DEF TypeOK, api, eventLog, hook, hosts, bounds
<1>1. ASSUME NEW u \in UID, Create(u) PROVE TypeOK'
  <2>1. /\ phase' \in [UID -> {"absent", "live", "deleting"}]
        /\ released' \in [UID -> Why] /\ creates' \in [UID -> Nat]
        /\ \A v \in finalizer' : phase'[v] # "absent"
    BY <1>1 DEF Create, Why
  <2> QED
    BY <1>1, <2>1 DEF Create
<1>2. ASSUME NEW u \in UID, ToggleDisabled(u) PROVE TypeOK'
  BY <1>2 DEF ToggleDisabled
<1>3. ASSUME NEW u \in UID, Delete(u) PROVE TypeOK'
  BY <1>3 DEF Delete
<1>4. ASSUME NEW u \in UID, AddFinalizer(u) PROVE TypeOK'
  BY <1>4 DEF AddFinalizer
<1>5. ASSUME NEW u \in UID, Release(u) PROVE TypeOK'
  <2>1. PICK why \in Why : RemoveFinalizer(u, why)
    BY <1>5 DEF Release, ReleaseNoTenant, ReleaseConfirmed, ReleaseTimeout, Why
  <2> QED
    BY <2>1, ReleaseType
<1>6. CASE TenantReconcile
  <2>1. ds' \in BOOLEAN
    BY <1>6 DEF TenantReconcile
  <2> QED
    BY <1>6, <2>1 DEF TenantReconcile, Listed
<1>7. CASE TenantReconcileListFails
  <2>1. ds' \in BOOLEAN
    BY <1>7 DEF TenantReconcileListFails
  <2> QED
    BY <1>7, <2>1 DEF TenantReconcileListFails
<1>8. CASE DaemonSetScheduled
  BY <1>8, Counts DEF DaemonSetScheduled
<1>9. ASSUME NEW n \in Node, PodStart(n) PROVE TypeOK'
  BY <1>9 DEF PodStart
<1>10. ASSUME NEW n \in Node, PodEnd(n) PROVE TypeOK'
  BY <1>10 DEF PodEnd
<1>11. ASSUME NEW n \in Node, KubeletSync(n) PROVE TypeOK'
  BY <1>11 DEF KubeletSync
<1>12. ASSUME NEW n \in Node, NEW ok \in SUBSET UID, NEW kept \in SUBSET UID,
              Sweep(n, ok, kept)
       PROVE  TypeOK'
  <2>1. faults' \in Nat
    BY <1>12, Counts DEF Sweep
  <2>2. reports' \subseteq [pod : Node \X Nat, uid : UID, at : Nat] /\ events' \subseteq reports'
    BY <1>12 DEF Sweep
  <2> QED
    BY <1>12, <2>1, <2>2 DEF Sweep
<1>13. ASSUME NEW n \in Node, NodeLeaves(n) PROVE TypeOK'
  BY <1>13 DEF NodeLeaves
<1>14. CASE DaemonSetDeleted
  <2>1. ds' \in BOOLEAN
    BY <1>14 DEF DaemonSetDeleted
  <2> QED
    BY <1>14, <2>1 DEF DaemonSetDeleted, DaemonsEnd
<1>15. CASE TenantDeleted
  <2>1. ds' \in BOOLEAN /\ tenant' \in BOOLEAN
    BY <1>15 DEF TenantDeleted
  <2> QED
    BY <1>15, <2>1 DEF TenantDeleted, DaemonsEnd
<1>16. CASE Tick
  BY <1>16 DEF Tick
<1>17. CASE UNCHANGED vars
  BY <1>17 DEF vars
<1>18. ASSUME NEW u \in UID, WebhookTurns(u) PROVE TypeOK'
  <2>1. refused' \subseteq UID
    BY <1>18 DEF WebhookTurns
  <2>2. refusals' \in Nat
    BY <1>18 DEF WebhookTurns
  <2> QED
    BY <1>18, <2>1, <2>2 DEF WebhookTurns
<1>19. ASSUME NEW e \in reports, StoreEvent(e) PROVE TypeOK'
  BY <1>19 DEF StoreEvent
<1> QED
  BY <1>1, <1>2, <1>3, <1>4, <1>5, <1>6, <1>7, <1>8, <1>9, <1>10, <1>11, <1>12, <1>13,
     <1>14, <1>15, <1>16, <1>17, <1>18, <1>19 DEF Next, Operator, Environment, NodeStep, SomeSweep

(* Every variable keeps its type, and the ccache-purged finalizer is only  *)
(* ever on a Principal that exists, whatever reconcilers, daemons and      *)
(* users do.                                                               *)
THEOREM TypeCorrect == Spec => []TypeOK
BY InitType, StepType, PTL DEF Spec

-----------------------------------------------------------------------------
(* The promise of the finalizer needs four things, and TLC has a behaviour *)
(* against it without each: no UID's digits begin another's (the run       *)
(* deletion_uid_prefix); no user is created again, and nobody is disabled  *)
(* or missed by a failed list, since prune Events of these may carry the   *)
(* time of the deletion; and the cluster keeps its nodes and its           *)
(* DaemonSet.                                                              *)
Calm ==
    /\ \A u, v \in UID : Mentions(v, u) => v = u
    /\ MaxCreates <= 1 /\ MaxFlaps = 0 /\ MaxChurn = 0

(* The cluster stays as it was. *)
StableInv ==
    /\ nodes = Node /\ tenant /\ ds /\ desired = Cardinality(Node)
    /\ disabled = {} /\ flaps = 0 /\ churn = 0

(* u was created and is no longer in the roster, for good. *)
Withdrawn(u) == creates[u] = 1 /\ phase[u] # "live" /\ u \notin roster

(* A user is created once; a node that knows one has it from the roster,   *)
(* which has every live one it ever had; and a daemon manages a user whom  *)
(* its mounted roster lacks only after the user was withdrawn.             *)
OnceInv ==
    \A u \in UID :
        /\ creates[u] <= 1
        /\ phase[u] # "absent" \/ u \in roster => creates[u] = 1
        /\ released[u] = "confirmed" => creates[u] = 1 /\ phase[u] = "absent"
        /\ \A n \in Node :
            /\ u \in mounted[n] \cup managed[n] \cup ccache[n] =>
                  creates[u] = 1 /\ (phase[u] = "live" => u \in roster)
            /\ u \in managed[n] \ mounted[n] => Withdrawn(u)

(* Whom a node has reported pruned is withdrawn and nowhere on that node,  *)
(* so that no later pod of the node reports the same user, whether and     *)
(* when the Event is stored.                                               *)
ReportInv ==
    /\ \A e \in reports :
        /\ Withdrawn(e.uid)
        /\ e.uid \notin mounted[e.pod[1]] \cup managed[e.pod[1]] \cup ccache[e.pod[1]]
    /\ \A e, f \in reports : e.uid = f.uid /\ e.pod[1] = f.pod[1] => e = f

(* A confirmed release has a report of every node behind it. *)
ConfirmedInv ==
    \A u \in UID : released[u] = "confirmed" =>
        \A n \in Node : \E e \in reports : e.uid = u /\ e.pod[1] = n

IInv == TypeOK /\ StableInv /\ OnceInv /\ ReportInv /\ ConfirmedInv

(* purgeConfirmed counts pods: as many pods as there are nodes, no two of  *)
(* one node, are all nodes.                                                *)
LEMMA PodsAreNodes ==
  ASSUME Calm, IInv, NEW u \in UID, PurgeConfirmed(u)
  PROVE  \A n \in Node : \E e \in reports : e.uid = u /\ e.pod[1] = n
<1> DEFINE P == ConfirmedPods(u)
           f == [x \in P |-> x[1]]
<1>1. ASSUME NEW x \in P
      PROVE  x \in Node \X Nat /\ \E e \in reports : e.uid = u /\ e.pod = x
  BY <1>1 DEF ConfirmedPods, Calm, IInv, TypeOK
<1>2. f \in [P -> Node]
  BY <1>1
<1>3. ASSUME NEW x \in P, NEW y \in P, x[1] = y[1] PROVE x = y
  <2>1. PICK e \in reports : e.uid = u /\ e.pod = x
    BY <1>1
  <2>2. PICK g \in reports : g.uid = u /\ g.pod = y
    BY <1>1
  <2>3. e = g
    BY <1>3, <2>1, <2>2 DEF IInv, ReportInv
  <2> QED
    BY <2>1, <2>2, <2>3
<1>4. f \in Injection(P, Node)
  BY <1>2, <1>3 DEF Injection, IsInjective
<1>5. Cardinality(P) <= Cardinality(Node) /\ Cardinality(P) >= Cardinality(Node)
  BY <1>4, FS_Injection, DeletionAssumption DEF PurgeConfirmed, IInv, StableInv
<1>6. Cardinality(P) \in Nat /\ Cardinality(Node) \in Nat
  BY <1>4, FS_Injection, FS_CardinalityType, DeletionAssumption
<1>7. f \in Surjection(P, Node)
  BY <1>4, <1>5, <1>6, FS_Injection, DeletionAssumption
<1> SUFFICES ASSUME NEW n \in Node PROVE \E e \in reports : e.uid = u /\ e.pod[1] = n
  OBVIOUS
<1>8. PICK x \in P : f[x] = n
  BY <1>7 DEF Surjection
<1> QED
  BY <1>1, <1>8

(* The invariant holds in a cluster without Principals. *)
LEMMA IInvInit == Init => IInv
<1> SUFFICES ASSUME Init PROVE IInv
  OBVIOUS
<1>1. TypeOK
  BY InitType
<1> QED
  BY <1>1 DEF Init, IInv, StableInv, OnceInv, ReportInv, ConfirmedInv

(* A removed finalizer keeps the invariant when, for "confirmed", every    *)
(* node has reported.                                                      *)
LEMMA ReleaseStep ==
  ASSUME IInv, NEW u \in UID, NEW why \in Why, Deleting(u), RemoveFinalizer(u, why),
         why = "confirmed" => \A n \in Node : \E e \in reports : e.uid = u /\ e.pod[1] = n
  PROVE  StableInv' /\ OnceInv' /\ ReportInv' /\ ConfirmedInv'
<1> USE DEF IInv, RemoveFinalizer, eventLog, hook, hosts, bounds, Deleting
<1>1. StableInv'
  BY DEF StableInv
<1>2. OnceInv'
  BY DEF OnceInv, Withdrawn, TypeOK
<1>3. ReportInv'
  BY DEF ReportInv, Withdrawn, TypeOK
<1>4. ConfirmedInv'
  BY DEF ConfirmedInv, TypeOK
<1> QED
  BY <1>1, <1>2, <1>3, <1>4

(* A sweep reports a user once on each node: whom it prunes was withdrawn  *)
(* and will not be managed there again.                                    *)
LEMMA SweepStep ==
  ASSUME IInv, NEW n \in Node, NEW ok \in SUBSET UID, NEW kept \in SUBSET UID,
         Sweep(n, ok, kept)
  PROVE  StableInv' /\ OnceInv' /\ ReportInv' /\ ConfirmedInv'
<1> DEFINE stale == managed[n] \ mounted[n]
           gone  == stale \ kept
           new   == {[pod |-> <<n, pod[n]>>, uid |-> u, at |-> clock] : u \in gone}
<1>a. TypeOK /\ StableInv /\ OnceInv /\ ReportInv /\ ConfirmedInv
  BY DEF IInv
<1>b. /\ UNCHANGED <<phase, disabled, tenant, ds, desired, roster, nodes, mounted, released,
                     creates, flaps, churn>>
      /\ ok \subseteq mounted[n]
      /\ ccache' = [ccache EXCEPT ![n] = (@ \ gone) \cup ok]
      /\ managed' = [managed EXCEPT ![n] = (@ \ stale) \cup ok]
      /\ reports' = reports \cup new
  BY DEF Sweep, api
<1>c. /\ mounted \in [Node -> SUBSET UID] /\ ccache \in [Node -> SUBSET UID]
      /\ managed \in [Node -> SUBSET UID]
      /\ \A e \in reports : e.uid \in UID /\ e.pod[1] \in Node
  BY <1>a DEF TypeOK
<1>1. StableInv'
  BY <1>a, <1>b DEF StableInv
<1>2. OnceInv'
  BY <1>a, <1>b, <1>c DEF OnceInv, Withdrawn
<1>3. ASSUME NEW e \in new
      PROVE  /\ e.pod[1] = n /\ e.uid \in managed[n] \ mounted[n] /\ e.uid \in UID
             /\ e.uid \notin managed'[n] /\ e.uid \notin ccache'[n] /\ Withdrawn(e.uid)
             /\ \A f \in new : f.uid = e.uid => f = e
  <2>1. PICK u \in gone : e = [pod |-> <<n, pod[n]>>, uid |-> u, at |-> clock]
    OBVIOUS
  <2>2. e.pod[1] = n /\ e.uid = u /\ u \in managed[n] \ mounted[n] /\ u \in UID
    BY <2>1, <1>c
  <2>3. u \notin managed'[n] /\ u \notin ccache'[n]
    BY <1>b, <1>c, <2>2
  <2>4. Withdrawn(u)
    BY <1>a, <2>2 DEF OnceInv
  <2> QED
    BY <2>1, <2>2, <2>3, <2>4
<1>4. ASSUME NEW e \in reports PROVE e.uid \notin managed'[e.pod[1]] \cup ccache'[e.pod[1]]
  BY <1>a, <1>b, <1>c DEF ReportInv
<1> HIDE DEF new
<1>5. ReportInv'
  <2>1. \A e \in reports' : Withdrawn(e.uid)'
    BY <1>a, <1>b, <1>3 DEF ReportInv, Withdrawn
  <2>2. \A e \in reports' :
          e.uid \notin mounted'[e.pod[1]] \cup managed'[e.pod[1]] \cup ccache'[e.pod[1]]
    BY <1>a, <1>b, <1>3, <1>4 DEF ReportInv
  <2>3. \A e, f \in reports' : e.uid = f.uid /\ e.pod[1] = f.pod[1] => e = f
    BY <1>a, <1>b, <1>3 DEF ReportInv
  <2> QED
    BY <2>1, <2>2, <2>3 DEF ReportInv
<1>6. ConfirmedInv'
  BY <1>a, <1>b DEF ConfirmedInv
<1> QED
  BY <1>1, <1>2, <1>5, <1>6

(* Every step of a calm cluster keeps the invariant. *)
LEMMA IInvStep == ASSUME Calm PROVE IInv /\ [Next]_vars => IInv'
<1> SUFFICES ASSUME IInv, [Next]_vars PROVE IInv'
  OBVIOUS
<1>0. TypeOK' /\ TypeOK
  BY StepType DEF IInv
<1>a. OnceInv /\ ReportInv /\ ConfirmedInv /\ StableInv
  BY DEF IInv
<1>b. MaxCreates \in Nat /\ MaxCreates <= 1 /\ MaxFlaps = 0 /\ MaxChurn = 0
  BY DeletionAssumption DEF Calm
<1> DEFINE Rest == StableInv /\ OnceInv /\ ReportInv /\ ConfirmedInv
<1> USE <1>a, <1>b DEF StableInv, OnceInv, ReportInv, ConfirmedInv, Withdrawn, TypeOK,
        api, eventLog, hook, hosts, bounds
<1>1. ASSUME NEW u \in UID, Create(u) PROVE Rest'
  <2>1. creates[u] = 0
    BY <1>0, <1>1 DEF Create
  <2>2. OnceInv'
    BY <1>0, <1>1, <2>1 DEF Create
  <2>3. ReportInv'
    BY <1>0, <1>1, <2>1 DEF Create
  <2>4. ConfirmedInv'
    BY <1>0, <1>1 DEF Create
  <2> QED
    BY <1>1, <2>2, <2>3, <2>4 DEF Create
<1>2. ASSUME NEW u \in UID, Delete(u) PROVE Rest'
  BY <1>0, <1>2 DEF Delete
<1>3. ASSUME NEW u \in UID, AddFinalizer(u) PROVE Rest'
  BY <1>0, <1>3 DEF AddFinalizer
<1>4. ASSUME NEW u \in UID, Release(u) PROVE Rest'
  <2>1. CASE ReleaseConfirmed(u)
    BY <2>1, PodsAreNodes, ReleaseStep DEF ReleaseConfirmed, Why
  <2>2. CASE ReleaseTimeout(u)
    BY <2>2, ReleaseStep DEF ReleaseTimeout, Why
  <2>3. ~ReleaseNoTenant(u)
    BY DEF ReleaseNoTenant
  <2> QED
    BY <1>4, <2>1, <2>2, <2>3 DEF Release
<1>5. ASSUME TenantReconcile PROVE Rest'
  <2>1. StableInv'
    BY <1>5 DEF TenantReconcile
  <2>2. OnceInv'
    BY <1>0, <1>5 DEF TenantReconcile, Listed
  <2>3. ReportInv'
    BY <1>0, <1>5 DEF TenantReconcile, Listed
  <2>4. ConfirmedInv'
    BY <1>5 DEF TenantReconcile
  <2> QED
    BY <2>1, <2>2, <2>3, <2>4
<1>6. ASSUME NEW n \in Node, PodStart(n) PROVE Rest'
  BY <1>0, <1>6 DEF PodStart
<1>7. ASSUME NEW n \in Node, PodEnd(n) PROVE Rest'
  BY <1>0, <1>7 DEF PodEnd
<1>8. ASSUME NEW n \in Node, KubeletSync(n) PROVE Rest'
  BY <1>0, <1>8 DEF KubeletSync
<1>9. ASSUME NEW n \in Node, SomeSweep(n) PROVE Rest'
  BY <1>9, SweepStep DEF SomeSweep
<1>10. ASSUME \/ Tick \/ UNCHANGED vars \/ \E u \in UID : WebhookTurns(u)
              \/ \E e \in reports : StoreEvent(e)
       PROVE  Rest'
  <2>1. UNCHANGED <<api, reports, hosts, released, creates, flaps, churn>>
    BY <1>10 DEF Tick, vars, WebhookTurns, StoreEvent
  <2>2. StableInv' /\ OnceInv'
    BY <2>1
  <2>3. ReportInv' /\ ConfirmedInv'
    BY <2>1
  <2> QED
    BY <2>2, <2>3
<1>11. /\ \A u \in UID : ~ToggleDisabled(u)
       /\ ~TenantReconcileListFails /\ ~DaemonSetDeleted /\ ~TenantDeleted /\ ~DaemonSetScheduled
       /\ \A n \in Node : ~NodeLeaves(n)
  BY DEF ToggleDisabled, TenantReconcileListFails, DaemonSetDeleted, TenantDeleted,
         DaemonSetScheduled, NodeLeaves
<1> QED
  BY <1>0, <1>1, <1>2, <1>3, <1>4, <1>5, <1>6, <1>7, <1>8, <1>9, <1>10, <1>11
  DEF IInv, Next, Operator, Environment, NodeStep

(* "The operator won't remove the finalizer until every daemon confirms    *)
(* the on-node ccache is gone": with any number of nodes, daemons that     *)
(* restart, removals that fail and Events that are stored late, in any     *)
(* order or never, a Principal that purgeConfirmed released has left no    *)
(* ccache behind, in a calm cluster.                                       *)
THEOREM ConfirmedMeansPurgedCorrect == Calm => (Spec => []ConfirmedMeansPurged)
<1> SUFFICES ASSUME Calm PROVE Spec => []ConfirmedMeansPurged
  OBVIOUS
<1>1. IInv => ConfirmedMeansPurged
  <2> SUFFICES ASSUME IInv, NEW u \in UID, released[u] = "confirmed", NEW n \in nodes
               PROVE  u \notin ccache[n]
    BY DEF ConfirmedMeansPurged
  <2>1. PICK e \in reports : e.uid = u /\ e.pod[1] = n
    BY DEF IInv, ConfirmedInv, StableInv
  <2> QED
    BY <2>1 DEF IInv, ReportInv
<1> QED
  BY <1>1, IInvInit, IInvStep, PTL DEF Spec
=============================================================================
