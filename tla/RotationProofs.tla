--------------------------- MODULE RotationProofs ---------------------------
(* What `kubectl krb rotate-keytab` may conclude from what it polls, for   *)
(* every set of nodes and files, every timeout and every bound.            *)
EXTENDS Rotation, KeytabProofs, FiniteSetTheorems

Cli == [pc : {"idle", "restart", "wait", "left", "done", "failed"},
        rolloutAt : Nat, polled : SUBSET Node]

(* TypeOK but for the published version, with the type of the whole        *)
(* command.                                                                *)
TypeInv ==
    /\ {secret, aggregated} \subseteq File
    /\ template \in 0..1 /\ revision \in [Node -> 0..1]
    /\ DOMAIN nodes \subseteq Node /\ \A n \in DOMAIN nodes : nodes[n] \in Outcome
    /\ up \subseteq Node /\ Cardinality(Node \ up) <= 1 /\ due \subseteq up
    /\ mount \in [Node -> File] /\ ccache \in [Node -> File]
    /\ event \in [Node -> Outcome]
    /\ tenantPc \in {"idle", "daemonset"} /\ kvnoDue \in BOOLEAN
    /\ kvnoRead \in File \cup {NoFile}
    /\ cli \in Cli
    /\ minted \subseteq Node /\ renewed \subseteq Node
    /\ {clock, chaos} \subseteq Nat

(* Nothing was observed in the future. *)
PastInv ==
    /\ \A n \in Node : event[n].at <= clock
    /\ \A n \in DOMAIN nodes : nodes[n].at <= clock

(* While the command waits, a success later than the restart, in an Event  *)
(* or in the status made from Events, is one of the mints since then.      *)
WaitInv ==
    cli.pc = "wait" =>
        /\ cli.rolloutAt <= clock
        /\ \A n \in Node :
             event[n].reason = "Minted" /\ event[n].at > cli.rolloutAt => n \in minted
        /\ \A n \in DOMAIN nodes :
             nodes[n].reason = "Minted" /\ nodes[n].at > cli.rolloutAt => n \in minted

IInv == TypeInv /\ PastInv /\ WaitInv /\ SuccessIsRecent

-----------------------------------------------------------------------------
(* RollingUpdate takes one pod down and waits for it: what is missing is   *)
(* never more than one pod.                                                *)
LEMMA PodsDown ==
  ASSUME NEW S \in SUBSET Node, NEW n \in Node, Cardinality(Node \ S) <= 1
  PROVE  /\ Cardinality(Node \ (Node \ {n})) <= 1
         /\ Cardinality(Node \ (S \cup {n})) <= 1
         /\ Cardinality(Node \ Node) <= 1
<1>1. Cardinality({n}) = 1 /\ Cardinality({}) = 0
  BY FS_Singleton, FS_EmptySet
<1>2. Node \ (Node \ {n}) = {n} /\ Node \ Node = {}
  OBVIOUS
<1>3. /\ IsFiniteSet(Node \ S) /\ IsFiniteSet(Node \ (S \cup {n}))
      /\ Cardinality(Node \ (S \cup {n})) <= Cardinality(Node \ S)
  <2>1. Node \ (S \cup {n}) \subseteq Node \ S /\ Node \ S \subseteq Node
    OBVIOUS
  <2> QED
    BY <2>1, RotationAssumption, FS_Subset
<1>4. Cardinality(Node \ (S \cup {n})) \in Nat /\ Cardinality(Node \ S) \in Nat
  BY <1>3, FS_CardinalityType
<1> QED
  BY <1>1, <1>2, <1>3, <1>4

(* What BuildNodeStatuses publishes: the outcomes of the pods that run, or *)
(* a readiness that is no mint.                                            *)
LEMMA NodeStatusesType ==
  ASSUME TypeInv
  PROVE  /\ DOMAIN NodeStatuses = up
         /\ \A n \in up : /\ NodeStatuses[n] \in Outcome
                          /\ \/ NodeStatuses[n] = event[n]
                             \/ NodeStatuses[n] = [reason |-> "podReadiness", at |-> 0]
BY DEF NodeStatuses, TypeInv, Outcome

(* A Tenant whose daemons all run and have minted satisfies the invariant. *)
LEMMA IInvInit == Init => IInv
<1> SUFFICES ASSUME Init PROVE IInv
  OBVIOUS
<1>1. Cardinality(Node \ up) <= 1
  <2>1. Node \ up = {}
    BY DEF Init
  <2> QED
    BY <2>1, FS_EmptySet
<1>2. kvnoDue \in BOOLEAN
  BY DEF Init
<1>3. nodes \in [Node -> Outcome] /\ cli \in Cli
  BY DEF Init, Outcome, Cli
<1>4. TypeInv
  BY <1>1, <1>2, <1>3, RotationAssumption DEF Init, TypeInv
<1> QED
  BY <1>4 DEF IInv, Init, PastInv, WaitInv, SuccessIsRecent

(* Every step keeps the types, and at most one pod down. *)
LEMMA TypeStep == TypeInv /\ [Next]_vars => TypeInv'
<1> SUFFICES ASSUME TypeInv, [Next]_vars PROVE TypeInv'
  OBVIOUS
<1> USE DEF TypeInv, api, daemons, operator, bounds, cliFrame, nodeFrame, Chaos
<1>1. ASSUME NEW f \in File, UpdateSecret(f) \/ ApplySecret(f) PROVE TypeInv'
  <2>1. kvnoDue' \in BOOLEAN
    BY <1>1 DEF UpdateSecret, ApplySecret, WriteSecret
  <2>2. cli' \in Cli
    BY <1>1 DEF UpdateSecret, ApplySecret, Cli
  <2>3. secret' \in File /\ chaos' \in Nat
    BY <1>1 DEF UpdateSecret, ApplySecret, WriteSecret
  <2> QED
    BY <1>1, <2>1, <2>2, <2>3 DEF UpdateSecret, ApplySecret
<1>2. CASE RestartDaemonSet
  <2>1. cli' \in Cli
    BY <1>2 DEF RestartDaemonSet, Cli
  <2> QED
    BY <1>2, <2>1 DEF RestartDaemonSet
<1>3. CASE CommandFails \/ PollTimesOut
  <2>1. cli' \in Cli
    BY <1>3 DEF CommandFails, PollTimesOut, Ended, Cli
  <2> QED
    BY <1>3, <2>1 DEF CommandFails, PollTimesOut
<1>4. CASE Poll
  <2>1. cli' \in Cli
    BY <1>4 DEF Poll, Cli
  <2> QED
    BY <1>4, <2>1 DEF Poll
<1>5. CASE TenantReconciler
  <2>1. CASE Aggregate
    BY <2>1 DEF Aggregate
  <2>2. CASE UpsertDaemonSet
    BY <2>2 DEF UpsertDaemonSet
  <2> QED
    BY <1>5, <2>1, <2>2 DEF TenantReconciler
<1>6. CASE PublishStatus
  BY <1>6, NodeStatusesType DEF PublishStatus
<1>7. CASE ReadSecret \/ Resync \/ PublishKvnoFails
  <2>1. kvnoDue' \in BOOLEAN
    BY <1>7 DEF ReadSecret, Resync, PublishKvnoFails
  <2> QED
    BY <1>7, <2>1 DEF ReadSecret, Resync, PublishKvnoFails
<1>8. CASE WriteKvno
  BY <1>8 DEF WriteKvno
<1>9. ASSUME NEW n \in Node, RollPod(n) PROVE TypeInv'
  <2>1. Cardinality(Node \ up') <= 1
    BY <1>9, PodsDown DEF RollPod
  <2> QED
    BY <1>9, <2>1 DEF RollPod
<1>10. ASSUME NEW n \in Node, StartPod(n) PROVE TypeInv'
  <2>1. Cardinality(Node \ up') <= 1
    BY <1>10, PodsDown DEF StartPod
  <2>2. event' \in [Node -> Outcome]
    BY <1>10 DEF StartPod, NoEvent, Outcome
  <2> QED
    BY <1>10, <2>1, <2>2 DEF StartPod, Noted
<1>11. ASSUME NEW n \in Node, KubeletSync(n) \/ RenewalDue(n) PROVE TypeInv'
  BY <1>11 DEF KubeletSync, RenewalDue
<1>12. ASSUME NEW n \in Node, Sweep(n) PROVE TypeInv'
  <2>1. event' \in [Node -> Outcome]
    BY <1>12 DEF Sweep, SweepMints, SweepFails, Outcome
  <2> QED
    BY <1>12, <2>1 DEF Sweep, SweepMints, SweepFails, Noted
<1>13. CASE Tick
  BY <1>13 DEF Tick
<1>14. CASE UNCHANGED vars
  BY <1>14 DEF vars
<1> QED
  BY <1>1, <1>2, <1>3, <1>4, <1>5, <1>6, <1>7, <1>8, <1>9, <1>10, <1>11, <1>12, <1>13,
     <1>14 DEF Next, Command, PrincipalReconciler, Pods

(* Every step keeps the rest: an Event is stamped with the present, a      *)
(* status only repeats Events, and a mint while the command waits is       *)
(* noted.                                                                  *)
LEMMA WaitStep == IInv /\ [Next]_vars => PastInv' /\ WaitInv' /\ SuccessIsRecent'
<1> SUFFICES ASSUME IInv, [Next]_vars PROVE PastInv' /\ WaitInv' /\ SuccessIsRecent'
  OBVIOUS
<1>0. /\ TypeInv /\ cli \in Cli /\ clock \in Nat
      /\ event \in [Node -> Outcome] /\ \A n \in DOMAIN nodes : n \in Node /\ nodes[n] \in Outcome
      /\ minted \subseteq Node /\ up \subseteq Node /\ due \subseteq Node
  BY DEF IInv, TypeInv
<1> USE <1>0 DEF IInv, PastInv, WaitInv, SuccessIsRecent, Outcome, Cli, api, daemons, operator,
        bounds, cliFrame, nodeFrame
<1>1. ASSUME NEW f \in File, UpdateSecret(f) \/ ApplySecret(f)
      PROVE  PastInv' /\ WaitInv' /\ SuccessIsRecent'
  BY <1>1 DEF UpdateSecret, ApplySecret
<1>2. CASE RestartDaemonSet
  <2>1. /\ UNCHANGED <<event, nodes, clock, minted>>
        /\ \/ cli' = [cli EXCEPT !.pc = "wait", !.rolloutAt = clock]
           \/ cli' = [cli EXCEPT !.pc = "left"]
    BY <1>2 DEF RestartDaemonSet
  <2>2. (cli'.pc = "wait" /\ cli'.rolloutAt = clock) \/ cli'.pc = "left"
    BY <2>1
  <2>3. /\ \A n \in Node : event[n].at \in Nat /\ event[n].at <= clock
        /\ \A n \in DOMAIN nodes : nodes[n].at \in Nat /\ nodes[n].at <= clock
    OBVIOUS
  <2>4. PastInv'
    BY <2>1
  <2>5. WaitInv'
    BY <2>1, <2>2, <2>3
  <2> QED
    BY <2>2, <2>4, <2>5
<1>3. CASE CommandFails \/ PollTimesOut
  BY <1>3 DEF CommandFails, PollTimesOut, Ended
<1>4. CASE Poll
  BY <1>4 DEF Poll, allNodesMintedSince
<1>5. CASE TenantReconciler
  BY <1>5 DEF TenantReconciler, Aggregate, UpsertDaemonSet
<1>6. CASE PublishStatus
  BY <1>6, NodeStatusesType DEF PublishStatus
<1>7. CASE ReadSecret \/ WriteKvno \/ Resync \/ PublishKvnoFails
  BY <1>7 DEF ReadSecret, WriteKvno, Resync, PublishKvnoFails
<1>8. ASSUME NEW n \in Node, RollPod(n) \/ KubeletSync(n) \/ RenewalDue(n)
      PROVE  PastInv' /\ WaitInv' /\ SuccessIsRecent'
  BY <1>8 DEF RollPod, KubeletSync, RenewalDue
<1>9. ASSUME NEW n \in Node, StartPod(n)
      PROVE  PastInv' /\ WaitInv' /\ SuccessIsRecent'
  BY <1>9 DEF StartPod, NoEvent
<1>10. ASSUME NEW n \in Node, SweepMints(n)
       PROVE  PastInv' /\ WaitInv' /\ SuccessIsRecent'
  BY <1>10 DEF SweepMints, Noted
<1>11. ASSUME NEW n \in Node, SweepFails(n)
       PROVE  PastInv' /\ WaitInv' /\ SuccessIsRecent'
  BY <1>11 DEF SweepFails
<1>12. CASE Tick
  BY <1>12 DEF Tick
<1>13. CASE UNCHANGED vars
  BY <1>13 DEF vars
<1> QED
  BY <1>1, <1>2, <1>3, <1>4, <1>5, <1>6, <1>7, <1>8, <1>9, <1>10, <1>11, <1>12, <1>13
  DEF Next, Command, PrincipalReconciler, Pods, Sweep

(* The invariant holds in every reachable state. *)
LEMMA Invariance == Spec => []IInv
<1>1. IInv /\ [Next]_vars => IInv'
  BY TypeStep, WaitStep DEF IInv
<1> QED
  BY <1>1, IInvInit, PTL DEF Spec

-----------------------------------------------------------------------------
(* RotateKeytab and allNodesMintedSince: when the command says that all    *)
(* nodes re-minted, it counted at least one, and each it counted minted    *)
(* after the restart.                                                      *)
THEOREM SuccessIsRecentCorrect == Spec => []SuccessIsRecent
<1>1. IInv => SuccessIsRecent
  BY DEF IInv
<1> QED
  BY <1>1, Invariance, PTL

(* KvnoFromKeytab on any of the files: where the parser accepts the bytes, *)
(* their largest version is a number of sixteen bits.                      *)
LEMMA ObservedType == \A f \in File : Observed(f).max \in Nat
<1> SUFFICES ASSUME NEW f \in File PROVE Observed(f).max \in Nat
  OBVIOUS
<1>1. CASE Parsed[f].err # "none"
  BY <1>1 DEF Observed, NoKvno
<1>2. CASE Parsed[f].err = "none"
  <2>1. MaxKvno(Parsed[f]) \in Short
    BY <1>2, MaxKvnoType, RotationAssumption, Zenon DEF Parsed, Content
  <2>2. Short \subseteq Nat
    BY SMT DEF Short
  <2>3. Observed(f).max = MaxKvno(Parsed[f])
    BY <1>2 DEF Observed
  <2>4. MaxKvno(Parsed[f]) \in Nat
    BY <2>1, <2>2, Zenon
  <2> QED
    BY <2>3, <2>4, Zenon
<1> QED
  BY <1>1, <1>2

(* Every variable keeps its type, the published version is a number        *)
(* whatever was stored, at most one pod is down during a rollout, and only *)
(* pods that run sweep.                                                    *)
THEOREM TypeCorrect == Spec => []TypeOK
<1>1. Init => kvno.max \in Nat
  BY DEF Init, NoKvno
<1>2. TypeInv /\ kvno.max \in Nat /\ [Next]_vars => (kvno.max \in Nat)'
  <2> SUFFICES ASSUME TypeInv, kvno.max \in Nat, [Next]_vars PROVE kvno'.max \in Nat
    OBVIOUS
  <2>1. CASE WriteKvno
    <3>1. kvnoRead \in File /\ kvno' = Observed(kvnoRead)
      BY <2>1 DEF TypeInv, WriteKvno
    <3> QED
      BY <3>1, ObservedType
  <2>2. CASE ~WriteKvno
    <3> USE DEF api, daemons, operator, bounds, cliFrame, nodeFrame
    <3>1. ASSUME Command \/ \E f \in File : ApplySecret(f) PROVE UNCHANGED kvno
      BY <3>1 DEF Command, UpdateSecret, ApplySecret, RestartDaemonSet, CommandFails, Poll,
                  PollTimesOut
    <3>2. ASSUME \/ TenantReconciler \/ PublishStatus \/ ReadSecret \/ Resync
                 \/ PublishKvnoFails \/ Tick \/ UNCHANGED vars
          PROVE  UNCHANGED kvno
      BY <3>2 DEF TenantReconciler, Aggregate, UpsertDaemonSet, PublishStatus, ReadSecret,
                  Resync, PublishKvnoFails, Tick, vars
    <3>3. ASSUME NEW n \in Node, Pods(n) PROVE UNCHANGED kvno
      BY <3>3 DEF Pods, RollPod, StartPod, KubeletSync, RenewalDue, Sweep, SweepMints, SweepFails
    <3>4. UNCHANGED kvno
      BY <2>2, <3>1, <3>2, <3>3 DEF Next, PrincipalReconciler
    <3> QED
      BY <3>4
  <2> QED
    BY <2>1, <2>2
<1>3. IInv => TypeInv
  BY DEF IInv
<1>4. TypeInv /\ kvno.max \in Nat => TypeOK
  BY DEF TypeInv, TypeOK, Cli
<1> QED
  BY <1>1, <1>2, <1>3, <1>4, Invariance, PTL DEF Spec

(* keytab.Parse on whatever the Secret holds: the parser reads the records *)
(* its writer wrote, and a copy that ends inside a record is an error.     *)
THEOREM ParsedAsWrittenCorrect == Spec => []ParsedAsWritten
<1>1. \A f \in File : ReadsExactly[f]
  BY ParserExact, RotationAssumption, Zenon DEF ReadsExactly
<1>2. IInv => ParsedAsWritten
  BY <1>1 DEF IInv, TypeInv, ParsedAsWritten
<1> QED
  BY <1>2, Invariance, PTL
=============================================================================
