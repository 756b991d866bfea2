------------------------------ MODULE Rotation ------------------------------
(***************************************************************************)
(* A new keytab on its way from `kubectl krb rotate-keytab` to the ccaches *)
(* of the nodes and back into the Principal's status:                      *)
(* cli/kubectl-krb/internal/rotate_keytab.go, the writes of                *)
(* TenantReconciler that carry it on (module Tenant has that reconcile in  *)
(* full), the daemons' sweeps (module Daemon), and the two status writers  *)
(* of PrincipalReconciler (module Status has the node part in full).       *)
(*                                                                         *)
(* One Principal with a keytabSecretRef and no selector; its roster row    *)
(* does not change, so daemons sweep when they start and when a renewal is *)
(* due, and at no other time.                                              *)
(***************************************************************************)
EXTENDS Keytab

CONSTANTS
    Node,        \* nodes with a daemon pod
    File,        \* keytab files people have
    Written,     \* Written[f]: the records of f, and how many bytes were copied
    Accepted,    \* files with a key the KDC accepts
    First,       \* the file in the Secret at the start
    NoFile,      \* nothing mounted, nothing minted
    Timeout,     \* --timeout, in clock ticks
    MaxClock,    \* bound: clock
    MaxChaos     \* bound: writes of the Secret, by the CLI or by hand, and
                 \* failures of publishKvnoStatus

ASSUME RotationAssumption ==
    /\ IsFiniteSet(Node) /\ Cardinality(Node) \in 1..10
    /\ First \in File /\ NoFile \notin File
    /\ Accepted \subseteq File
    /\ \A f \in File : Written[f].records \in Seq(Writable)
    /\ \A f \in File : Written[f].copied \in 0..Len(Bytes(Written[f].records))
    /\ {Timeout, MaxClock, MaxChaos} \subseteq Nat

VARIABLES
    (* API server *)
    secret,     \* the Principal's keytab Secret
    aggregated, \* its copy in the Tenant's keytab Secret
    template,   \* the DaemonSet's pod template: 0 as rendered, 1 as restarted
    nodes,      \* Principal status.nodes
    kvno,       \* status.kvnoFromSecret and enctypesFromSecret
    (* nodes *)
    up,         \* nodes whose daemon pod runs
    revision,   \* revision[n]: template the pod of n was made from
    mount,      \* mount[n]: the keytab mounted in that pod
    due,        \* nodes whose daemon is about to sweep
    event,      \* event[n]: last outcome that pod reported
    ccache,     \* ccache[n]: the file its tickets were minted from
    (* operator *)
    tenantPc,   \* TenantReconciler: "idle" or "daemonset"
    kvnoDue,    \* the Principal is enqueued, and the Secret not read yet
    kvnoRead,   \* the file it read and has not published, or NoFile
    (* the command *)
    cli,        \* pc, rolloutAt, and the nodes of the status last polled
    (* history *)
    minted,     \* nodes that minted while the command waited
    renewed,    \* nodes whose pod started since the command left
    clock, chaos

api == <<secret, aggregated, template, nodes, kvno>>
daemons == <<up, revision, mount, due, event, ccache, minted, renewed>>
operator == <<tenantPc, kvnoDue, kvnoRead>>
bounds == <<clock, chaos>>
vars == <<api, daemons, operator, cli, bounds>>

NoEvent == [reason |-> "none", at |-> 0]
NoKvno == [max |-> 0, enctypes |-> {}]

Content == [f \in File |-> SubSeq(Bytes(Written[f].records), 1, Written[f].copied)]
Parsed == [f \in File |-> Parse(Content[f])]

Init ==
    /\ secret = First /\ aggregated = First /\ template = 0
    /\ nodes = [n \in Node |-> [reason |-> "Minted", at |-> 0]]
    /\ kvno = NoKvno
    /\ up = Node /\ revision = [n \in Node |-> 0]
    /\ mount = [n \in Node |-> First] /\ due = {}
    /\ event = nodes
    /\ ccache = mount /\ minted = {} /\ renewed = {}
    /\ tenantPc = "idle" /\ kvnoDue = TRUE /\ kvnoRead = NoFile
    /\ cli = [pc |-> "idle", rolloutAt |-> 0, polled |-> {}]
    /\ clock = 1 /\ chaos = 0

Chaos == chaos < MaxChaos /\ chaos' = chaos + 1

(* Node n joins history S while the command is at pc. *)
Noted(S, n, pc) == IF cli.pc = pc THEN S \cup {n} ELSE S

-----------------------------------------------------------------------------
(* RotateKeytab *)

Ended == [pc |-> "failed", rolloutAt |-> 0, polled |-> {}]

cliFrame == <<aggregated, nodes, kvno, up, revision, mount, due, event, ccache, tenantPc,
              kvnoRead, clock>>

WriteSecret(f) ==
    /\ Chaos
    /\ secret' = f /\ kvnoDue' = TRUE

(* Read the Principal and its Secret, replace the bytes.  A file that      *)
(* cannot be read or is empty is refused before.                           *)
UpdateSecret(f) ==
    /\ cli.pc = "idle" /\ Content[f] # <<>>
    /\ WriteSecret(f)
    /\ cli' = [cli EXCEPT !.pc = "restart"]
    /\ UNCHANGED <<template, minted, renewed, cliFrame>>

(* patchDaemonSetRolloutRestart: a read and a plain update of the          *)
(* DaemonSet; then the clock is read.  With --wait=false that is all.      *)
RestartDaemonSet ==
    /\ cli.pc = "restart"
    /\ template' = 1
    /\ \/ cli' = [cli EXCEPT !.pc = "wait", !.rolloutAt = clock]
       \/ cli' = [cli EXCEPT !.pc = "left"]
    /\ UNCHANGED <<secret, kvnoDue, minted, renewed, chaos, cliFrame>>

(* Any call of the command fails: it ends there, nothing is undone. *)
CommandFails ==
    /\ cli.pc \in {"restart", "wait"}
    /\ cli' = Ended /\ minted' = {}
    /\ UNCHANGED <<secret, kvnoDue, template, renewed, chaos, cliFrame>>

(* A tick is a second: LastObserved is stored in whole seconds, rounded    *)
(* down, and rolloutAt is not, so what was observed in the same second     *)
(* counts as earlier.  (The slip does not compare the times.)              *)
allNodesMintedSinceSlip(t) ==
    DOMAIN nodes # {} /\ \A n \in DOMAIN nodes : nodes[n].reason = "Minted"
allNodesMintedSince(t) ==
    /\ DOMAIN nodes # {}
    /\ \A n \in DOMAIN nodes : nodes[n].reason = "Minted" /\ nodes[n].at > t

Poll ==
    /\ cli.pc = "wait" /\ allNodesMintedSince(cli.rolloutAt)
    /\ cli' = [cli EXCEPT !.pc = "done", !.polled = DOMAIN nodes]
    /\ UNCHANGED <<secret, kvnoDue, template, minted, renewed, chaos, cliFrame>>

PollTimesOut ==
    /\ cli.pc = "wait" /\ ~allNodesMintedSince(cli.rolloutAt)
    /\ clock >= cli.rolloutAt + Timeout
    /\ cli' = Ended /\ minted' = {}
    /\ UNCHANGED <<secret, kvnoDue, template, renewed, chaos, cliFrame>>

(* Somebody applies a new Secret by hand. *)
ApplySecret(f) ==
    /\ WriteSecret(f)
    /\ UNCHANGED <<cli, template, minted, renewed, cliFrame>>

-----------------------------------------------------------------------------
(* TenantReconciler: at least every RequeueInterval, also when there is    *)
(* nothing to change.                                                      *)

(* slip: the aggregate is only ever written once *)
AggregateSlip ==
    /\ tenantPc = "idle"
    /\ tenantPc' = "daemonset"
    /\ UNCHANGED <<api, daemons, kvnoDue, kvnoRead, cli, bounds>>

(* resolveKeytabs, Aggregate, upsertOwnedSecret. *)
Aggregate ==
    /\ tenantPc = "idle"
    /\ aggregated' = secret
    /\ tenantPc' = "daemonset"
    /\ UNCHANGED <<secret, template, nodes, kvno, daemons, kvnoDue, kvnoRead, cli, bounds>>

(* upsertOwnedDS replaces the whole spec with the rendered one. *)
UpsertDaemonSet ==
    /\ tenantPc = "daemonset"
    /\ template' = 0
    /\ tenantPc' = "idle"
    /\ UNCHANGED <<secret, aggregated, nodes, kvno, daemons, kvnoDue, kvnoRead, cli, bounds>>

-----------------------------------------------------------------------------
(* DaemonSet controller, kubelet and daemons *)

nodeFrame == <<api, operator, cli, bounds>>

(* RollingUpdate, maxUnavailable 10%, which is one pod of up to ten. *)
RollPod(n) ==
    /\ up = Node /\ revision[n] # template
    /\ up' = up \ {n} /\ due' = due \ {n}
    /\ UNCHANGED <<revision, mount, event, ccache, minted, renewed, nodeFrame>>

(* slip: the pod that starts does not count as up *)
StartPodSlip(n) ==
    /\ n \notin up
    /\ due' = due \cup {n} /\ renewed' = Noted(renewed, n, "left")
    /\ revision' = [revision EXCEPT ![n] = template]
    /\ mount' = [mount EXCEPT ![n] = aggregated]
    /\ event' = [event EXCEPT ![n] = NoEvent]
    /\ UNCHANGED <<up, ccache, minted, nodeFrame>>

StartPod(n) ==
    /\ n \notin up
    /\ up' = up \cup {n} /\ due' = due \cup {n} /\ renewed' = Noted(renewed, n, "left")
    /\ revision' = [revision EXCEPT ![n] = template]
    /\ mount' = [mount EXCEPT ![n] = aggregated]
    /\ event' = [event EXCEPT ![n] = NoEvent]
    /\ UNCHANGED <<ccache, minted, nodeFrame>>

(* The mounted Secret is refreshed in a running pod. *)
KubeletSync(n) ==
    /\ n \in up /\ mount[n] # aggregated
    /\ mount' = [mount EXCEPT ![n] = aggregated]
    /\ UNCHANGED <<up, revision, due, event, ccache, minted, renewed, nodeFrame>>

RenewalDue(n) ==
    /\ n \in up \ due
    /\ due' = due \cup {n}
    /\ UNCHANGED <<up, revision, mount, event, ccache, minted, renewed, nodeFrame>>

(* One sweep: a mint that fails leaves the ccache alone and is not retried *)
(* before the next sweep.                                                  *)
SweepMints(n) ==
    /\ n \in due /\ due' = due \ {n}
    /\ mount[n] \in Accepted
    /\ ccache' = [ccache EXCEPT ![n] = mount[n]]
    /\ minted' = Noted(minted, n, "wait")
    /\ event' = [event EXCEPT ![n] = [reason |-> "Minted", at |-> clock]]
    /\ UNCHANGED <<up, revision, mount, renewed, nodeFrame>>

SweepFails(n) ==
    /\ n \in due /\ due' = due \ {n}
    /\ mount[n] \notin Accepted
    /\ event' = [event EXCEPT ![n] = [reason |-> "MintFailed", at |-> clock]]
    /\ UNCHANGED <<up, revision, mount, ccache, minted, renewed, nodeFrame>>

Sweep(n) == SweepMints(n) \/ SweepFails(n)

-----------------------------------------------------------------------------
(* PrincipalReconciler *)

(* BuildNodeStatuses: the pod's last outcome, else its readiness (and the  *)
(* time of this reconcile, which nothing here looks at).                   *)
NodeStatuses ==
    [n \in up |-> IF event[n] # NoEvent THEN event[n]
                  ELSE [reason |-> "podReadiness", at |-> 0]]

PublishStatus ==
    /\ nodes # NodeStatuses /\ nodes' = NodeStatuses
    /\ UNCHANGED <<secret, aggregated, template, kvno, daemons, operator, cli, bounds>>

(* The Principal is enqueued by a change of its Secret                     *)
(* (mapSecretToPrincipals), and without one again and again: by the        *)
(* informer's resync, by Events and by pods.                               *)
Resync ==
    /\ ~kvnoDue /\ kvnoDue' = TRUE
    /\ UNCHANGED <<api, daemons, tenantPc, kvnoRead, cli, bounds>>

(* publishKvnoStatus reads the Secret. *)
ReadSecret ==
    /\ kvnoDue /\ kvnoRead = NoFile
    /\ kvnoRead' = secret /\ kvnoDue' = FALSE
    /\ UNCHANGED <<api, daemons, tenantPc, cli, bounds>>

(* What the bytes say: an absent, empty or unreadable keytab says nothing. *)
Observed(f) ==
    IF Parsed[f].err # "none" THEN NoKvno
    ELSE [max |-> MaxKvno(Parsed[f]), enctypes |-> Enctypes(Parsed[f])]

(* slip: only a newer version is written *)
WriteKvnoSlip ==
    /\ kvnoRead # NoFile /\ kvnoRead' = NoFile
    /\ kvno' = IF Observed(kvnoRead).max > kvno.max THEN Observed(kvnoRead) ELSE kvno
    /\ UNCHANGED <<secret, aggregated, template, nodes, daemons, tenantPc, kvnoDue, cli, bounds>>

(* The read or the write fails: Reconcile logs the error and returns       *)
(* success, so nothing is requeued for it.                                 *)
PublishKvnoFails ==
    /\ kvnoDue \/ kvnoRead # NoFile
    /\ Chaos
    /\ kvnoRead' = NoFile
    /\ kvnoDue' = (kvnoDue /\ kvnoRead # NoFile)
    /\ UNCHANGED <<api, daemons, tenantPc, cli, clock>>

(* writeKvnoStatus, on the latest Principal; keytabObservedAt, the time of *)
(* the last change of the two, is left out.                                *)
WriteKvno ==
    /\ kvnoRead # NoFile /\ kvnoRead' = NoFile
    /\ kvno' = Observed(kvnoRead)
    /\ UNCHANGED <<secret, aggregated, template, nodes, daemons, tenantPc, kvnoDue, cli, bounds>>

Tick ==
    /\ clock < MaxClock /\ clock' = clock + 1
    /\ UNCHANGED <<api, daemons, operator, cli, chaos>>

-----------------------------------------------------------------------------
Command ==
    \/ \E f \in File : UpdateSecret(f)
    \/ RestartDaemonSet \/ CommandFails \/ Poll \/ PollTimesOut

TenantReconciler == Aggregate \/ UpsertDaemonSet

Pods(n) == RollPod(n) \/ StartPod(n) \/ KubeletSync(n) \/ RenewalDue(n) \/ Sweep(n)

PrincipalReconciler == PublishStatus \/ ReadSecret \/ WriteKvno \/ PublishKvnoFails

Next ==
    \/ Command \/ \E f \in File : ApplySecret(f)
    \/ TenantReconciler \/ PrincipalReconciler \/ Resync
    \/ \E n \in Node : Pods(n)
    \/ Tick

Spec == Init /\ [][Next]_vars

(* Controllers, informers, kubelets and daemons keep working; every daemon *)
(* renews again and again.  People and time may stop.                      *)
Fairness ==
    /\ WF_vars(Aggregate) /\ WF_vars(UpsertDaemonSet)
    /\ WF_vars(Resync) /\ WF_vars(ReadSecret) /\ WF_vars(WriteKvno)
    /\ \A n \in Node :
        /\ WF_vars(RollPod(n)) /\ WF_vars(StartPod(n)) /\ WF_vars(KubeletSync(n))
        /\ WF_vars(RenewalDue(n)) /\ WF_vars(Sweep(n))

FairSpec == Spec /\ Fairness

-----------------------------------------------------------------------------
Outcome == [reason : {"none", "Minted", "MintFailed", "podReadiness"}, at : Nat]

(* Every variable holds a value of its type, no more than one pod is down, *)
(* and only pods that run are about to sweep.                              *)
TypeOK ==
    /\ {secret, aggregated} \subseteq File
    /\ template \in 0..1 /\ revision \in [Node -> 0..1]
    /\ DOMAIN nodes \subseteq Node /\ \A n \in DOMAIN nodes : nodes[n] \in Outcome
    /\ kvno.max \in Nat
    /\ up \subseteq Node /\ Cardinality(Node \ up) <= 1 /\ due \subseteq up
    /\ mount \in [Node -> File] /\ ccache \in [Node -> File]
    /\ event \in [Node -> Outcome]
    /\ tenantPc \in {"idle", "daemonset"} /\ kvnoDue \in BOOLEAN
    /\ kvnoRead \in File \cup {NoFile}
    /\ cli.pc \in {"idle", "restart", "wait", "left", "done", "failed"}
    /\ minted \subseteq Node /\ renewed \subseteq Node
    /\ {clock, chaos} \subseteq Nat

(* When the command reports that all nodes re-minted, each node it counted *)
(* has really minted since the restart, and it counted one at least: its   *)
(* polls of a status that the operator derives from Events, pods and a     *)
(* clock of its own never take an older success, a pod that merely runs,   *)
(* or a moment without pods for a re-mint.                                 *)
SuccessIsRecent ==
    cli.pc = "done" => cli.polled # {} /\ cli.polled \subseteq minted

(* Whatever is applied, aggregated, restarted and renewed in whichever     *)
(* order, in the end every node holds tickets from the keytab in the       *)
(* Secret, if the KDC accepts it.                                          *)
KeyReachesNodes ==
    <>[](secret \in Accepted => \A n \in Node : ccache[n] = secret)

(* The entries that the writer of f put into the part that was copied, if  *)
(* the copy ends behind a record.                                          *)
Meant ==
    [f \in File |->
        LET rs == Written[f].records
            whole == {n \in 0..Len(rs) : Len(Bytes(SubSeq(rs, 1, n))) = Written[f].copied}
        IN  IF whole = {} THEN <<>> ELSE Said(rs, CHOOSE n \in whole : TRUE)]

ReadsExactly == [f \in File |-> Exact(Written[f].records)]

(* The parser reads the file in the Secret as its writer wrote it, and     *)
(* however much of it had been copied: whole records, or it refuses.       *)
ParsedAsWritten == ReadsExactly[secret]

(* In the end the status shows the version and the types of the keytab in  *)
(* the Secret as its writer wrote them, and none for a file cut in the     *)
(* middle: no Secret changed between the read and the write, failed call   *)
(* or skipped write leaves an older generation there.                      *)
KvnoConverges ==
    <>[](LET k == [entries |-> Meant[secret]]
         IN  kvno.max = MaxKvno(k) /\ kvno.enctypes = Enctypes(k))

(* cli/kubectl-krb/README.md on rotate-keytab: "forces every daemon across *)
(* the Tenant to re-mint", by a "rollout restart [of] the Tenant's         *)
(* DaemonSet so kubelet spins new daemon pods that pick up the new mounted *)
(* keytab bytes".                                                          *)
RestartReachesEveryPod ==
    (cli.pc = "left") ~> (renewed = Node)
=============================================================================
