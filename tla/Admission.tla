----------------------------- MODULE Admission ------------------------------
(***************************************************************************)
(* The validating webhook for Principals (operator/internal/webhook) and   *)
(* the writes it judges: people creating and editing a Principal, and the  *)
(* operator adding and removing its finalizer, which are updates like any  *)
(* other.  The webhook looks up the namespace and the Tenant, either of    *)
(* which may change later or be out of reach now, and may be down itself.  *)
(*                                                                         *)
(* One Principal.  Its spec.principal is the realm behind the @, or        *)
(* Malformed when it does not have the shape name@REALM.                   *)
(***************************************************************************)
EXTENDS Integers

CONSTANTS
    Uid,        \* values of spec.uid people try
    Realm,      \* realms of Tenants and principals
    Malformed,  \* a spec.principal without that shape
    Absent,     \* no such Tenant, no annotation, no Principal
    Unset,      \* the empty spec.realm of a Tenant
    Range,      \* values of the SCC annotation: two numbers, start and length
    MaxChanges  \* bound: changes of the Tenant, the annotation and the webhook

ASSUME AdmissionAssumption ==
    /\ Uid \subseteq Int
    /\ {Malformed, Absent, Unset} \cap Realm = {} /\ Absent \notin Range
    /\ Range \subseteq [start : Int, length : Int]
    /\ MaxChanges \in Nat

VARIABLES
    tenant,     \* spec.realm of the Tenant the Principal may refer to, or Absent
    range,      \* the namespace's annotation; Absent when it is no two numbers
    serving,    \* the webhook answers
    principal,  \* the stored spec, or Absent
    finalizer,  \* the operator's finalizer is on it
    deleting,   \* it has a deletion timestamp
    (* history *)
    judged,     \* its last write was judged with both lookups answered
    context,    \* <<tenant, range>> at that write
    changes

vars == <<tenant, range, serving, principal, finalizer, deleting, judged, context, changes>>

(* secretRef: no keytabSecretRef, one with name and key, or one without. *)
PrincipalSpec ==
    [uid : Uid, realm : Realm \cup {Malformed}, tenantRef : BOOLEAN,
     secretRef : {"none", "whole", "partial"}]

ASSUME AbsentAssumption == Absent \notin PrincipalSpec

-----------------------------------------------------------------------------
(* ValidatePrincipal: the rules a spec breaks. *)

uidRule(p) == p.uid <= 0

(* The annotation holds a usable window; the rule is skipped otherwise. *)
parseSCCRange(r) == r # Absent /\ r.start >= 0 /\ r.length > 0

rangeRuleSlip(p, r) == parseSCCRange(r) /\ (p.uid < r.start \/ p.uid > r.start + r.length)
rangeRule(p, r) == parseSCCRange(r) /\ (p.uid < r.start \/ p.uid >= r.start + r.length)

(* The realm is compared when the Tenant was found and has one. *)
realmRule(p, t) == p.realm = Malformed \/ (t \in Realm /\ p.realm # t)

tenantRuleSlip(p, t, op) == ~p.tenantRef \/ t = Absent  \* slip: on updates, too
tenantRule(p, t, op) == ~p.tenantRef \/ (t = Absent /\ op = "create")

secretRule(p) == p.secretRef = "partial"

ValidatePrincipal(p, r, t, op) ==
    ~(uidRule(p) \/ rangeRule(p, r) \/ realmRule(p, t) \/ tenantRule(p, t, op) \/ secretRule(p))

(* Handle: a lookup that fails is taken for an absent annotation or an     *)
(* absent Tenant; without a tenantRef no Tenant is looked up.              *)
Handle(op, p, nsOk, tenantOk) ==
    ValidatePrincipal(p, IF nsOk THEN range ELSE Absent,
                         IF tenantOk /\ p.tenantRef THEN tenant ELSE Absent, op)

-----------------------------------------------------------------------------
Init ==
    /\ tenant \in Realm \cup {Absent, Unset} /\ range \in Range \cup {Absent}
    /\ serving = TRUE
    /\ principal = Absent /\ finalizer = FALSE /\ deleting = FALSE
    /\ judged = FALSE /\ context = <<tenant, range>> /\ changes = 0

(* The API server lets a write pass: the webhook admits it, or it is down  *)
(* and the failure policy of the operation is Ignore, as it is for updates.*)
Passes(op, p) ==
    /\ \/ /\ serving
          /\ \E nsOk, tenantOk \in BOOLEAN :
                Handle(op, p, nsOk, tenantOk) /\ judged' = (nsOk /\ tenantOk)
       \/ ~serving /\ op = "update" /\ judged' = FALSE
    /\ context' = <<tenant, range>>

cluster == <<tenant, range, serving, changes>>

Create(p) ==
    /\ principal = Absent
    /\ Passes("create", p)
    /\ principal' = p /\ finalizer' = FALSE /\ deleting' = FALSE
    /\ UNCHANGED cluster

Edit(p) ==
    /\ principal \notin {Absent, p}
    /\ Passes("update", p)
    /\ principal' = p
    /\ UNCHANGED <<finalizer, deleting, cluster>>

(* addFinalizer; Reconcile leaves a Principal without tenantRef alone. *)
AddFinalizer ==
    /\ principal # Absent /\ ~deleting /\ ~finalizer
    /\ principal.tenantRef
    /\ Passes("update", principal)
    /\ finalizer' = TRUE
    /\ UNCHANGED <<principal, deleting, cluster>>

(* Deletions are not sent to the webhook. *)
Delete ==
    /\ principal # Absent /\ ~deleting
    /\ IF finalizer THEN deleting' = TRUE /\ UNCHANGED principal
       ELSE principal' = Absent /\ UNCHANGED deleting
    /\ UNCHANGED <<finalizer, judged, context, cluster>>

(* slip: the object stays, without its finalizer *)
RemoveFinalizerSlip ==
    /\ principal # Absent /\ deleting /\ finalizer
    /\ principal.tenantRef
    /\ Passes("update", principal)
    /\ finalizer' = FALSE
    /\ UNCHANGED <<principal, deleting, cluster>>

(* removeFinalizer, once path B of Reconcile has decided (module Deletion).*)
RemoveFinalizer ==
    /\ principal # Absent /\ deleting /\ finalizer
    /\ principal.tenantRef
    /\ Passes("update", principal)
    /\ principal' = Absent /\ finalizer' = FALSE /\ deleting' = FALSE
    /\ UNCHANGED cluster

-----------------------------------------------------------------------------
others == <<principal, finalizer, deleting, judged, context>>

Changed == changes < MaxChanges /\ changes' = changes + 1

EditTenant(t) ==
    /\ t # tenant /\ Changed
    /\ tenant' = t
    /\ UNCHANGED <<range, serving, others>>

Annotate(r) ==
    /\ r # range /\ Changed
    /\ range' = r
    /\ UNCHANGED <<tenant, serving, others>>

WebhookFlips ==
    /\ Changed
    /\ serving' = ~serving
    /\ UNCHANGED <<tenant, range, others>>

Next ==
    \/ \E p \in PrincipalSpec : Create(p) \/ Edit(p)
    \/ AddFinalizer \/ Delete \/ RemoveFinalizer
    \/ \E t \in Realm \cup {Absent, Unset} : EditTenant(t)
    \/ \E r \in Range \cup {Absent} : Annotate(r)
    \/ WebhookFlips

Spec == Init /\ [][Next]_vars

-----------------------------------------------------------------------------
(* Every variable holds a value of its type, and only a Principal that has *)
(* the finalizer waits for its deletion.                                   *)
TypeOK ==
    /\ tenant \in Realm \cup {Absent, Unset} /\ range \in Range \cup {Absent}
    /\ principal \in PrincipalSpec \cup {Absent}
    /\ {serving, finalizer, deleting, judged} \subseteq BOOLEAN
    /\ context[1] \in Realm \cup {Absent, Unset} /\ context[2] \in Range \cup {Absent}
    /\ changes \in Nat
    /\ deleting => principal # Absent /\ finalizer

(* What a spec must be for the Tenant and the namespace, said from the     *)
(* user's side: a UID of the window, never root, and the Tenant's realm.   *)
Fits(p, t, r) ==
    /\ p.uid > 0 /\ p.tenantRef
    /\ p.realm \in IF t \in Realm THEN {t} ELSE Realm
    /\ parseSCCRange(r) => \E i \in 0..r.length - 1 : p.uid = r.start + i
    /\ p.secretRef \in {"none", "whole"}

(* A stored Principal whose last write was judged with both lookups        *)
(* answered fits the Tenant and the namespace of that moment, whichever    *)
(* writes, outages and changes came before: no sequence of admitted writes *)
(* reaches a spec the rules forbid.                                        *)
StoredFits == principal # Absent /\ judged => Fits(principal, context[1], context[2])

(* "Updates against a since-deleted tenant are allowed so an operator can  *)
(* still `kubectl delete` a stranded principal": as long as the realm and  *)
(* the annotation it was judged under have not been replaced, an update    *)
(* that leaves the spec alone, as the operator's removal of its finalizer, *)
(* is admitted, whatever the lookups answer.                               *)
CleanupAdmitted ==
    principal # Absent /\ judged /\ range \in {context[2], Absent}
        /\ tenant \in {context[1], Absent} =>
            \A nsOk, tenantOk \in BOOLEAN : Handle("update", principal, nsOk, tenantOk)
=============================================================================
