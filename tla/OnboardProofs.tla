--------------------------- MODULE OnboardProofs ----------------------------
(* What adding a Principal guarantees for every set of processes that add  *)
(* it, every set of keys, UIDs and realms and every number of changes.     *)
(* Part one is about the webhook alone (Spec of module Admission), part    *)
(* two about the additions next to it (OSpec of module Onboard).           *)
EXTENDS Onboard, TLAPS

(* ValidatePrincipal admits only what fits the context it was given. *)
LEMMA AdmittedFits ==
  ASSUME NEW p \in PrincipalSpec, NEW t \in Realm \cup {Absent, Unset},
         NEW r \in Range \cup {Absent}, NEW op \in {"create", "update"},
         ValidatePrincipal(p, r, t, op)
  PROVE  Fits(p, t, r)
<1> USE AdmissionAssumption
    DEF ValidatePrincipal, uidRule, rangeRule, realmRule, tenantRule, secretRule
<1>0. p.uid > 0
  <2>1. p.uid \in Int
    BY DEF PrincipalSpec
  <2>2. ~(p.uid <= 0)
    BY Zenon
  <2> QED
    BY <2>1, <2>2
<1>1. p.tenantRef
  BY Zenon DEF PrincipalSpec
<1>2. p.realm \in IF t \in Realm THEN {t} ELSE Realm
  BY DEF PrincipalSpec
<1>3. ASSUME parseSCCRange(r) PROVE \E i \in 0..r.length - 1 : p.uid = r.start + i
  <2>1. r \in [start : Int, length : Int] /\ p.uid \in Int
    BY <1>3 DEF PrincipalSpec, parseSCCRange
  <2>2. p.uid >= r.start /\ p.uid < r.start + r.length
    BY <1>3, <2>1
  <2>3. p.uid - r.start \in 0..r.length - 1 /\ p.uid = r.start + (p.uid - r.start)
    BY <2>1, <2>2
  <2> QED
    BY <2>3
<1>4. p.secretRef \in {"none", "whole"}
  BY DEF PrincipalSpec
<1> QED
  BY <1>0, <1>1, <1>2, <1>3, <1>4 DEF Fits

(* The other direction, for updates: a spec that fits a context is         *)
(* admitted in it, and also when the Tenant, the annotation or both are    *)
(* missing.                                                                *)
LEMMA FittingAdmitted ==
  ASSUME NEW p \in PrincipalSpec, NEW t \in Realm \cup {Absent, Unset},
         NEW r \in Range \cup {Absent}, Fits(p, t, r),
         NEW t1 \in {t, Absent}, NEW r1 \in {r, Absent}
  PROVE  ValidatePrincipal(p, r1, t1, "update")
<1> USE AdmissionAssumption DEF Fits
<1>0. ~uidRule(p)
  <2>1. p.uid \in Int
    BY DEF PrincipalSpec
  <2> QED
    BY <2>1 DEF uidRule
<1>1. ~secretRule(p)
  BY DEF secretRule
<1>2. ~realmRule(p, t1)
  BY DEF realmRule, PrincipalSpec
<1>3. ~tenantRule(p, t1, "update")
  BY DEF tenantRule, PrincipalSpec
<1>4. ASSUME parseSCCRange(r1) PROVE ~rangeRule(p, r1)
  <2>1. r1 = r /\ r \in [start : Int, length : Int] /\ p.uid \in Int
    BY <1>4 DEF PrincipalSpec, parseSCCRange
  <2>2. PICK i \in 0..r.length - 1 : p.uid = r.start + i
    BY <1>4, <2>1
  <2> QED
    BY <2>1, <2>2 DEF rangeRule
<1>5. ~rangeRule(p, r1)
  BY <1>4 DEF rangeRule
<1> QED
  BY <1>0, <1>1, <1>2, <1>3, <1>5 DEF ValidatePrincipal

-----------------------------------------------------------------------------
IInv == TypeOK /\ StoredFits

(* A write that passes with both lookups answered leaves a fitting spec. *)
LEMMA PassedFits ==
  ASSUME TypeOK, NEW p \in PrincipalSpec, NEW op \in {"create", "update"},
         Passes(op, p), judged'
  PROVE  Fits(p, context'[1], context'[2])
<1>1. Handle(op, p, TRUE, TRUE) /\ context' = <<tenant, range>>
  BY Zenon DEF Passes
<1>2. \/ p.tenantRef /\ ValidatePrincipal(p, range, tenant, op)
      \/ ~p.tenantRef /\ ValidatePrincipal(p, range, Absent, op)
  BY <1>1 DEF Handle
<1>3. p.tenantRef
  BY <1>2 DEF ValidatePrincipal, tenantRule
<1> QED
  BY <1>1, <1>2, <1>3, AdmittedFits DEF TypeOK

(* A write that passes records the context and whether it was judged. *)
LEMMA PassesType ==
  ASSUME TypeOK, NEW p, NEW op, Passes(op, p)
  PROVE  judged' \in BOOLEAN /\ context' = <<tenant, range>>
BY Zenon DEF Passes

(* A new cluster starts without a Principal. *)
LEMMA IInvInit == Init => IInv
<1> SUFFICES ASSUME Init PROVE IInv
  OBVIOUS
<1>1. {serving, finalizer, deleting, judged} \subseteq BOOLEAN
  BY DEF Init
<1> QED
  BY <1>1 DEF Init, IInv, TypeOK, StoredFits

(* Every write, outage and change of the cluster keeps the invariant. *)
LEMMA IInvStep == IInv /\ [Next]_vars => IInv'
<1> SUFFICES ASSUME IInv, [Next]_vars PROVE IInv'
  OBVIOUS
<1>1. TypeOK /\ StoredFits
  BY DEF IInv
<1>2. ASSUME NEW p \in PrincipalSpec, Create(p) PROVE IInv'
  <2>1. judged' \in BOOLEAN /\ context' = <<tenant, range>>
    BY <1>1, <1>2, PassesType DEF Create
  <2>2. TypeOK'
    BY <1>1, <1>2, <2>1 DEF Create, TypeOK, cluster
  <2>3. StoredFits'
    BY <1>1, <1>2, PassedFits DEF Create, StoredFits
  <2> QED
    BY <2>2, <2>3 DEF IInv
<1>3. ASSUME NEW p \in PrincipalSpec, Edit(p) PROVE IInv'
  <2>1. judged' \in BOOLEAN /\ context' = <<tenant, range>>
    BY <1>1, <1>3, PassesType DEF Edit
  <2>2. TypeOK'
    BY <1>1, <1>3, <2>1, AbsentAssumption DEF Edit, TypeOK, cluster
  <2>3. StoredFits'
    BY <1>1, <1>3, PassedFits DEF Edit, StoredFits
  <2> QED
    BY <2>2, <2>3 DEF IInv
<1>4. CASE AddFinalizer
  <2>1. judged' \in BOOLEAN /\ context' = <<tenant, range>>
    BY <1>1, <1>4, PassesType DEF AddFinalizer
  <2>2. TypeOK'
    BY <1>1, <1>4, <2>1 DEF AddFinalizer, TypeOK, cluster
  <2>3. principal \in PrincipalSpec
    BY <1>1, <1>4 DEF AddFinalizer, TypeOK
  <2>4. StoredFits'
    BY <1>1, <1>4, <2>3, PassedFits DEF AddFinalizer, StoredFits
  <2> QED
    BY <2>2, <2>4 DEF IInv
<1>5. CASE Delete
  BY <1>1, <1>5 DEF Delete, IInv, TypeOK, StoredFits, cluster
<1>6. CASE RemoveFinalizer
  <2>1. judged' \in BOOLEAN /\ context' = <<tenant, range>>
    BY <1>1, <1>6, PassesType DEF RemoveFinalizer
  <2> QED
    BY <1>1, <1>6, <2>1 DEF RemoveFinalizer, IInv, TypeOK, StoredFits, cluster
<1>7. ASSUME NEW t \in Realm \cup {Absent, Unset}, EditTenant(t) PROVE IInv'
  BY <1>1, <1>7 DEF EditTenant, Changed, others, IInv, TypeOK, StoredFits
<1>8. ASSUME NEW r \in Range \cup {Absent}, Annotate(r) PROVE IInv'
  BY <1>1, <1>8 DEF Annotate, Changed, others, IInv, TypeOK, StoredFits
<1>9. CASE WebhookFlips
  BY <1>1, <1>9 DEF WebhookFlips, Changed, others, IInv, TypeOK, StoredFits
<1>10. CASE UNCHANGED vars
  BY <1>1, <1>10 DEF vars, IInv, TypeOK, StoredFits
<1> QED
  BY <1>2, <1>3, <1>4, <1>5, <1>6, <1>7, <1>8, <1>9, <1>10 DEF Next

(* Every variable keeps its type, and a Principal waits for its deletion   *)
(* only with the operator's finalizer on it.                               *)
THEOREM TypeCorrect == Spec => []TypeOK
BY IInvInit, IInvStep, PTL DEF Spec, IInv

(* No sequence of admitted writes, lookups that fail, outages of the       *)
(* webhook and changes of the cluster stores a Principal that Handle       *)
(* judged with both lookups answered and that does not fit.                *)
THEOREM StoredFitsCorrect == Spec => []StoredFits
BY IInvInit, IInvStep, PTL DEF Spec, IInv

(* The operator's own updates of such a Principal are never refused while  *)
(* its realm and its annotation are the ones it was judged under, or gone. *)
THEOREM CleanupAdmittedCorrect == Spec => []CleanupAdmitted
<1>1. IInv => CleanupAdmitted
  BY FittingAdmitted DEF IInv, TypeOK, StoredFits, CleanupAdmitted, Handle
<1> QED
  BY <1>1, IInvInit, IInvStep, PTL DEF Spec

-----------------------------------------------------------------------------

Addition == [at : {"idle", "secret", "principal", "done"},
             realm : Realm \cup {Malformed, Absent}, key : Key \cup {Absent},
             fresh : BOOLEAN]

AddType ==
    /\ secret \in Key \cup {Keyless, Absent}
    /\ add \in [Adder -> Addition]
    /\ \A a \in Adder : add[a].at # "idle" =>
          add[a].realm \in Realm \cup {Malformed} /\ add[a].key \in Key

(* Who goes on to the second creation left a Secret behind. *)
SecretFirst ==
    /\ \A a \in Adder : add[a].at = "principal" => secret # Absent \/ lost
    /\ NeverWithoutSecret

(* An undisturbed adder is alone, and the two objects are as far as it. *)
FreshInv ==
    \A a \in Adder : add[a].fresh =>
        /\ \A b \in Adder \ {a} : add[b].at = "idle"
        /\ add[a].at = "secret" => secret = Absent /\ principal = Absent
        /\ add[a].at = "principal" => secret = add[a].key /\ principal = Absent
        /\ add[a].at = "done" => secret = add[a].key /\ principal = Given(add[a].realm)

OInv == IInv /\ AddType /\ SecretFirst /\ FreshInv

-----------------------------------------------------------------------------
(* Before anybody adds, the invariant holds. *)
LEMMA OInvInit == OInit => OInv
<1> SUFFICES ASSUME OInit PROVE OInv
  OBVIOUS
<1>1. IInv
  BY IInvInit DEF OInit
<1>2. Idle \in Addition
  BY DEF Idle, Addition
<1>3. AddType
  BY <1>2 DEF OInit, AddType, Idle
<1>4. SecretFirst
  BY DEF OInit, SecretFirst, NeverWithoutSecret, Idle
<1>5. FreshInv
  BY DEF OInit, FreshInv, Idle
<1> QED
  BY <1>1, <1>3, <1>4, <1>5 DEF OInv

(* A disturbed adder keeps its place and what it was given. *)
LEMMA DisturbedType ==
  ASSUME AddType
  PROVE  /\ Disturbed \in [Adder -> Addition]
         /\ \A a \in Adder : /\ ~Disturbed[a].fresh
                             /\ Disturbed[a].at = add[a].at
                             /\ Disturbed[a].realm = add[a].realm
                             /\ Disturbed[a].key = add[a].key
BY DEF AddType, Disturbed, Addition

(* What an adder writes is a Principal spec. *)
LEMMA GivenType == \A r \in Realm \cup {Malformed} : Given(r) \in PrincipalSpec
BY OnboardAssumption DEF Given, PrincipalSpec

(* Every step of the adders keeps the webhook's invariant: their writes    *)
(* pass the webhook like all others.                                       *)
LEMMA WebhookStep == OInv /\ [ONext]_ovars => IInv'
<1> SUFFICES ASSUME OInv, [ONext]_ovars PROVE IInv'
  OBVIOUS
<1>0. IInv /\ AddType
  BY DEF OInv
<1>1. CASE Elsewhere
  BY <1>0, <1>1, IInvStep DEF Elsewhere
<1>2. CASE DeleteSecret
  BY <1>0, <1>2 DEF DeleteSecret, Changed, others, IInv, TypeOK, StoredFits
<1>3. CASE UNCHANGED vars
  BY <1>0, <1>3, IInvStep
<1>4. ASSUME NEW a \in Adder, CreatePrincipal(a) PROVE IInv'
  <2>1. CASE principal = Absent
    <3>1. Given(add[a].realm) \in PrincipalSpec /\ Create(Given(add[a].realm))
      BY <1>0, <1>4, <2>1, GivenType DEF CreatePrincipal, AddType
    <3>2. Next
      BY <3>1 DEF Next
    <3> QED
      BY <1>0, <3>2, IInvStep
  <2>2. CASE principal # Absent
    BY <1>3, <1>4, <2>2 DEF CreatePrincipal
  <2> QED
    BY <2>1, <2>2
<1>5. ASSUME NEW a \in Adder, NEW r \in Realm \cup {Malformed}, NEW k \in Key,
             runAddPrincipal(a, r, k) \/ submitPrincipalForm(a, r, k)
      PROVE  UNCHANGED vars
  BY <1>5 DEF runAddPrincipal, submitPrincipalForm, Begin
<1>6. ASSUME NEW a \in Adder, CreateSecret(a) \/ Fails(a) \/ Reported(a)
      PROVE  UNCHANGED vars
  BY <1>6 DEF CreateSecret, Fails, Reported
<1>7. ASSUME UNCHANGED ovars PROVE UNCHANGED vars
  BY <1>7 DEF ovars
<1> QED
  BY <1>1, <1>2, <1>3, <1>4, <1>5, <1>6, <1>7 DEF ONext

(* A step of the webhook's module leaves the Secret alone, and disturbs    *)
(* every adder when it changes the Principal.                              *)
LEMMA ElsewhereStep ==
  ASSUME OInv, Elsewhere
  PROVE  AddType' /\ SecretFirst' /\ FreshInv'
<1>0. AddType /\ SecretFirst /\ FreshInv
  BY DEF OInv
<1>1. UNCHANGED secret /\ UNCHANGED lost /\ origin' = (origin /\ principal # Absent)
  BY DEF Elsewhere
<1>2. \/ principal' = principal /\ UNCHANGED add
      \/ add' = Disturbed
  BY DEF Elsewhere
<1>3. \A a \in Adder : add'[a].at = add[a].at
  BY <1>0, <1>2, DisturbedType
<1>4. AddType'
  BY <1>0, <1>1, <1>2, DisturbedType DEF AddType
<1>5. SecretFirst'
  BY <1>0, <1>1, <1>3 DEF SecretFirst, NeverWithoutSecret
<1>6. ASSUME add' = Disturbed PROVE FreshInv'
  <2>1. \A a \in Adder : ~add'[a].fresh
    BY <1>0, <1>6, DisturbedType
  <2> QED
    BY <2>1 DEF FreshInv
<1>7. ASSUME principal' = principal, UNCHANGED add PROVE FreshInv'
  BY <1>0, <1>1, <1>7 DEF FreshInv
<1> QED
  BY <1>2, <1>4, <1>5, <1>6, <1>7

(* A process begins: it is undisturbed only if it found nothing and        *)
(* nobody, and disturbs all others.                                        *)
LEMMA BeginStep ==
  ASSUME OInv, NEW a \in Adder, NEW r \in Realm \cup {Malformed}, NEW k \in Key, Begin(a, r, k)
  PROVE  AddType' /\ SecretFirst' /\ FreshInv'
<1> DEFINE f == secret = Absent /\ principal = Absent /\ \A b \in Adder : add[b].at = "idle"
           new == [at |-> "secret", realm |-> r, key |-> k, fresh |-> f]
<1>0. AddType /\ SecretFirst /\ FreshInv
  BY DEF OInv
<1>1. /\ UNCHANGED <<secret, origin, lost, principal>>
      /\ add' = [Disturbed EXCEPT ![a] = new]
  BY DEF Begin, vars
<1>2. f \in BOOLEAN
  OBVIOUS
<1> HIDE DEF f
<1>3. new \in Addition
  BY <1>2 DEF Addition
<1>4. /\ add' \in [Adder -> Addition] /\ add'[a] = new
      /\ \A b \in Adder \ {a} : add'[b] = Disturbed[b]
  BY <1>0, <1>1, <1>3, DisturbedType
<1>5. AddType'
  BY <1>0, <1>1, <1>4, DisturbedType DEF AddType
<1>6. SecretFirst'
  BY <1>0, <1>1, <1>4, DisturbedType DEF SecretFirst, NeverWithoutSecret
<1>7. FreshInv'
  <2> SUFFICES ASSUME NEW b \in Adder, add'[b].fresh
               PROVE  /\ \A c \in Adder \ {b} : add'[c].at = "idle"
                      /\ add'[b].at = "secret"
                      /\ secret = Absent /\ principal = Absent
    BY <1>1 DEF FreshInv
  <2>1. b = a
    BY <1>0, <1>4, DisturbedType
  <2>2. new.fresh = f
    BY <1>2
  <2>3. f
    BY <1>4, <2>1, <2>2, Zenon
  <2>4. secret = Absent /\ principal = Absent /\ \A c \in Adder : add[c].at = "idle"
    BY <2>3 DEF f
  <2>5. \A c \in Adder \ {b} : add'[c].at = "idle"
    BY <1>0, <1>4, <2>1, <2>4, DisturbedType
  <2>6. add'[b].at = "secret"
    BY <1>4, <2>1
  <2> QED
    BY <2>4, <2>5, <2>6
<1> QED
  BY <1>5, <1>6, <1>7

(* The two creations, in their order, their failure and the report. *)
LEMMA AdderStep ==
  ASSUME OInv, NEW a \in Adder,
         CreateSecret(a) \/ CreatePrincipal(a) \/ Fails(a) \/ Reported(a)
  PROVE  AddType' /\ SecretFirst' /\ FreshInv'
<1>0. AddType /\ SecretFirst /\ FreshInv /\ Absent \notin Key
  BY OnboardAssumption DEF OInv
<1>1. CASE CreateSecret(a)
  <2>1. /\ add[a].at = "secret" /\ UNCHANGED <<origin, principal>>
        /\ secret' = IF secret = Absent THEN add[a].key ELSE secret
        /\ add' = [add EXCEPT ![a].at = "principal"]
    BY <1>1 DEF CreateSecret, vars
  <2>2. secret' \in Key \cup {Keyless} /\ secret' # Absent
    BY <1>0, <2>1 DEF AddType
  <2>3. AddType'
    BY <1>0, <2>1, <2>2 DEF AddType, Addition
  <2>4. SecretFirst'
    BY <2>2 DEF SecretFirst, NeverWithoutSecret
  <2>5. FreshInv'
    BY <1>0, <2>1 DEF FreshInv, AddType, Addition
  <2> QED
    BY <2>3, <2>4, <2>5
<1>2. CASE CreatePrincipal(a)
  <2>1. /\ add[a].at = "principal" /\ UNCHANGED <<secret, lost>>
        /\ add' = [add EXCEPT ![a].at = "done"]
        /\ IF principal = Absent THEN principal' = Given(add[a].realm)
           ELSE UNCHANGED <<principal, origin>>
    BY <1>2 DEF CreatePrincipal, Create, vars
  <2>2. AddType'
    BY <1>0, <2>1 DEF AddType, Addition
  <2>3. SecretFirst'
    BY <1>0, <2>1 DEF SecretFirst, NeverWithoutSecret, AddType, Addition
  <2>4. FreshInv'
    BY <1>0, <2>1 DEF FreshInv, AddType, Addition
  <2> QED
    BY <2>2, <2>3, <2>4
<1>3. CASE Fails(a) \/ Reported(a)
  <2>1. add' = [add EXCEPT ![a] = Idle] /\ UNCHANGED <<secret, origin, lost, principal>>
    BY <1>3 DEF Fails, Reported, Stops, vars
  <2>2. Idle \in Addition /\ Idle.at = "idle" /\ Idle.fresh = FALSE
    BY DEF Idle, Addition
  <2>3. AddType'
    BY <1>0, <2>1, <2>2 DEF AddType
  <2>4. SecretFirst'
    BY <1>0, <2>1, <2>2 DEF SecretFirst, NeverWithoutSecret, AddType
  <2>5. FreshInv'
    BY <1>0, <2>1, <2>2 DEF FreshInv, AddType
  <2> QED
    BY <2>3, <2>4, <2>5
<1> QED
  BY <1>1, <1>2, <1>3

(* The invariant holds in every reachable state. *)
LEMMA OInvariance == OSpec => []OInv
<1>1. OInv /\ [ONext]_ovars => OInv'
  <2> SUFFICES ASSUME OInv, [ONext]_ovars PROVE AddType' /\ SecretFirst' /\ FreshInv'
    BY WebhookStep DEF OInv
  <2>1. CASE DeleteSecret
    <3>1. /\ secret' = Absent /\ lost' = TRUE /\ add' = Disturbed
      BY <2>1 DEF DeleteSecret
    <3>2. AddType
      BY DEF OInv
    <3> QED
      BY <3>1, <3>2, DisturbedType DEF AddType, SecretFirst, NeverWithoutSecret, FreshInv
  <2>2. CASE UNCHANGED ovars
    BY <2>2 DEF ovars, vars, added, OInv, AddType, SecretFirst, NeverWithoutSecret, FreshInv
  <2>3. ASSUME NEW a \in Adder, NEW r \in Realm \cup {Malformed}, NEW k \in Key,
               runAddPrincipal(a, r, k) \/ submitPrincipalForm(a, r, k)
        PROVE  AddType' /\ SecretFirst' /\ FreshInv'
    BY <2>3, BeginStep DEF runAddPrincipal, submitPrincipalForm
  <2> QED
    BY <2>1, <2>2, <2>3, AdderStep, ElsewhereStep DEF ONext
<1> QED
  BY <1>1, OInvInit, PTL DEF OSpec

-----------------------------------------------------------------------------
(* createSecretAndPrincipal: however many processes add one UID at once,   *)
(* fail, are cut off or refused, a Principal they created has its keytab   *)
(* Secret unless somebody deleted it.                                      *)
THEOREM NeverWithoutSecretCorrect == OSpec => []NeverWithoutSecret
<1>1. OInv => NeverWithoutSecret
  BY DEF OInv, SecretFirst
<1> QED
  BY <1>1, OInvariance, PTL

(* An addition that found neither object and was not disturbed leaves      *)
(* exactly the key and the principal it was given.                         *)
THEOREM FreshAddIsExactCorrect == OSpec => []FreshAddIsExact
<1>1. OInv => FreshAddIsExact
  BY DEF OInv, FreshInv, FreshAddIsExact
<1> QED
  BY <1>1, OInvariance, PTL

(* Whatever the adders write passes the webhook: its guarantees hold of    *)
(* the composition, too.                                                   *)
THEOREM WebhookHolds == OSpec => [](TypeOK /\ StoredFits /\ CleanupAdmitted)
<1>1. OInv => TypeOK /\ StoredFits
  BY DEF OInv, IInv
<1>2. TypeOK /\ StoredFits => CleanupAdmitted
  BY FittingAdmitted DEF TypeOK, StoredFits, CleanupAdmitted, Handle
<1> QED
  BY <1>1, <1>2, OInvariance, PTL
=============================================================================
