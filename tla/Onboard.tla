------------------------------ MODULE Onboard -------------------------------
(***************************************************************************)
(* Adding a Principal: `kubectl krb add-principal` and the form of the     *)
(* console share createSecretAndPrincipal (cli/kubectl-krb/internal/       *)
(* add_principal.go), which creates the keytab Secret and then the         *)
(* Principal, takes an object that is already there for its own, and may   *)
(* be cut off between the two.  The second creation passes the webhook of  *)
(* module Admission, whose Principal is here the one named uid-<Name>.     *)
(***************************************************************************)
EXTENDS Admission

CONSTANTS
    Name,    \* the UID that names the Secret and the Principal
    Key,     \* keytabs
    Keyless, \* what a Secret without the entry uid-<Name>.keytab holds
    Adder,   \* processes that add it
    MaxAdds  \* bound: additions begun

ASSUME OnboardAssumption ==
    /\ Name \in Uid /\ MaxAdds \in Nat
    /\ Absent \notin Key \cup {Keyless} /\ Keyless \notin Key

VARIABLES
    secret,  \* the bytes in Secret uid-<Name>-keytab, Keyless, or Absent
    add,     \* add[a]: where a stands, and what it was given
    (* history *)
    origin,  \* the stored Principal was created by an adder
    lost,    \* somebody deleted the Secret
    adds

added == <<secret, add, origin, lost, adds>>
ovars == <<vars, added>>

Idle == [at |-> "idle", realm |-> Absent, key |-> Absent, fresh |-> FALSE]

(* The Principal an adder writes. *)
Given(r) == [uid |-> Name, realm |-> r, tenantRef |-> TRUE, secretRef |-> "whole"]

OInit ==
    /\ Init
    /\ secret \in Key \cup {Keyless, Absent}
    /\ add = [a \in Adder |-> Idle]
    /\ origin = FALSE /\ lost = FALSE /\ adds = 0

(* Nobody else has touched the two objects since a began to add them. *)
Disturbed == [a \in Adder |-> [add[a] EXCEPT !.fresh = FALSE]]

-----------------------------------------------------------------------------
(* runAddPrincipal up to the first creation.  The command looks the Tenant *)
(* up and stops when there is none; the console has it from a snapshot.    *)
(* The principal's realm is the Tenant's, unless another is asked for.     *)
Begin(a, r, k) ==
    /\ add[a].at = "idle" /\ Name > 0
    /\ adds < MaxAdds /\ adds' = adds + 1
    /\ add' = [Disturbed EXCEPT ![a] =
                  [at |-> "secret", realm |-> r, key |-> k,
                   fresh |-> secret = Absent /\ principal = Absent
                             /\ \A b \in Adder : add[b].at = "idle"]]
    /\ UNCHANGED <<vars, secret, origin, lost>>

runAddPrincipal(a, r, k) == tenant # Absent /\ Begin(a, r, k)
submitPrincipalForm(a, r, k) == Begin(a, r, k)

Stops(a) == add' = [add EXCEPT ![a] = Idle]

(* AlreadyExists is taken for success, whatever the Secret that exists     *)
(* holds: another key, or no entry of the name the Principal refers to.    *)
CreateSecretSlip(a) ==  \* slip: any error is taken for AlreadyExists
    /\ add[a].at = "secret"
    /\ secret' \in {secret, IF secret = Absent THEN add[a].key ELSE secret}
    /\ lost' = (lost /\ secret # Absent)
    /\ add' = [add EXCEPT ![a].at = "principal"]
    /\ UNCHANGED <<vars, origin, adds>>
CreateSecret(a) ==
    /\ add[a].at = "secret"
    /\ secret' = IF secret = Absent THEN add[a].key ELSE secret
    /\ lost' = (lost /\ secret # Absent)
    /\ add' = [add EXCEPT ![a].at = "principal"]
    /\ UNCHANGED <<vars, origin, adds>>

CreatePrincipalSlip(a) ==  \* slip: the webhook's refusal, too
    /\ add[a].at = "principal"
    /\ IF principal = Absent THEN (Create(Given(add[a].realm)) \/ UNCHANGED vars) /\ origin' = TRUE
       ELSE UNCHANGED <<vars, origin>>
    /\ add' = [add EXCEPT ![a].at = "done"]
    /\ UNCHANGED <<secret, lost, adds>>
CreatePrincipal(a) ==
    /\ add[a].at = "principal"
    /\ IF principal = Absent THEN Create(Given(add[a].realm)) /\ origin' = TRUE
       ELSE UNCHANGED <<vars, origin>>
    /\ add' = [add EXCEPT ![a].at = "done"]
    /\ UNCHANGED <<secret, lost, adds>>

(* A creation fails, the webhook refuses, or the process is interrupted. *)
Fails(a) ==
    /\ add[a].at \in {"secret", "principal"}
    /\ Stops(a)
    /\ UNCHANGED <<vars, secret, origin, lost, adds>>

Reported(a) ==
    /\ add[a].at = "done"
    /\ Stops(a)
    /\ UNCHANGED <<vars, secret, origin, lost, adds>>

(* A Secret has no owner: it stays when its Principal is deleted, until    *)
(* somebody deletes it, too.                                               *)
DeleteSecret ==
    /\ secret # Absent /\ Changed
    /\ secret' = Absent /\ lost' = TRUE
    /\ add' = Disturbed
    /\ UNCHANGED <<tenant, range, serving, others, origin, adds>>

(* The steps of module Admission that leave the Secret alone. *)
Elsewhere ==
    /\ Next
    /\ add' = IF principal' = principal THEN add ELSE Disturbed
    /\ origin' = (origin /\ principal # Absent)
    /\ UNCHANGED <<secret, lost, adds>>

ONext ==
    \/ Elsewhere \/ DeleteSecret
    \/ \E a \in Adder :
        \/ \E r \in Realm \cup {Malformed}, k \in Key :
              runAddPrincipal(a, r, k) \/ submitPrincipalForm(a, r, k)
        \/ CreateSecret(a) \/ CreatePrincipal(a) \/ Fails(a) \/ Reported(a)

OSpec == OInit /\ [][ONext]_ovars

-----------------------------------------------------------------------------
(* createSecretAndPrincipal creates the Secret first: whatever fails or is *)
(* interrupted between the two creations, a Principal it created never     *)
(* lacks its Secret, unless somebody deleted it.                           *)
NeverWithoutSecret == principal # Absent /\ origin => secret # Absent \/ lost

(* "secret/... created", "principal.../... created" is true of what the    *)
(* command was given when it found neither object and nobody interfered:   *)
(* the node will mint with that key for that principal.                    *)
FreshAddIsExact ==
    \A a \in Adder : add[a].at = "done" /\ add[a].fresh =>
        secret = add[a].key /\ principal = Given(add[a].realm)
=============================================================================
