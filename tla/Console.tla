------------------------------ MODULE Console -------------------------------
(***************************************************************************)
(* `kubectl krb tui` (cli/kubectl-krb/internal/tui): one event loop that   *)
(* handles keys and the messages of background commands.  Refreshes of the *)
(* list, actions on the API server and the loading of node labels all run  *)
(* beside the loop, overlap, and answer in any order.  A row with an       *)
(* action under way carries a pending marker, which holds back other       *)
(* actions on the row and its relatives until the snapshots show the       *)
(* change, or 120 s have passed.                                           *)
(*                                                                         *)
(* Left out: what a marker's verb, a toast and the views say, the fields   *)
(* typed into forms beyond whether they are valid, the bytes of a keytab   *)
(* (module Rotation) and the text of a selector.                           *)
(***************************************************************************)
EXTENDS Naturals, FiniteSets, Sequences, SequencesExt

CONSTANTS
    Tenant, Principal,  \* names of objects
    Parent,             \* Parent[p]: the Tenant of p's spec.tenantRef
    Order,              \* the place of a name in the list, principals behind their tenant
    Node,               \* nodes of the cluster
    Start,              \* snapshots of the cluster when the console is started
    Labels,             \* what a load of node labels may find: how many of each kind
    None,               \* no object, no marker, no labels, no signature
    StableTicks,        \* tenantStableTicksRequired
    Limit               \* bounds: keys and changes, changes of the cluster, loads

Object == Tenant \cup Principal
Snapshot ==
    [live : SUBSET Object, disabled : SUBSET Object, minted : [Principal -> SUBSET Node]]

ASSUME ConsoleAssumption ==
    /\ IsFiniteSet(Object) /\ IsFiniteSet(Node) /\ Tenant \cap Principal = {}
    /\ Order \in [Object -> Nat] /\ \A o, q \in Object : Order[o] = Order[q] => o = q
    /\ Parent \in [Principal -> Tenant]
    /\ Start \subseteq Snapshot
    /\ Labels \subseteq [custom : Nat, system : Nat]
    /\ None \notin Object /\ None \notin Labels
    /\ StableTicks \in Nat
    /\ Limit \in [steps : Nat, world : Nat, loads : Nat]

VARIABLES
    api,      \* API server: the objects, which are disabled, where each is Minted
    shown,    \* m.tenants, m.principals: the snapshot on the screen
    past,     \* the snapshots refreshes under way may still bring
    mode,     \* m.mode; under the help overlay, m.prev
    help,     \* m.mode = modeHelp
    cursor,   \* m.cursor
    form,     \* the open form: its target, or the tenants it offers
    picker,   \* m.selector: focus, pickerIdx, showSystem, labels
    loads,    \* mkLoadLabelsCmd under way
    pending,  \* m.pending: a marker for each object, or None
    cmds,     \* actions under way, and their results not yet handled
    (* history *)
    chosen,   \* the row under the cursor when the open form was asked for
    keys, moves

ui == <<mode, help, cursor, form, chosen>>
label == <<picker, loads>>
vars == <<api, past, shown, ui, label, pending, cmds, keys, moves>>

Children(t) == {p \in Principal : Parent[p] = t}

Nothing == [live |-> {}, disabled |-> {}, minted |-> [p \in Principal |-> {}]]

Form == {"tenant", "principal", "rotate", "selector", "delete"}
NoPicker == [focus |-> "input", idx |-> 0, showSystem |-> FALSE, labels |-> None, alone |-> TRUE]

(* refresh(): the ticker, R and every result start one, so that any number *)
(* are under way.  Each lists the tenants and then the principals, and may *)
(* have read the first list, or both, before the cluster changes to a.     *)
Refreshed(s, a) ==
    [a EXCEPT !.live = (s.live \cap Tenant) \cup (@ \cap Principal),
              !.disabled = (s.disabled \cap Tenant) \cup (@ \cap Principal)]

Becomes(a) == api' = a /\ past' = past \cup {a} \cup {Refreshed(s, a) : s \in past}

Init ==
    /\ api \in Start
    /\ shown = Nothing
    /\ past = {api}
    /\ mode = "splash" /\ help = FALSE /\ cursor = 0 /\ form = {} /\ chosen = None
    /\ picker = NoPicker /\ loads = 0
    /\ pending = [o \in Object |-> None] /\ cmds = <<>>
    /\ keys = 0 /\ moves = 0

-----------------------------------------------------------------------------
(* The rows: every tenant, each followed by its principals, then the       *)
(* principals whose tenant is not in the snapshot.                         *)
visibleRows == shown.live
Orphans == {p \in Principal \cap shown.live : Parent[p] \notin shown.live}
Above(o) ==
    {q \in visibleRows : IF q \in Orphans <=> o \in Orphans THEN Order[q] < Order[o]
                         ELSE o \in Orphans}

selectedRow ==
    IF \E o \in visibleRows : Cardinality(Above(o)) = cursor
    THEN CHOOSE o \in visibleRows : Cardinality(Above(o)) = cursor ELSE None

(* principalSig and tenantSig: a childless tenant has the hash of an empty *)
(* roster, which does not change.                                          *)
Sig(s, o) ==
    IF o \in Principal THEN s.minted[o]
    ELSE LET kids == Children(o) \cap s.live
         IN <<Cardinality({pn \in kids \X Node : pn[2] \in s.minted[pn[1]]}), Cardinality(kids)>>

(* stableTicks is only compared with StableTicks, and counts no further.   *)
Marker(s, o) == [before |-> Sig(s, o), last |-> None, stable |-> 0, accepted |-> FALSE]
Mark(o) == pending' = [pending EXCEPT ![o] = Marker(shown, o)]

checkPendingConflictSlip(o) ==  \* slip: a tenant does not look at its principals
    \/ pending[o] # None
    \/ o \in Principal /\ pending[Parent[o]] # None
checkPendingConflict(o) ==
    \/ pending[o] # None
    \/ o \in Principal /\ pending[Parent[o]] # None
    \/ o \in Tenant /\ \E p \in Children(o) \cap shown.live : pending[p] # None

(* Converged, judged on the snapshot s. *)
tenantConverged(s, t, m) ==
    CASE Sig(s, t)[2] = 0  -> Sig(s, t) # m.before
      [] t \in s.disabled  -> Sig(s, t)[1] = 0
      [] OTHER             -> Sig(s, t) # m.before /\ m.stable >= StableTicks

converged(s, o, m) ==
    \/ o \notin s.live
    \/ o \in Principal /\ Sig(s, o) # m.before
    \/ o \in Tenant /\ tenantConverged(s, o, m)

(* The stability of a principal's signature is never consulted. *)
observed(s, o, m) ==
    IF o \in Principal THEN m
    ELSE IF m.last = Sig(s, o) THEN [m EXCEPT !.stable = IF @ < StableTicks THEN @ + 1 ELSE @]
    ELSE [m EXCEPT !.last = Sig(s, o), !.stable = 0]

resolvePendingSlip(s, late) ==  \* slip: no timeout
    [o \in Object |->
        IF pending[o] = None \/ converged(s, o, pending[o])
        THEN None ELSE observed(s, o, pending[o])]
(* late: the markers that are 120 s old. *)
resolvePending(s, late) ==
    [o \in Object |->
        IF pending[o] = None \/ converged(s, o, pending[o]) \/ o \in late
        THEN None ELSE observed(s, o, pending[o])]

-----------------------------------------------------------------------------
(* Keys.  kubectl edit holds the terminal and stops the event loop. *)

Editing == \E i \in 1..Len(cmds) : cmds[i].done = "editing"
Running == mode # "quit" /\ ~Editing
Counted == keys + moves < Limit.steps /\ keys' = keys + 1
OnList == Running /\ mode = "list" /\ ~help

background == <<api, past, shown, moves>>

Cmd(kind, o, want, key) ==
    [kind |-> kind, target |-> o, want |-> want, key |-> key, done |-> "no", chosen |-> chosen]

(* A refusal of the console itself is a result like any other. *)
Refuse == cmds' = Append(cmds, [Cmd("none", None, FALSE, FALSE) EXCEPT !.done = "failed", !.chosen = None])
Issue(kind, o, want, key) == cmds' = Append(cmds, Cmd(kind, o, want, key))

LeaveSplash ==
    /\ Running /\ mode = "splash"
    /\ mode' = "list"
    /\ UNCHANGED <<background, help, cursor, form, chosen, label, pending, cmds, keys>>

(* ctrl+c, and q on the list: the program ends with all it holds. *)
Ends ==
    /\ mode' = "quit" /\ help' = FALSE /\ cursor' = 0 /\ form' = {} /\ chosen' = None
    /\ shown' = Nothing /\ picker' = NoPicker /\ loads' = 0
    /\ pending' = [o \in Object |-> None] /\ cmds' = <<>>
    /\ UNCHANGED <<api, past, keys, moves>>

Quit == Running /\ Ends

Help ==
    /\ Running /\ mode # "splash" /\ ~help /\ Counted
    /\ help' = TRUE
    /\ UNCHANGED <<background, mode, cursor, form, chosen, label, pending, cmds>>

(* Back to the list.  What the form held is overwritten when one is opened.*)
ToList == mode' = "list" /\ help' = FALSE /\ form' = {} /\ chosen' = None /\ picker' = NoPicker

Esc ==
    /\ Running
    /\ \/ help /\ help' = FALSE /\ UNCHANGED <<mode, form, chosen, picker>>
       \/ ~help /\ mode \in Form /\ ToList
    /\ UNCHANGED <<background, cursor, loads, pending, cmds, keys>>

Move ==
    /\ OnList
    /\ \/ cursor > 0 /\ cursor' = cursor - 1
       \/ cursor + 1 < Cardinality(visibleRows) /\ cursor' = cursor + 1
    /\ UNCHANGED <<background, mode, help, form, chosen, label, pending, cmds, keys>>

Open(kind, held, row) ==
    /\ OnList /\ Counted
    /\ mode' = kind /\ form' = held /\ chosen' = row
    /\ UNCHANGED <<background, help, cursor, pending, cmds>>

(* n, t: the add-principal form offers the tenants shown at that moment. *)
OpenTenantForm == Open("tenant", {}, None) /\ UNCHANGED label
OpenPrincipalForm == Open("principal", shown.live \cap Tenant, None) /\ UNCHANGED label

Free(o) == o # None /\ ~checkPendingConflict(o)

OpenRotateForm ==
    /\ selectedRow \in Principal /\ Free(selectedRow)
    /\ Open("rotate", {selectedRow}, selectedRow)
    /\ UNCHANGED label

OpenDeleteForm ==
    /\ Free(selectedRow)
    /\ Open("delete", {selectedRow}, selectedRow)
    /\ UNCHANGED label

OpenSelectorForm ==
    /\ selectedRow \in Principal /\ Free(selectedRow)
    /\ loads < Limit.loads /\ loads' = loads + 1
    /\ Open("selector", {selectedRow}, selectedRow)
    /\ picker' = [NoPicker EXCEPT !.alone = loads = 0]

(* x: the wish is the opposite of what the screen says. *)
toggleDisabled ==
    /\ OnList /\ Counted
    /\ LET o == selectedRow IN
        /\ Free(o)
        /\ Mark(o)
        /\ cmds' = Append(cmds, [Cmd("toggle", o, o \notin shown.disabled, TRUE) EXCEPT !.chosen = o])
    /\ UNCHANGED <<background, ui, label>>

(* e, on a row or, with a result that says so, on none. *)
spawnEdit ==
    /\ OnList /\ Counted
    /\ LET o == selectedRow IN
        \/ Free(o) /\ cmds' = Append(cmds, [Cmd("edit", o, FALSE, FALSE) EXCEPT !.chosen = o])
        \/ o = None /\ Refuse
    /\ UNCHANGED <<background, ui, label, pending>>

-----------------------------------------------------------------------------
(* Submissions.  The form stays open until the result is handled. *)

Submit(kind) ==
    /\ Running /\ ~help /\ mode = kind /\ Counted
    /\ UNCHANGED <<background, ui, label>>

submitTenantForm ==
    /\ Submit("tenant") /\ UNCHANGED pending
    /\ Refuse \/ \E t \in Tenant : Issue("create", t, FALSE, FALSE)

submitPrincipalForm ==
    /\ Submit("principal") /\ UNCHANGED pending
    /\ Refuse \/ \E p \in Principal : Parent[p] \in form /\ Issue("create", p, FALSE, FALSE)

submitRotateForm ==
    /\ Submit("rotate") /\ UNCHANGED pending
    /\ \E p \in form :
        \/ Refuse
        \/ ~(p \in shown.live /\ checkPendingConflict(p)) /\ Issue("rotate", p, FALSE, FALSE)

(* Only a principal that is still in the snapshot is marked. *)
submitSelectorForm ==
    /\ Submit("selector") /\ picker.focus = "input"
    /\ \E p \in form :
        \/ Refuse /\ UNCHANGED pending
        \/ /\ ~(p \in shown.live /\ checkPendingConflict(p))
           /\ IF p \in shown.live THEN Mark(p) ELSE UNCHANGED pending
           /\ Issue("selector", p, FALSE, TRUE)

submitDeleteSlip ==  \* slip: the row under the cursor now
    /\ Submit("delete") /\ UNCHANGED pending
    /\ LET o == selectedRow IN
        IF o = None \/ checkPendingConflict(o) THEN Refuse ELSE Issue("delete", o, FALSE, FALSE)
submitDelete ==
    /\ Submit("delete") /\ UNCHANGED pending
    /\ \E o \in form :
        IF checkPendingConflict(o) THEN Refuse ELSE Issue("delete", o, FALSE, FALSE)

-----------------------------------------------------------------------------
(* The picker of the selector form. *)

(* Labels come sorted, those set by operators first. *)
Count(p) ==
    IF p.labels = None THEN 0
    ELSE p.labels.custom + (IF p.showSystem THEN p.labels.system ELSE 0)

OnPicker == Running /\ ~help /\ mode = "selector"

SwitchFocus ==
    /\ OnPicker
    /\ IF picker.focus = "picker" THEN picker' = [picker EXCEPT !.focus = "input"]
       ELSE Count(picker) > 0 /\ picker' = [picker EXCEPT !.focus = "picker"]
    /\ UNCHANGED <<background, ui, loads, pending, cmds, keys>>

clampedSlip(p) == p  \* slip: the index stays where it was
clamped(p) ==
    IF p.idx < Count(p) THEN p
    ELSE [p EXCEPT !.idx = IF Count(p) = 0 THEN 0 ELSE Count(p) - 1]

(* Any key on an empty list goes back to the input, and so does enter,     *)
(* which reads the label under the index.                                  *)
updateSelectorPicker ==
    /\ OnPicker /\ picker.focus = "picker"
    /\ LET n == Count(picker) IN
        IF n = 0 THEN picker' = [picker EXCEPT !.focus = "input"]
        ELSE \/ picker.idx + 1 < n /\ picker' = [picker EXCEPT !.idx = @ + 1]
             \/ picker.idx > 0 /\ picker' = [picker EXCEPT !.idx = @ - 1]
             \/ picker' = [picker EXCEPT !.idx = 0]
             \/ picker' = [picker EXCEPT !.idx = n - 1]
             \/ picker' = clamped([picker EXCEPT !.showSystem = ~@])
             \/ picker.idx < n /\ picker' = [picker EXCEPT !.focus = "input"]
    /\ UNCHANGED <<background, ui, loads, pending, cmds, keys>>

(* Enter on an index past the list: an index out of range ends the program.*)
PickerPanics ==
    /\ OnPicker /\ picker.focus = "picker"
    /\ Count(picker) > 0 /\ picker.idx >= Count(picker)
    /\ Ends

(* The labels go into the form on the screen, whichever form asked; with   *)
(* none on the screen nobody reads them.                                   *)
nodeLabelsLoaded(r) ==
    /\ Running /\ loads > 0
    /\ loads' = loads - 1
    /\ picker' = IF mode = "selector" THEN [picker EXCEPT !.labels = r] ELSE picker
    /\ UNCHANGED <<background, ui, pending, cmds, keys>>

-----------------------------------------------------------------------------
(* Snapshots arrive.  A list that fails or takes more than 8 s only shows  *)
(* the error.                                                              *)

TakesSlip(s, late) ==  \* slip: the cursor stays where it was
    /\ shown' = s
    /\ pending' = resolvePending(s, late)
    /\ UNCHANGED <<api, past, cursor, mode, help, form, chosen, label, cmds, keys, moves>>
Takes(s, late) ==
    /\ shown' = s
    /\ cursor' = LET n == Cardinality(visibleRows') IN
                 IF cursor < n THEN cursor ELSE IF n = 0 THEN 0 ELSE n - 1
    /\ pending' = resolvePending(s, late)
    /\ UNCHANGED <<api, past, mode, help, form, chosen, label, cmds, keys, moves>>

Marked == {o \in Object : pending[o] # None}

dataMsgSlip(s, late) ==  \* slip: refreshes only while something is pending
    Running /\ s \in past /\ (shown = Nothing \/ Marked # {}) /\ Takes(s, late)
dataMsg(s, late) == Running /\ s \in past /\ Takes(s, late)

(* The refreshes that read an older state have all answered or given up. *)
Settle ==
    /\ past # {api}
    /\ past' = {api}
    /\ UNCHANGED <<api, shown, ui, label, pending, cmds, keys, moves>>

-----------------------------------------------------------------------------
(* Actions on the API server. *)

rest == <<shown, ui, label, keys>>
Done(i, how) == cmds' = [cmds EXCEPT ![i].done = how]

Without(a, o) ==
    [live |-> a.live \ {o}, disabled |-> a.disabled \ {o},
     minted |-> [p \in Principal |-> IF p = o THEN {} ELSE a.minted[p]]]

(* What the request does when the API server takes it: ToggleDisabled,     *)
(* AddTenant and CreatePrincipalWithKeytab, SetPrincipalNodeSelector and   *)
(* RotateKeytab, whose results the daemons show later, and a deletion,     *)
(* which for a principal takes effect when the operator releases it.       *)
Written(c) ==
    CASE c.kind = "toggle" /\ c.want  -> [api EXCEPT !.disabled = @ \cup {c.target}]
      [] c.kind = "toggle" /\ ~c.want -> [api EXCEPT !.disabled = @ \ {c.target}]
      [] c.kind = "create"            -> [api EXCEPT !.live = @ \cup {c.target}]
      [] c.kind = "delete" /\ c.target \in Tenant -> Without(api, c.target)
      [] OTHER                        -> api

(* It names an object that is there, or, for a tenant, one that is not.    *)
Acceptable(c) ==
    IF c.kind = "create" THEN c.target \in Tenant => c.target \notin api.live
    ELSE c.target \in api.live

Perform(i) ==
    /\ mode # "quit"
    /\ cmds[i].done = "no" /\ cmds[i].kind # "edit"
    /\ LET c == cmds[i] IN
        \/ /\ Acceptable(c)
           /\ Becomes(Written(c)) /\ Done(i, "ok")
           /\ pending' = IF c.key /\ pending[c.target] # None
                         THEN [pending EXCEPT ![c.target].accepted = TRUE] ELSE pending
        \/ UNCHANGED <<api, past, pending>> /\ Done(i, "failed")
        \/ Acceptable(c) /\ Becomes(Written(c)) /\ Done(i, "failed") /\ UNCHANGED pending
    /\ UNCHANGED <<rest, moves>>

(* kubectl edit takes the terminal; its user may leave the object alone,   *)
(* flip spec.disabled, or change a field this model leaves out.            *)
BeginEdit(i) ==
    /\ Running /\ cmds[i].kind = "edit" /\ cmds[i].done = "no"
    /\ Done(i, "editing")
    /\ UNCHANGED <<api, past, rest, pending, moves>>

EndEdit(i) ==
    /\ cmds[i].done = "editing"
    /\ LET o == cmds[i].target IN
        \/ UNCHANGED <<api, past>> /\ Done(i, "failed")
        \/ o \in api.live /\ UNCHANGED <<api, past>> /\ Done(i, "ok")
        \/ /\ o \in api.live
           /\ Becomes([api EXCEPT !.disabled = IF o \in @ THEN @ \ {o} ELSE @ \cup {o}])
           /\ Done(i, "ok")
    /\ UNCHANGED <<rest, pending, moves>>

actionResultMsgSlip(i) ==  \* slip: the marker of a failed action stays
    /\ Running /\ cmds[i].done \in {"ok", "failed"}
    /\ ToList
    /\ cmds' = RemoveAt(cmds, i)
    /\ UNCHANGED <<api, past, shown, cursor, loads, pending, keys, moves>>
(* The result closes whatever is on the screen. *)
actionResultMsg(i) ==
    /\ Running /\ cmds[i].done \in {"ok", "failed"}
    /\ LET c == cmds[i] IN
        pending' = IF c.done = "failed" /\ c.key THEN [pending EXCEPT ![c.target] = None]
                   ELSE pending
    /\ ToList
    /\ cmds' = RemoveAt(cmds, i)
    /\ UNCHANGED <<api, past, shown, cursor, loads, keys, moves>>

-----------------------------------------------------------------------------
(* The cluster: daemons mint and prune, the operator releases a deleted    *)
(* principal, other clients delete.                                        *)
World == mode # "quit" /\ moves < Limit.world /\ keys + moves < Limit.steps /\ moves' = moves + 1

DaemonsAct(p, S) ==
    /\ World /\ p \in api.live /\ S # api.minted[p]
    /\ Becomes([api EXCEPT !.minted[p] = S])
    /\ UNCHANGED <<rest, pending, cmds>>

Disappears(o) ==
    /\ World /\ o \in api.live
    /\ Becomes(Without(api, o))
    /\ UNCHANGED <<rest, pending, cmds>>

Next ==
    \/ LeaveSplash \/ Quit \/ Help \/ Esc \/ Move
    \/ OpenTenantForm \/ OpenPrincipalForm \/ OpenRotateForm \/ OpenDeleteForm \/ OpenSelectorForm
    \/ toggleDisabled \/ spawnEdit
    \/ submitTenantForm \/ submitPrincipalForm \/ submitRotateForm
    \/ submitSelectorForm \/ submitDelete
    \/ SwitchFocus \/ updateSelectorPicker \/ PickerPanics
    \/ \E r \in Labels \cup {None} : nodeLabelsLoaded(r)
    \/ Settle \/ \E s \in past, late \in SUBSET Marked : dataMsg(s, late)
    \/ \E o \in Object : Disappears(o)
    \/ \E i \in 1..Len(cmds) : Perform(i) \/ BeginEdit(i) \/ EndEdit(i) \/ actionResultMsg(i)
    \/ \E p \in Principal, S \in SUBSET Node : DaemonsAct(p, S)

(* The ticker never stops, not every refresh fails, each answers or gives  *)
(* up, and a marker grows old.                                             *)
Fairness ==
    /\ WF_vars(\E s \in past : dataMsg(s, Marked))
    /\ WF_vars(Settle)

Spec == Init /\ [][Next]_vars /\ Fairness

-----------------------------------------------------------------------------
(* Every variable holds a value of its type; the cursor is on a row, or at *)
(* the top of an empty list.                                               *)
TypeOK ==
    /\ {api, shown} \cup past \subseteq Snapshot /\ api \in past
    /\ mode \in Form \cup {"splash", "list", "quit"} /\ help \in BOOLEAN
    /\ cursor \in Nat /\ (cursor < Cardinality(visibleRows) \/ cursor = 0)
    /\ form \subseteq Object
    /\ picker \in [focus : {"input", "picker"}, idx : Nat, showSystem : BOOLEAN,
                   labels : Labels \cup {None}, alone : BOOLEAN]
    /\ loads \in Nat
    /\ \A i \in 1..Len(cmds) : cmds[i].target \in Object \cup {None}

(* "Parent-tenant actions cascade to children", so "a tenant-level change  *)
(* ... would clash with the in-flight child action" (checkPendingConflict):*)
(* a tenant and one of its principals are never both marked, whatever the  *)
(* snapshots that come and go between opening a form and submitting it say.*)
NoCascadeConflict == \A p \in Principal : pending[p] = None \/ pending[Parent[p]] = None

(* A marker is there for a reason, and the spinner does not "grind against *)
(* nothing" (app.go): the request it stands for is under way, or its       *)
(* failure is about to be handled, or the API server has taken one.        *)
WaitsForSomething ==
    \A o \in Object : pending[o] # None =>
        \/ pending[o].accepted
        \/ \E i \in 1..Len(cmds) : cmds[i].key /\ cmds[i].target = o

(* An action from a form is applied to the row that was under the cursor   *)
(* when the form was opened, although rows appear, disappear and move      *)
(* under it while the form is filled in.                                   *)
ActsOnChosen ==
    \A i \in 1..Len(cmds) :
        cmds[i].kind \in {"toggle", "edit", "rotate", "selector", "delete"} =>
            cmds[i].target = cmds[i].chosen

(* The index of the picker is an "index into visibleLabels()" (forms.go)   *)
(* while the list grows by loading and shrinks by hiding system labels, as *)
(* long as no older form's load was under way when the form was opened.    *)
PickerInRange ==
    mode = "selector" /\ picker.alone =>
        picker.idx < Count(picker) \/ (picker.idx = 0 /\ Count(picker) = 0)

(* Every marker is taken away in the end, converged, failed or timed out,  *)
(* so that again and again none is left, unless the user leaves or stays   *)
(* in the editor.                                                          *)
MarkersEnd == []<>(Marked = {} \/ ~Running)

(* Once the cluster is quiet the screen shows it for good: a refresh that  *)
(* answers late may bring an old snapshot back, but not to stay.           *)
CatchesUp == <>[](Running => shown = api)
=============================================================================
