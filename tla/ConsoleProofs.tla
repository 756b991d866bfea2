--------------------------- MODULE ConsoleProofs ----------------------------
(* What the console guarantees for every set of tenants, principals, nodes *)
(* and labels, every cluster it is started on and every number of keys,    *)
(* changes and commands under way.                                         *)
EXTENDS Console, FiniteSetTheorems, SequenceTheorems, TLAPS

Signature == (SUBSET Node) \cup (Nat \X Nat)
PendingMarker == [before : Signature, last : Signature \cup {None},
                  stable : Nat, accepted : BOOLEAN]

Command == [kind : {"none", "toggle", "edit", "create", "rotate", "selector", "delete"},
            target : Object \cup {None}, want : BOOLEAN, key : BOOLEAN,
            done : {"no", "editing", "ok", "failed"}, chosen : Object \cup {None}]

(* A command names an object, the one that was chosen for it, and no       *)
(* marker waits for an editor.                                             *)
Aimed == {c \in Command :
    /\ c.kind = "edit" => ~c.key
    /\ c.kind # "none" \/ c.key => c.target \in Object
    /\ c.kind \in {"toggle", "edit", "rotate", "selector", "delete"} => c.target = c.chosen}

WorldInv == {api, shown} \cup past \subseteq Snapshot /\ api \in past

(* A form that acts on a row holds the row it was opened on. *)
ScreenInv ==
    /\ mode \in Form \cup {"splash", "list", "quit"} /\ help \in BOOLEAN
    /\ cursor \in Nat /\ (cursor < Cardinality(visibleRows) \/ cursor = 0)
    /\ form \subseteq Object /\ chosen \in Object \cup {None}
    /\ mode \in {"rotate", "selector", "delete"} => form = {chosen}

Picker == [focus : {"input", "picker"}, idx : Nat, showSystem : BOOLEAN,
           labels : Labels \cup {None}, alone : BOOLEAN]
InRange(p) == p.idx < Count(p) \/ (p.idx = 0 /\ Count(p) = 0)

(* Before its only load answers, a form has no labels.                     *)
PickerInv ==
    /\ picker \in Picker
    /\ loads \in Nat
    /\ mode = "selector" /\ picker.alone /\ loads > 0 => loads = 1 /\ picker.labels = None
    /\ PickerInRange

CommandInv == cmds \in Seq(Aimed)

(* Only what is on the screen is marked. *)
MarkInv ==
    /\ pending \in [Object -> PendingMarker \cup {None}]
    /\ \A o \in Object : pending[o] # None => o \in shown.live
    /\ NoCascadeConflict

(* A marker the API server has not accepted waits for a command that has   *)
(* not been carried out, or whose failure takes the marker away.           *)
Awaited(o) ==
    \E i \in 1..Len(cmds) : cmds[i].key /\ cmds[i].target = o /\ cmds[i].done \in {"no", "failed"}
WaitInv == \A o \in Object : pending[o] # None => pending[o].accepted \/ Awaited(o)

IInv == WorldInv /\ ScreenInv /\ PickerInv /\ CommandInv /\ MarkInv /\ WaitInv

-----------------------------------------------------------------------------
(* selectedRow is a row of the snapshot on the screen, or none. *)
LEMMA SelectedShown == selectedRow \in shown.live \cup {None}
BY Zenon DEF selectedRow, visibleRows

(* RemoveAt drops one command and keeps all others. *)
LEMMA Removed ==
  ASSUME NEW S, NEW s \in Seq(S), NEW i \in 1..Len(s)
  PROVE  /\ RemoveAt(s, i) \in Seq(S)
         /\ \A j \in 1..Len(s) : j # i =>
               \E k \in 1..Len(RemoveAt(s, i)) : RemoveAt(s, i)[k] = s[j]
<1> DEFINE front == SubSeq(s, 1, i - 1)
           back == SubSeq(s, i + 1, Len(s))
<1>1. /\ front \in Seq(S) /\ Len(front) = i - 1
      /\ \A j \in 1..(i - 1) : front[j] = s[j]
  BY SubSeqProperties
<1>2. /\ back \in Seq(S) /\ Len(back) = Len(s) - i
      /\ \A j \in 1..(Len(s) - i) : back[j] = s[i + j]
  BY SubSeqProperties, LenProperties
<1> HIDE DEF front, back
<1>3. /\ front \o back \in Seq(S) /\ Len(front \o back) = Len(front) + Len(back)
      /\ \A j \in 1..(Len(front) + Len(back)) :
            (front \o back)[j] = IF j <= Len(front) THEN front[j] ELSE back[j - Len(front)]
  BY <1>1, <1>2, ConcatProperties
<1>4. RemoveAt(s, i) = front \o back
  BY DEF RemoveAt, front, back
<1>5. ASSUME NEW j \in 1..Len(s), j # i
      PROVE  \E k \in 1..Len(front \o back) : (front \o back)[k] = s[j]
  <2>1. CASE j < i
    <3>1. j \in 1..Len(front \o back) /\ (front \o back)[j] = front[j]
      BY <1>1, <1>2, <1>3, <2>1
    <3>2. front[j] = s[j]
      BY <1>1, <2>1
    <3> QED
      BY <3>1, <3>2
  <2>2. CASE j > i
    <3>1. j - 1 \in 1..Len(front \o back) /\ (front \o back)[j - 1] = back[j - i]
      BY <1>1, <1>2, <1>3, <2>2
    <3>2. back[j - i] = s[j]
      BY <1>2, <2>2
    <3> QED
      BY <3>1, <3>2
  <2> QED
    BY <1>5, <2>1, <2>2
<1> QED
  BY <1>3, <1>4, <1>5

(* Append adds one command and keeps all others. *)
LEMMA Appended ==
  ASSUME NEW S, NEW s \in Seq(S), NEW c \in S
  PROVE  /\ Append(s, c) \in Seq(S) /\ Len(Append(s, c)) = Len(s) + 1
         /\ Append(s, c)[Len(s) + 1] = c
         /\ \A i \in 1..Len(s) : i \in 1..Len(Append(s, c)) /\ Append(s, c)[i] = s[i]
BY AppendProperties, LenProperties

-----------------------------------------------------------------------------
(* The API server and the snapshots of it. *)

(* refresh() reads snapshots, also while the cluster changes. *)
LEMMA Becoming ==
  ASSUME WorldInv, NEW a \in Snapshot, Becomes(a)
  PROVE  api' \in Snapshot /\ past' \subseteq Snapshot /\ api' \in past'
<1>1. \A s \in past : Refreshed(s, a) \in Snapshot
  BY DEF WorldInv, Refreshed, Snapshot
<1> QED
  BY <1>1 DEF WorldInv, Becomes

(* What a command, an editor or the cluster writes is a snapshot again. *)
LEMMA WrittenType ==
  ASSUME api \in Snapshot, NEW c \in Aimed
  PROVE  Written(c) \in Snapshot
<1>1. c.kind = "none" => Written(c) = api
  BY DEF Written
<1>2. c.kind # "none" => c.target \in Object
  BY DEF Aimed
<1>3. ASSUME c.target \in Object PROVE Written(c) \in Snapshot
  <2>1. [api EXCEPT !.disabled = @ \cup {c.target}] \in Snapshot
    BY <1>3 DEF Snapshot
  <2>2. [api EXCEPT !.disabled = @ \ {c.target}] \in Snapshot
    BY <1>3 DEF Snapshot
  <2>3. [api EXCEPT !.live = @ \cup {c.target}] \in Snapshot
    BY <1>3 DEF Snapshot
  <2>4. Without(api, c.target) \in Snapshot
    BY <1>3 DEF Snapshot, Without
  <2> QED
    BY <2>1, <2>2, <2>3, <2>4 DEF Written
<1> QED
  BY <1>1, <1>2, <1>3

(* Every refresh brings a snapshot, whatever the console and the cluster   *)
(* do.                                                                     *)
LEMMA WorldStep == IInv /\ [Next]_vars => WorldInv'
<1> SUFFICES ASSUME IInv, [Next]_vars PROVE WorldInv'
  OBVIOUS
<1>0. WorldInv /\ CommandInv
  BY DEF IInv
<1>1. ASSUME UNCHANGED <<api, past, shown>> PROVE WorldInv'
  BY <1>0, <1>1 DEF WorldInv
<1>2. ASSUME LeaveSplash \/ Help \/ Esc \/ Move PROVE UNCHANGED <<api, past, shown>>
  BY <1>2 DEF LeaveSplash, Help, Esc, Move, background
<1>3. ASSUME OpenTenantForm \/ OpenPrincipalForm \/ OpenRotateForm \/ OpenDeleteForm
             \/ OpenSelectorForm
      PROVE  UNCHANGED <<api, past, shown>>
  BY <1>3 DEF OpenTenantForm, OpenPrincipalForm, OpenRotateForm, OpenDeleteForm,
              OpenSelectorForm, Open, background
<1>4. ASSUME \/ toggleDisabled \/ spawnEdit \/ submitTenantForm \/ submitPrincipalForm
             \/ submitRotateForm \/ submitSelectorForm \/ submitDelete
      PROVE  UNCHANGED <<api, past, shown>>
  BY <1>4 DEF toggleDisabled, spawnEdit, submitTenantForm, submitPrincipalForm,
              submitRotateForm, submitSelectorForm, submitDelete, Submit, background
<1>5. ASSUME \/ SwitchFocus \/ updateSelectorPicker
             \/ \E r \in Labels \cup {None} : nodeLabelsLoaded(r)
             \/ \E i \in 1..Len(cmds) : BeginEdit(i) \/ actionResultMsg(i)
      PROVE  UNCHANGED <<api, past, shown>>
  BY <1>5 DEF SwitchFocus, updateSelectorPicker, nodeLabelsLoaded, BeginEdit,
              actionResultMsg, background, rest
<1>6. ASSUME Quit \/ PickerPanics PROVE WorldInv'
  <2>1. UNCHANGED <<api, past>> /\ shown' = Nothing
    BY <1>6 DEF Quit, PickerPanics, Ends
  <2>2. Nothing \in Snapshot
    BY DEF Nothing, Snapshot
  <2> QED
    BY <1>0, <2>1, <2>2 DEF WorldInv
<1>7. CASE Settle
  BY <1>0, <1>7 DEF Settle, WorldInv
<1>8. ASSUME NEW s \in past, NEW late \in SUBSET Marked, dataMsg(s, late) PROVE WorldInv'
  BY <1>0, <1>8 DEF dataMsg, Takes, WorldInv
<1>9. ASSUME NEW a \in Snapshot, Becomes(a), UNCHANGED shown PROVE WorldInv'
  BY <1>0, <1>9, Becoming DEF WorldInv
<1>10. ASSUME NEW o \in Object, Disappears(o) PROVE WorldInv'
  <2>1. Without(api, o) \in Snapshot
    BY <1>0 DEF WorldInv, Snapshot, Without
  <2> QED
    BY <1>9, <1>10, <2>1 DEF Disappears, rest
<1>11. ASSUME NEW p \in Principal, NEW S \in SUBSET Node, DaemonsAct(p, S) PROVE WorldInv'
  <2>1. [api EXCEPT !.minted[p] = S] \in Snapshot
    BY <1>0 DEF WorldInv, Snapshot
  <2> QED
    BY <1>9, <1>11, <2>1 DEF DaemonsAct, rest
<1>12. ASSUME NEW i \in 1..Len(cmds), Perform(i) PROVE WorldInv'
  <2>1. cmds[i] \in Aimed /\ api \in Snapshot
    BY <1>0, ElementOfSeq DEF CommandInv, WorldInv
  <2>2. Written(cmds[i]) \in Snapshot
    BY <2>1, WrittenType
  <2> QED
    BY <1>1, <1>9, <1>12, <2>2 DEF Perform, rest
<1>13. ASSUME NEW i \in 1..Len(cmds), EndEdit(i) PROVE WorldInv'
  <2> DEFINE o == cmds[i].target
  <2>1. o \in api.live =>
          [api EXCEPT !.disabled = IF o \in @ THEN @ \ {o} ELSE @ \cup {o}] \in Snapshot
    BY <1>0 DEF WorldInv, Snapshot
  <2> QED
    BY <1>1, <1>9, <1>13, <2>1 DEF EndEdit, rest
<1>14. ASSUME UNCHANGED vars PROVE UNCHANGED <<api, past, shown>>
  BY <1>14 DEF vars
<1> QED
  BY <1>1, <1>2, <1>3, <1>4, <1>5, <1>6, <1>7, <1>8, <1>10, <1>11, <1>12, <1>13, <1>14 DEF Next

-----------------------------------------------------------------------------
(* The screen. *)

(* Numbers of rows are natural numbers. *)
LEMMA RowCount ==
  ASSUME NEW S \in SUBSET Object
  PROVE  Cardinality(S) \in Nat
BY ConsoleAssumption, FS_Subset, FS_CardinalityType

(* The cursor stays on a row when a snapshot is taken, and a form keeps    *)
(* the row it was opened on.                                               *)
LEMMA ScreenStep == IInv /\ [Next]_vars => ScreenInv'
<1> SUFFICES ASSUME IInv, [Next]_vars PROVE ScreenInv'
  OBVIOUS
<1>0. ScreenInv /\ WorldInv /\ WorldInv'
  BY WorldStep DEF IInv
<1>1. ASSUME UNCHANGED <<mode, help, cursor, form, chosen, shown>> PROVE ScreenInv'
  BY <1>0, <1>1 DEF ScreenInv, visibleRows
<1>2. ASSUME \/ toggleDisabled \/ spawnEdit \/ submitTenantForm \/ submitPrincipalForm
             \/ submitRotateForm \/ submitSelectorForm \/ submitDelete
      PROVE  UNCHANGED <<mode, help, cursor, form, chosen, shown>>
  BY <1>2 DEF toggleDisabled, spawnEdit, submitTenantForm, submitPrincipalForm,
              submitRotateForm, submitSelectorForm, submitDelete, Submit, background, ui
<1>3. ASSUME \/ SwitchFocus \/ updateSelectorPicker
             \/ \E r \in Labels \cup {None} : nodeLabelsLoaded(r)
      PROVE  UNCHANGED <<mode, help, cursor, form, chosen, shown>>
  BY <1>3 DEF SwitchFocus, updateSelectorPicker, nodeLabelsLoaded, background, ui
<1>4. ASSUME \/ Settle
             \/ \E o \in Object : Disappears(o)
             \/ \E i \in 1..Len(cmds) : Perform(i) \/ BeginEdit(i) \/ EndEdit(i)
             \/ \E p \in Principal, S \in SUBSET Node : DaemonsAct(p, S)
      PROVE  UNCHANGED <<mode, help, cursor, form, chosen, shown>>
  BY <1>4 DEF Settle, Disappears, Perform, BeginEdit, EndEdit, DaemonsAct, rest, ui
<1>5. CASE LeaveSplash
  BY <1>0, <1>5 DEF LeaveSplash, background, ScreenInv, visibleRows
<1>6. CASE Help
  BY <1>0, <1>6 DEF Help, background, ScreenInv, visibleRows
<1>7. CASE Move
  <2>1. Cardinality(visibleRows) \in Nat
    BY <1>0, RowCount DEF WorldInv, Snapshot, visibleRows
  <2>2. /\ UNCHANGED <<mode, help, form, chosen, shown>>
        /\ \/ cursor > 0 /\ cursor' = cursor - 1
           \/ cursor + 1 < Cardinality(visibleRows) /\ cursor' = cursor + 1
    BY <1>7 DEF Move, background
  <2>3. cursor' \in Nat /\ (cursor' < Cardinality(visibleRows) \/ cursor' = 0)
    BY <1>0, <2>1, <2>2 DEF ScreenInv
  <2> QED
    BY <1>0, <2>2, <2>3 DEF ScreenInv, visibleRows
<1>8. ASSUME ToList, UNCHANGED <<cursor, shown>> PROVE ScreenInv'
  BY <1>0, <1>8 DEF ToList, ScreenInv, visibleRows
<1>9. CASE Esc
  <2>1. CASE help' = FALSE /\ UNCHANGED <<mode, form, chosen, cursor, shown>>
    BY <1>0, <2>1 DEF ScreenInv, visibleRows
  <2> QED
    BY <1>8, <1>9, <2>1 DEF Esc, background
<1>10. ASSUME Quit \/ PickerPanics PROVE ScreenInv'
  <2>1. mode' = "quit" /\ help' = FALSE /\ cursor' = 0 /\ form' = {} /\ chosen' = None
    BY <1>10 DEF Quit, PickerPanics, Ends
  <2> QED
    BY <2>1 DEF ScreenInv
<1>11. ASSUME NEW i \in 1..Len(cmds), actionResultMsg(i) PROVE ScreenInv'
  BY <1>8, <1>11 DEF actionResultMsg
<1>12. ASSUME NEW kind \in Form, NEW held \in SUBSET Object, NEW row \in Object \cup {None},
              Open(kind, held, row),
              kind \in {"rotate", "selector", "delete"} => held = {row}
       PROVE  ScreenInv'
  BY <1>0, <1>12 DEF Open, background, ScreenInv, visibleRows
<1>13. shown.live \subseteq Object
  BY <1>0 DEF WorldInv, Snapshot
<1>14. CASE OpenTenantForm
  BY <1>12, <1>14 DEF OpenTenantForm, Form
<1>15. CASE OpenPrincipalForm
  BY <1>12, <1>13, <1>15 DEF OpenPrincipalForm, Form
<1>16. ASSUME OpenRotateForm \/ OpenDeleteForm \/ OpenSelectorForm PROVE ScreenInv'
  <2>1. selectedRow \in Object
    BY <1>13, <1>16, SelectedShown
       DEF OpenRotateForm, OpenDeleteForm, OpenSelectorForm, Free, Object
  <2> QED
    BY <1>12, <1>16, <2>1 DEF OpenRotateForm, OpenDeleteForm, OpenSelectorForm, Form
<1>17. ASSUME NEW s \in past, NEW late \in SUBSET Marked, dataMsg(s, late) PROVE ScreenInv'
  <2>1. Cardinality(visibleRows') \in Nat
    BY <1>0, RowCount DEF WorldInv, Snapshot, visibleRows
  <2>2. /\ UNCHANGED <<mode, help, form, chosen>>
        /\ cursor' = IF cursor < Cardinality(visibleRows') THEN cursor
                     ELSE IF Cardinality(visibleRows') = 0 THEN 0
                     ELSE Cardinality(visibleRows') - 1
    BY <1>17 DEF dataMsg, Takes
  <2>3. cursor' \in Nat /\ (cursor' < Cardinality(visibleRows') \/ cursor' = 0)
    BY <1>0, <2>1, <2>2 DEF ScreenInv
  <2> QED
    BY <1>0, <2>2, <2>3 DEF ScreenInv
<1>18. ASSUME UNCHANGED vars PROVE UNCHANGED <<mode, help, cursor, form, chosen, shown>>
  BY <1>18 DEF vars, ui
<1> QED
  BY <1>1, <1>2, <1>3, <1>4, <1>5, <1>6, <1>7, <1>9, <1>10, <1>11, <1>14, <1>15, <1>16,
     <1>17, <1>18 DEF Next

-----------------------------------------------------------------------------
(* The picker of node labels. *)

(* The list is as long as a natural number says, and what is not on it     *)
(* does not change its length.                                             *)
LEMMA CountType ==
  ASSUME NEW p \in Picker
  PROVE  /\ Count(p) \in Nat
         /\ p.labels = None => Count(p) = 0
         /\ \A f \in {"input", "picker"} :
               /\ [p EXCEPT !.focus = f] \in Picker
               /\ InRange(p) => InRange([p EXCEPT !.focus = f])
         /\ \A n \in Nat : [p EXCEPT !.idx = n] \in Picker /\ Count([p EXCEPT !.idx = n]) = Count(p)
BY ConsoleAssumption DEF Picker, Count, InRange

(* Hiding the system labels brings the index back into the list. *)
LEMMA ClampedInRange ==
  ASSUME NEW p \in Picker
  PROVE  clamped(p) \in Picker /\ InRange(clamped(p)) /\ clamped(p).alone = p.alone
         /\ clamped(p).labels = p.labels
<1>1. Count(p) \in Nat
  BY CountType
<1>2. CASE p.idx < Count(p)
  BY <1>2 DEF clamped, InRange
<1>3. CASE ~(p.idx < Count(p))
  <2> DEFINE n == IF Count(p) = 0 THEN 0 ELSE Count(p) - 1
             q == [p EXCEPT !.idx = n]
  <2>1. n \in Nat
    BY <1>1
  <2>2. clamped(p) = q
    BY <1>3 DEF clamped
  <2>3. q \in Picker /\ Count(q) = Count(p)
    BY <2>1, CountType
  <2>4. q.idx = n /\ q.alone = p.alone /\ q.labels = p.labels
    BY DEF Picker
  <2> QED
    BY <1>1, <2>2, <2>3, <2>4 DEF InRange
<1> QED
  BY <1>2, <1>3

(* The keys of the picker keep the index of an undisturbed form on the     *)
(* list.                                                                   *)
LEMMA PickerKeys ==
  ASSUME PickerInv, SwitchFocus \/ updateSelectorPicker
  PROVE  /\ picker' \in Picker /\ picker'.alone = picker.alone
         /\ picker'.labels = picker.labels
         /\ InRange(picker) => InRange(picker')
<1>0. picker \in Picker /\ Count(picker) \in Nat
  BY CountType DEF PickerInv
<1>1. ASSUME NEW f \in {"input", "picker"}, picker' = [picker EXCEPT !.focus = f]
      PROVE  /\ picker' \in Picker /\ picker'.alone = picker.alone
             /\ picker'.labels = picker.labels
             /\ InRange(picker) => InRange(picker')
  BY <1>0, <1>1, CountType DEF Picker
<1>2. ASSUME NEW n \in Nat, n < Count(picker), picker' = [picker EXCEPT !.idx = n]
      PROVE  /\ picker' \in Picker /\ picker'.alone = picker.alone
             /\ picker'.labels = picker.labels /\ InRange(picker')
  <2>1. picker' \in Picker /\ Count(picker') = Count(picker)
    BY <1>0, <1>2, CountType
  <2>2. picker'.idx = n /\ picker'.alone = picker.alone /\ picker'.labels = picker.labels
    BY <1>0, <1>2 DEF Picker
  <2> QED
    BY <1>0, <1>2, <2>1, <2>2 DEF InRange
<1>3. ASSUME picker' = clamped([picker EXCEPT !.showSystem = ~@])
      PROVE  /\ picker' \in Picker /\ picker'.alone = picker.alone
             /\ picker'.labels = picker.labels /\ InRange(picker')
  <2> DEFINE p == [picker EXCEPT !.showSystem = ~@]
  <2>1. p \in Picker /\ p.alone = picker.alone /\ p.labels = picker.labels
    BY <1>0 DEF Picker
  <2> HIDE DEF p
  <2>2. picker' = clamped(p)
    BY <1>3 DEF p
  <2> QED
    BY <2>1, <2>2, ClampedInRange
<1>4. CASE SwitchFocus
  BY <1>1, <1>4 DEF SwitchFocus
<1>5. CASE updateSelectorPicker /\ Count(picker) = 0
  BY <1>1, <1>5 DEF updateSelectorPicker
<1>6. CASE updateSelectorPicker /\ Count(picker) # 0
  <2>1. picker.idx \in Nat
    BY <1>0 DEF Picker
  <2>2. \/ picker.idx + 1 < Count(picker) /\ picker' = [picker EXCEPT !.idx = picker.idx + 1]
        \/ picker.idx > 0 /\ picker' = [picker EXCEPT !.idx = picker.idx - 1]
        \/ picker' = [picker EXCEPT !.idx = 0]
        \/ picker' = [picker EXCEPT !.idx = Count(picker) - 1]
        \/ picker' = clamped([picker EXCEPT !.showSystem = ~@])
        \/ picker' = [picker EXCEPT !.focus = "input"]
    BY <1>6 DEF updateSelectorPicker
  <2>3. CASE picker.idx + 1 < Count(picker) /\ picker' = [picker EXCEPT !.idx = picker.idx + 1]
    BY <1>0, <1>2, <2>1, <2>3
  <2>4. CASE picker.idx > 0 /\ picker' = [picker EXCEPT !.idx = picker.idx - 1]
    <3>1. picker.idx - 1 \in Nat
      BY <2>1, <2>4
    <3>2. InRange(picker) => picker.idx - 1 < Count(picker)
      BY <1>0, <2>1, <2>4 DEF InRange
    <3>3. ASSUME ~InRange(picker)
          PROVE  /\ picker' \in Picker /\ picker'.alone = picker.alone
                 /\ picker'.labels = picker.labels
      <4>1. picker' \in Picker
        BY <1>0, <2>4, <3>1, CountType
      <4> QED
        BY <1>0, <2>4, <4>1 DEF Picker
    <3> QED
      BY <1>2, <2>4, <3>1, <3>2, <3>3
  <2>5. CASE picker' = [picker EXCEPT !.idx = 0]
    BY <1>0, <1>2, <1>6, <2>5
  <2>6. CASE picker' = [picker EXCEPT !.idx = Count(picker) - 1]
    BY <1>0, <1>2, <1>6, <2>6
  <2> QED
    BY <1>1, <1>3, <2>2, <2>3, <2>4, <2>5, <2>6
<1> QED
  BY <1>4, <1>5, <1>6

(* An older form's load is the only thing that can push the index of the   *)
(* picker past its list: a form that was alone when it was opened never    *)
(* meets one.                                                              *)
LEMMA PickerStep == IInv /\ [Next]_vars => PickerInv'
<1> SUFFICES ASSUME IInv, [Next]_vars PROVE PickerInv'
  OBVIOUS
<1>0. PickerInv /\ picker \in Picker /\ loads \in Nat
  BY DEF IInv, PickerInv
<1>1. ASSUME UNCHANGED <<picker, loads>>, mode' # "selector" \/ mode' = mode PROVE PickerInv'
  <2>1. UNCHANGED InRange(picker)
    BY <1>1 DEF InRange, Count
  <2> QED
    BY <1>0, <1>1 DEF PickerInv, PickerInRange, Count
<1>2. NoPicker \in Picker /\ NoPicker.labels = None /\ NoPicker.idx = 0
  BY DEF NoPicker, Picker
<1>3. ASSUME picker' = NoPicker, loads' \in Nat, mode' # "selector" PROVE PickerInv'
  BY <1>2, <1>3 DEF PickerInv, PickerInRange
<1>4. ASSUME \/ LeaveSplash \/ Help \/ Move \/ OpenTenantForm \/ OpenPrincipalForm
             \/ OpenRotateForm \/ OpenDeleteForm
      PROVE  UNCHANGED <<picker, loads>> /\ (mode' # "selector" \/ mode' = mode)
  BY <1>4 DEF LeaveSplash, Help, Move, OpenTenantForm, OpenPrincipalForm, OpenRotateForm,
              OpenDeleteForm, Open, label
<1>5. ASSUME \/ toggleDisabled \/ spawnEdit \/ submitTenantForm \/ submitPrincipalForm
             \/ submitRotateForm \/ submitSelectorForm \/ submitDelete
      PROVE  UNCHANGED <<picker, loads, mode>>
  BY <1>5 DEF toggleDisabled, spawnEdit, submitTenantForm, submitPrincipalForm,
              submitRotateForm, submitSelectorForm, submitDelete, Submit, ui, label
<1>6. ASSUME \/ Settle \/ \E s \in past, late \in SUBSET Marked : dataMsg(s, late)
             \/ \E o \in Object : Disappears(o)
             \/ \E i \in 1..Len(cmds) : Perform(i) \/ BeginEdit(i) \/ EndEdit(i)
             \/ \E p \in Principal, S \in SUBSET Node : DaemonsAct(p, S)
      PROVE  UNCHANGED <<picker, loads, mode>>
  BY <1>6 DEF Settle, dataMsg, Takes, Disappears, Perform, BeginEdit, EndEdit, DaemonsAct,
              rest, ui, label
<1>7. ASSUME Quit \/ PickerPanics PROVE PickerInv'
  BY <1>3, <1>7 DEF Quit, PickerPanics, Ends
<1>8. ASSUME NEW i \in 1..Len(cmds), actionResultMsg(i) PROVE PickerInv'
  BY <1>0, <1>3, <1>8 DEF actionResultMsg, ToList
<1>9. CASE Esc
  BY <1>0, <1>1, <1>3, <1>9 DEF Esc, ToList
<1>10. CASE OpenSelectorForm
  <2> DEFINE b == loads = 0
             p == [NoPicker EXCEPT !.alone = b]
  <2>1. b \in BOOLEAN /\ (b <=> loads = 0)
    OBVIOUS
  <2> HIDE DEF b
  <2>2. p \in Picker /\ p.alone = b /\ p.labels = None /\ p.idx = 0
    BY <1>2, <2>1 DEF NoPicker, Picker
  <2>3. picker' = p /\ loads' = loads + 1
    BY <1>10 DEF OpenSelectorForm, b
  <2> HIDE DEF p
  <2>4. Count(picker') = 0 /\ picker'.alone = b
    BY <2>2, <2>3, CountType
  <2>5. picker'.alone => loads' = 1
    BY <1>0, <2>1, <2>3, <2>4
  <2> QED
    BY <1>0, <2>2, <2>3, <2>4, <2>5 DEF PickerInv, PickerInRange
<1>11. ASSUME SwitchFocus \/ updateSelectorPicker PROVE PickerInv'
  <2>1. UNCHANGED <<mode, loads>>
    BY <1>11 DEF SwitchFocus, updateSelectorPicker, ui
  <2> QED
    BY <1>0, <1>11, <2>1, PickerKeys DEF PickerInv, PickerInRange, InRange
<1>12. ASSUME NEW r \in Labels \cup {None}, nodeLabelsLoaded(r) PROVE PickerInv'
  <2>1. /\ loads > 0 /\ loads' = loads - 1 /\ mode' = mode
        /\ picker' = IF mode = "selector" THEN [picker EXCEPT !.labels = r] ELSE picker
    BY <1>12 DEF nodeLabelsLoaded, ui
  <2>2. CASE mode # "selector"
    BY <1>0, <2>1, <2>2 DEF PickerInv, PickerInRange
  <2>3. CASE mode = "selector"
    <3>1. /\ picker' \in Picker /\ picker'.alone = picker.alone /\ picker'.idx = picker.idx
      BY <1>0, <2>1, <2>3 DEF Picker
    <3>2. Count(picker') \in Nat
      BY <3>1, CountType
    <3>3. ASSUME picker.alone PROVE loads' = 0 /\ picker.idx = 0
      <4>1. loads = 1 /\ picker.labels = None
        BY <1>0, <2>1, <2>3, <3>3 DEF PickerInv
      <4>2. Count(picker) = 0 /\ picker.idx \in Nat
        BY <1>0, <4>1, CountType DEF Picker
      <4> QED
        BY <1>0, <2>1, <2>3, <3>3, <4>1, <4>2 DEF PickerInv, PickerInRange
    <3> QED
      BY <1>0, <2>1, <3>1, <3>2, <3>3 DEF PickerInv, PickerInRange
  <2> QED
    BY <2>2, <2>3
<1>13. ASSUME UNCHANGED vars PROVE UNCHANGED <<picker, loads, mode>>
  BY <1>13 DEF vars, ui, label
<1> QED
  BY <1>1, <1>4, <1>5, <1>6, <1>7, <1>8, <1>9, <1>10, <1>11, <1>12, <1>13 DEF Next

-----------------------------------------------------------------------------
(* The commands under way. *)

(* The key of a row starts a command for that row. *)
LEMMA RowCommand ==
  ASSUME NEW kind \in {"toggle", "edit"}, NEW o \in Object,
         NEW want \in BOOLEAN, NEW key \in BOOLEAN, kind = "edit" => ~key
  PROVE  LET c == [Cmd(kind, o, want, key) EXCEPT !.chosen = o]
         IN  c \in Aimed /\ c.target = o /\ c.key = key /\ c.done = "no"
BY DEF Cmd, Aimed, Command

(* A submitted form starts a command for the row it was opened on. *)
LEMMA FormCommand ==
  ASSUME NEW kind \in {"create", "rotate", "selector", "delete"}, NEW o \in Object,
         NEW key \in BOOLEAN, chosen \in Object \cup {None}, kind # "create" => o = chosen
  PROVE  LET c == Cmd(kind, o, FALSE, key)
         IN  c \in Aimed /\ c.target = o /\ c.key = key /\ c.done = "no"
BY DEF Cmd, Aimed, Command

(* A refusal of the console names nothing. *)
LEMMA Refused ==
  ASSUME Refuse
  PROVE  \E c \in Aimed : cmds' = Append(cmds, c)
<1> DEFINE c == [Cmd("none", None, FALSE, FALSE) EXCEPT !.done = "failed", !.chosen = None]
<1>1. c \in Aimed
  BY DEF Cmd, Aimed, Command
<1> QED
  BY <1>1 DEF Refuse

(* Every submission and every key of a row adds one command, aimed at the  *)
(* row that was chosen for it.                                             *)
LEMMA Issued ==
  ASSUME WorldInv, ScreenInv,
         \/ toggleDisabled \/ spawnEdit \/ submitTenantForm \/ submitPrincipalForm
         \/ submitRotateForm \/ submitSelectorForm \/ submitDelete
  PROVE  \E c \in Aimed : cmds' = Append(cmds, c)
<1>1. chosen \in Object \cup {None} /\ form \subseteq Object
      /\ (mode \in {"rotate", "selector", "delete"} => form = {chosen})
  BY DEF ScreenInv
<1>2. Free(selectedRow) => selectedRow \in Object
  BY SelectedShown DEF Free, WorldInv, Snapshot
<1>3. CASE toggleDisabled
  <2> DEFINE want == selectedRow \notin shown.disabled
  <2>1. /\ cmds' = Append(cmds, [Cmd("toggle", selectedRow, want, TRUE) EXCEPT !.chosen = selectedRow])
        /\ Free(selectedRow)
    BY <1>3 DEF toggleDisabled
  <2>2. want \in BOOLEAN
    OBVIOUS
  <2> HIDE DEF want
  <2> QED
    BY <1>2, <2>1, <2>2, RowCommand
<1>4. CASE spawnEdit
  BY <1>2, <1>4, RowCommand, Refused DEF spawnEdit
<1>5. CASE submitTenantForm
  BY <1>1, <1>5, FormCommand, Refused DEF submitTenantForm, Issue, Object
<1>6. CASE submitPrincipalForm
  BY <1>1, <1>6, FormCommand, Refused DEF submitPrincipalForm, Issue, Object
<1>7. CASE submitRotateForm
  BY <1>1, <1>7, FormCommand, Refused DEF submitRotateForm, Submit, Issue
<1>8. CASE submitSelectorForm
  <2>1. mode = "selector" /\ \E o \in form : Refuse \/ Issue("selector", o, FALSE, TRUE)
    BY <1>8 DEF submitSelectorForm, Submit
  <2> QED
    BY <1>1, <2>1, FormCommand, Refused DEF Issue
<1>9. CASE submitDelete
  <2>1. mode = "delete" /\ \E o \in form : Refuse \/ Issue("delete", o, FALSE, FALSE)
    BY <1>9 DEF submitDelete, Submit
  <2> QED
    BY <1>1, <2>1, FormCommand, Refused DEF Issue
<1> QED
  BY <1>3, <1>4, <1>5, <1>6, <1>7, <1>8, <1>9

(* A command that is carried out stays aimed. *)
LEMMA DoneAimed ==
  ASSUME CommandInv, NEW i \in 1..Len(cmds), NEW how \in {"editing", "ok", "failed"}, Done(i, how)
  PROVE  /\ cmds' \in Seq(Aimed) /\ Len(cmds') = Len(cmds)
         /\ \A j \in 1..Len(cmds) :
               /\ cmds'[j].key = cmds[j].key /\ cmds'[j].target = cmds[j].target
               /\ cmds'[j].done = IF j = i THEN how ELSE cmds[j].done
<1> DEFINE c == [cmds[i] EXCEPT !.done = how]
<1>1. cmds \in Seq(Aimed) /\ cmds[i] \in Aimed
  BY ElementOfSeq DEF CommandInv
<1>2. c \in Aimed /\ c.key = cmds[i].key /\ c.target = cmds[i].target /\ c.done = how
  BY <1>1 DEF Aimed, Command
<1>3. cmds' = [cmds EXCEPT ![i] = c]
  BY <1>1 DEF Done
<1> HIDE DEF c
<1>4. /\ cmds' \in Seq(Aimed) /\ Len(cmds') = Len(cmds)
      /\ \A j \in 1..Len(cmds) : cmds'[j] = IF j = i THEN c ELSE cmds[j]
  BY <1>1, <1>2, <1>3, ExceptSeq
<1> QED
  BY <1>2, <1>4

(* No step makes a command aim at something else. *)
LEMMA CommandStep == IInv /\ [Next]_vars => CommandInv'
<1> SUFFICES ASSUME IInv, [Next]_vars PROVE CommandInv'
  OBVIOUS
<1>0. CommandInv /\ WorldInv /\ ScreenInv
  BY DEF IInv
<1>1. ASSUME UNCHANGED cmds PROVE CommandInv'
  BY <1>0, <1>1 DEF CommandInv
<1>2. ASSUME \/ LeaveSplash \/ Help \/ Esc \/ Move \/ OpenTenantForm \/ OpenPrincipalForm
             \/ OpenRotateForm \/ OpenDeleteForm \/ OpenSelectorForm
      PROVE  UNCHANGED cmds
  BY <1>2 DEF LeaveSplash, Help, Esc, Move, OpenTenantForm, OpenPrincipalForm, OpenRotateForm,
              OpenDeleteForm, OpenSelectorForm, Open
<1>3. ASSUME \/ SwitchFocus \/ updateSelectorPicker
             \/ \E r \in Labels \cup {None} : nodeLabelsLoaded(r)
             \/ Settle \/ \E s \in past, late \in SUBSET Marked : dataMsg(s, late)
             \/ \E o \in Object : Disappears(o)
             \/ \E p \in Principal, S \in SUBSET Node : DaemonsAct(p, S)
      PROVE  UNCHANGED cmds
  BY <1>3 DEF SwitchFocus, updateSelectorPicker, nodeLabelsLoaded, Settle, dataMsg, Takes,
              Disappears, DaemonsAct
<1>4. ASSUME \/ toggleDisabled \/ spawnEdit \/ submitTenantForm \/ submitPrincipalForm
             \/ submitRotateForm \/ submitSelectorForm \/ submitDelete
      PROVE  CommandInv'
  <2>1. PICK c \in Aimed : cmds' = Append(cmds, c)
    BY <1>0, <1>4, Issued
  <2> QED
    BY <1>0, <2>1, Appended DEF CommandInv
<1>5. ASSUME Quit \/ PickerPanics PROVE CommandInv'
  BY <1>5, EmptySeq DEF Quit, PickerPanics, Ends, CommandInv
<1>6. ASSUME NEW i \in 1..Len(cmds), Perform(i) \/ BeginEdit(i) \/ EndEdit(i) PROVE CommandInv'
  <2>1. \E how \in {"editing", "ok", "failed"} : Done(i, how)
    BY <1>6 DEF Perform, BeginEdit, EndEdit
  <2> QED
    BY <1>0, <2>1, DoneAimed DEF CommandInv
<1>7. ASSUME NEW i \in 1..Len(cmds), actionResultMsg(i) PROVE CommandInv'
  BY <1>0, <1>7, Removed DEF actionResultMsg, CommandInv
<1>8. ASSUME UNCHANGED vars PROVE UNCHANGED cmds
  BY <1>8 DEF vars
<1> QED
  BY <1>1, <1>2, <1>3, <1>4, <1>5, <1>6, <1>7, <1>8 DEF Next

-----------------------------------------------------------------------------
(* The pending markers. *)

(* principalSig and tenantSig tell nodes, or count mints and children. *)
LEMMA SigType ==
  ASSUME NEW s \in Snapshot, NEW o \in Object
  PROVE  Sig(s, o) \in Signature
<1>1. CASE o \in Principal
  BY <1>1 DEF Sig, Snapshot, Signature
<1>2. CASE o \notin Principal
  <2> DEFINE kids == Children(o) \cap s.live
             mints == {pn \in kids \X Node : pn[2] \in s.minted[pn[1]]}
  <2>1. IsFiniteSet(kids) /\ Cardinality(kids) \in Nat
    BY ConsoleAssumption, FS_Subset, FS_CardinalityType DEF Children, Object
  <2> HIDE DEF kids
  <2>2. IsFiniteSet(kids \X Node)
    BY <2>1, ConsoleAssumption, FS_Product
  <2>3. Cardinality(mints) \in Nat
    BY <2>2, FS_Subset, FS_CardinalityType
  <2> HIDE DEF mints
  <2>4. Sig(s, o) = <<Cardinality(mints), Cardinality(kids)>>
    BY <1>2 DEF Sig, mints, kids
  <2> QED
    BY <2>1, <2>3, <2>4 DEF Signature
<1> QED
  BY <1>1, <1>2

(* A new marker waits for its command. *)
LEMMA MarkerType ==
  ASSUME NEW s \in Snapshot, NEW o \in Object
  PROVE  Marker(s, o) \in PendingMarker
BY SigType DEF Marker, PendingMarker

(* A snapshot does not undo what a marker knows of its command. *)
LEMMA ObservedType ==
  ASSUME NEW s \in Snapshot, NEW o \in Object, NEW m \in PendingMarker
  PROVE  observed(s, o, m) \in PendingMarker /\ observed(s, o, m).accepted = m.accepted
<1>1. Sig(s, o) \in Signature /\ StableTicks \in Nat
  BY SigType, ConsoleAssumption
<1>2. \A n \in Nat : /\ [m EXCEPT !.stable = n] \in PendingMarker
                      /\ [m EXCEPT !.stable = n].accepted = m.accepted
  BY DEF PendingMarker
<1> DEFINE n == IF m.stable < StableTicks THEN m.stable + 1 ELSE m.stable
<1>3. n \in Nat
  BY <1>1 DEF PendingMarker
<1>4. \/ observed(s, o, m) = m
      \/ observed(s, o, m) = [m EXCEPT !.stable = n]
      \/ observed(s, o, m) = [m EXCEPT !.last = Sig(s, o), !.stable = 0]
  BY DEF observed, PendingMarker
<1> HIDE DEF n
<1>5. CASE observed(s, o, m) = [m EXCEPT !.stable = n]
  BY <1>2, <1>3, <1>5
<1>6. CASE observed(s, o, m) = [m EXCEPT !.last = Sig(s, o), !.stable = 0]
  <2>1. /\ [m EXCEPT !.last = Sig(s, o), !.stable = 0] \in PendingMarker
        /\ [m EXCEPT !.last = Sig(s, o), !.stable = 0].accepted = m.accepted
    BY <1>1 DEF PendingMarker
  <2> QED
    BY <1>6, <2>1
<1> QED
  BY <1>4, <1>5, <1>6

(* A snapshot only takes markers away, and all those of what it lacks. *)
LEMMA Resolved ==
  ASSUME MarkInv, NEW s \in Snapshot, NEW late, NEW o \in Object, resolvePending(s, late)[o] # None
  PROVE  /\ pending[o] # None /\ o \in s.live
         /\ resolvePending(s, late)[o] \in PendingMarker
         /\ resolvePending(s, late)[o].accepted = pending[o].accepted
<1>1. /\ pending[o] # None /\ ~converged(s, o, pending[o])
      /\ resolvePending(s, late)[o] = observed(s, o, pending[o])
  BY DEF resolvePending
<1>2. o \in s.live
  BY <1>1 DEF converged
<1>3. pending[o] \in PendingMarker
  BY <1>1 DEF MarkInv
<1> QED
  BY <1>1, <1>2, <1>3, ObservedType

(* checkPendingConflict sees every marked relative, as only what is shown  *)
(* is marked.                                                              *)
LEMMA Marking ==
  ASSUME MarkInv, WorldInv, NEW o \in shown.live, ~checkPendingConflict(o), Mark(o), UNCHANGED shown
  PROVE  MarkInv'
<1>1. o \in Object /\ shown \in Snapshot
  BY DEF WorldInv, Snapshot
<1>2. pending' = [pending EXCEPT ![o] = Marker(shown, o)] /\ Marker(shown, o) \in PendingMarker
  BY <1>1, MarkerType DEF Mark
<1>3. pending' \in [Object -> PendingMarker \cup {None}]
  BY <1>1, <1>2 DEF MarkInv
<1>4. \A q \in Object : q # o => pending'[q] = pending[q]
  BY <1>2 DEF MarkInv
<1>5. ASSUME NEW p \in Principal PROVE pending'[p] = None \/ pending'[Parent[p]] = None
  <2>1. Parent[p] \in Tenant /\ p \in Object /\ Parent[p] \in Object /\ p # Parent[p]
    BY ConsoleAssumption DEF Object
  <2>2. CASE o = p
    BY <1>4, <2>1, <2>2 DEF checkPendingConflict
  <2>3. CASE o = Parent[p]
    <3>1. p \in shown.live => pending[p] = None
      BY <2>1, <2>3 DEF checkPendingConflict, Children
    <3> QED
      BY <1>4, <2>1, <2>3, <3>1 DEF MarkInv
  <2>4. CASE o # p /\ o # Parent[p]
    BY <1>4, <2>1, <2>4 DEF MarkInv, NoCascadeConflict
  <2> QED
    BY <2>2, <2>3, <2>4
<1>6. \A q \in Object : pending'[q] # None => q \in shown'.live
  BY <1>4 DEF MarkInv
<1> QED
  BY <1>3, <1>5, <1>6 DEF MarkInv, NoCascadeConflict

(* No step marks a tenant and one of its principals. *)
LEMMA MarkStep == IInv /\ [Next]_vars => MarkInv'
<1> SUFFICES ASSUME IInv, [Next]_vars PROVE MarkInv'
  OBVIOUS
<1>0. MarkInv /\ WorldInv /\ CommandInv
  BY DEF IInv
<1>1. ASSUME UNCHANGED <<pending, shown>> PROVE MarkInv'
  BY <1>0, <1>1 DEF MarkInv, NoCascadeConflict
<1>2. ASSUME \/ LeaveSplash \/ Help \/ Esc \/ Move \/ OpenTenantForm \/ OpenPrincipalForm
             \/ OpenRotateForm \/ OpenDeleteForm \/ OpenSelectorForm
      PROVE  UNCHANGED <<pending, shown>>
  BY <1>2 DEF LeaveSplash, Help, Esc, Move, OpenTenantForm, OpenPrincipalForm, OpenRotateForm,
              OpenDeleteForm, OpenSelectorForm, Open, background
<1>3. ASSUME \/ spawnEdit \/ submitTenantForm \/ submitPrincipalForm \/ submitRotateForm
             \/ submitDelete \/ SwitchFocus \/ updateSelectorPicker
             \/ \E r \in Labels \cup {None} : nodeLabelsLoaded(r)
      PROVE  UNCHANGED <<pending, shown>>
  BY <1>3 DEF spawnEdit, submitTenantForm, submitPrincipalForm, submitRotateForm, submitDelete,
              Submit, SwitchFocus, updateSelectorPicker, nodeLabelsLoaded, background
<1>4. ASSUME \/ Settle \/ \E o \in Object : Disappears(o)
             \/ \E p \in Principal, S \in SUBSET Node : DaemonsAct(p, S)
             \/ \E i \in 1..Len(cmds) : BeginEdit(i) \/ EndEdit(i)
      PROVE  UNCHANGED <<pending, shown>>
  BY <1>4 DEF Settle, Disappears, DaemonsAct, BeginEdit, EndEdit, rest
<1>5. ASSUME Quit \/ PickerPanics PROVE MarkInv'
  <2>1. pending' = [o \in Object |-> None]
    BY <1>5 DEF Quit, PickerPanics, Ends
  <2>2. \A p \in Principal : p \in Object
    BY DEF Object
  <2> QED
    BY <2>1, <2>2 DEF MarkInv, NoCascadeConflict
<1>6. CASE toggleDisabled
  <2>1. /\ selectedRow # None /\ ~checkPendingConflict(selectedRow) /\ Mark(selectedRow)
        /\ UNCHANGED shown
    BY <1>6 DEF toggleDisabled, Free, background
  <2> QED
    BY <1>0, <2>1, SelectedShown, Marking
<1>7. CASE submitSelectorForm
  <2>1. /\ UNCHANGED shown
        /\ \/ UNCHANGED pending
           \/ \E p \in shown.live : ~checkPendingConflict(p) /\ Mark(p)
    BY <1>7 DEF submitSelectorForm, Submit, background
  <2> QED
    BY <1>0, <1>1, <2>1, Marking
<1>8. ASSUME NEW s \in past, NEW late \in SUBSET Marked, dataMsg(s, late) PROVE MarkInv'
  <2>1. s \in Snapshot /\ shown' = s /\ pending' = resolvePending(s, late)
    BY <1>0, <1>8 DEF WorldInv, dataMsg, Takes
  <2>2. pending' \in [Object -> PendingMarker \cup {None}]
    <3>1. \A o \in Object : pending'[o] \in PendingMarker \cup {None}
      BY <1>0, <2>1, Resolved
    <3>2. pending' = [o \in Object |-> pending'[o]]
      BY <2>1 DEF resolvePending
    <3> QED
      BY <3>1, <3>2
  <2>3. \A o \in Object : pending'[o] # None => pending[o] # None /\ o \in shown'.live
    BY <1>0, <2>1, Resolved
  <2>4. \A p \in Principal : p \in Object /\ Parent[p] \in Object
    BY ConsoleAssumption DEF Object
  <2> QED
    BY <1>0, <2>2, <2>3, <2>4 DEF MarkInv, NoCascadeConflict
<1>9. ASSUME NEW i \in 1..Len(cmds), Perform(i) PROVE MarkInv'
  <2> DEFINE t == cmds[i].target
  <2>1. /\ UNCHANGED shown
        /\ \/ UNCHANGED pending
           \/ pending[t] # None /\ cmds[i].key /\ pending' = [pending EXCEPT ![t].accepted = TRUE]
    BY <1>9 DEF Perform, rest
  <2>2. CASE pending[t] # None /\ cmds[i].key /\ pending' = [pending EXCEPT ![t].accepted = TRUE]
    <3>1. cmds[i] \in Aimed
      BY <1>0, ElementOfSeq DEF CommandInv
    <3>2. t \in Object
      BY <2>2, <3>1 DEF Aimed
    <3>3. pending[t] \in PendingMarker
      BY <1>0, <2>2, <3>2 DEF MarkInv
    <3>4. [pending[t] EXCEPT !.accepted = TRUE] \in PendingMarker
      BY <3>3 DEF PendingMarker
    <3>5. pending' = [pending EXCEPT ![t] = [pending[t] EXCEPT !.accepted = TRUE]]
      BY <1>0, <2>2, <3>2 DEF MarkInv
    <3>6. /\ pending' \in [Object -> PendingMarker \cup {None}]
          /\ \A o \in Object : pending'[o] # None => pending[o] # None
      BY <1>0, <2>2, <3>2, <3>4, <3>5 DEF MarkInv
    <3>7. \A p \in Principal : p \in Object /\ Parent[p] \in Object
      BY ConsoleAssumption DEF Object
    <3> QED
      BY <1>0, <2>1, <3>6, <3>7 DEF MarkInv, NoCascadeConflict
  <2> QED
    BY <1>1, <2>1, <2>2
<1>10. ASSUME NEW i \in 1..Len(cmds), actionResultMsg(i) PROVE MarkInv'
  <2> DEFINE t == cmds[i].target
  <2>1. UNCHANGED shown /\ (UNCHANGED pending \/ pending' = [pending EXCEPT ![t] = None])
    BY <1>10 DEF actionResultMsg
  <2>2. CASE pending' = [pending EXCEPT ![t] = None]
    <3>1. /\ pending' \in [Object -> PendingMarker \cup {None}]
          /\ \A o \in Object : pending'[o] # None => pending[o] # None
      BY <1>0, <2>2 DEF MarkInv
    <3>2. \A p \in Principal : p \in Object /\ Parent[p] \in Object
      BY ConsoleAssumption DEF Object
    <3> QED
      BY <1>0, <2>1, <3>1, <3>2 DEF MarkInv, NoCascadeConflict
  <2> QED
    BY <1>1, <2>1, <2>2
<1>11. ASSUME UNCHANGED vars PROVE UNCHANGED <<pending, shown>>
  BY <1>11 DEF vars
<1> QED
  BY <1>1, <1>2, <1>3, <1>4, <1>5, <1>6, <1>7, <1>8, <1>9, <1>10, <1>11 DEF Next

-----------------------------------------------------------------------------
(* What the markers wait for. *)

(* A further command keeps the others awaited. *)
LEMMA AwaitedAppend ==
  ASSUME CommandInv, NEW c \in Aimed, cmds' = Append(cmds, c)
  PROVE  /\ \A o : Awaited(o) => Awaited(o)'
         /\ c.key /\ c.done = "no" => Awaited(c.target)'
<1>1. /\ Len(cmds) \in Nat /\ Len(cmds') = Len(cmds) + 1 /\ cmds'[Len(cmds) + 1] = c
      /\ \A i \in 1..Len(cmds) : i \in 1..Len(cmds') /\ cmds'[i] = cmds[i]
  BY Appended, LenProperties DEF CommandInv
<1>2. ASSUME NEW o, Awaited(o) PROVE Awaited(o)'
  BY <1>1, <1>2 DEF Awaited
<1>3. ASSUME c.key, c.done = "no" PROVE Awaited(c.target)'
  <2>1. Len(cmds) + 1 \in 1..Len(cmds')
    BY <1>1
  <2> QED
    BY <1>1, <1>3, <2>1 DEF Awaited
<1> QED
  BY <1>2, <1>3

(* A row is marked together with the command it waits for. *)
LEMMA MarkWaits ==
  ASSUME MarkInv, WorldInv, CommandInv, WaitInv, NEW o \in Object, Mark(o), NEW c \in Aimed,
         cmds' = Append(cmds, c), c.target = o, c.key, c.done = "no"
  PROVE  WaitInv'
<1>1. /\ \A q : Awaited(q) => Awaited(q)'
      /\ Awaited(o)'
  BY AwaitedAppend
<1>2. \A q \in Object : q # o => pending'[q] = pending[q]
  BY DEF Mark, MarkInv
<1> QED
  BY <1>1, <1>2 DEF WaitInv

(* No marker is left behind by a command that ended. *)
LEMMA WaitStep == IInv /\ [Next]_vars => WaitInv'
<1> SUFFICES ASSUME IInv, [Next]_vars PROVE WaitInv'
  OBVIOUS
<1>0. WaitInv /\ MarkInv /\ WorldInv /\ ScreenInv /\ CommandInv
  BY DEF IInv
<1>1. ASSUME UNCHANGED <<pending, cmds>> PROVE WaitInv'
  BY <1>0, <1>1 DEF WaitInv, Awaited
<1>2. ASSUME \/ LeaveSplash \/ Help \/ Esc \/ Move \/ OpenTenantForm \/ OpenPrincipalForm
             \/ OpenRotateForm \/ OpenDeleteForm \/ OpenSelectorForm
      PROVE  UNCHANGED <<pending, cmds>>
  BY <1>2 DEF LeaveSplash, Help, Esc, Move, OpenTenantForm, OpenPrincipalForm, OpenRotateForm,
              OpenDeleteForm, OpenSelectorForm, Open
<1>3. ASSUME \/ SwitchFocus \/ updateSelectorPicker
             \/ \E r \in Labels \cup {None} : nodeLabelsLoaded(r)
             \/ Settle \/ \E o \in Object : Disappears(o)
             \/ \E p \in Principal, S \in SUBSET Node : DaemonsAct(p, S)
      PROVE  UNCHANGED <<pending, cmds>>
  BY <1>3 DEF SwitchFocus, updateSelectorPicker, nodeLabelsLoaded, Settle, Disappears, DaemonsAct
<1>4. ASSUME UNCHANGED pending, \E c \in Aimed : cmds' = Append(cmds, c) PROVE WaitInv'
  <2>1. \A o : Awaited(o) => Awaited(o)'
    BY <1>0, <1>4, AwaitedAppend
  <2> QED
    BY <1>0, <1>4, <2>1 DEF WaitInv
<1>5. ASSUME \/ spawnEdit \/ submitTenantForm \/ submitPrincipalForm \/ submitRotateForm
             \/ submitDelete
      PROVE  WaitInv'
  <2>1. UNCHANGED pending
    BY <1>5 DEF spawnEdit, submitTenantForm, submitPrincipalForm, submitRotateForm, submitDelete
  <2>2. \E c \in Aimed : cmds' = Append(cmds, c)
    BY <1>0, <1>5, Issued
  <2> QED
    BY <1>4, <2>1, <2>2
<1>6. CASE toggleDisabled
  <2> DEFINE want == selectedRow \notin shown.disabled
             c == [Cmd("toggle", selectedRow, want, TRUE) EXCEPT !.chosen = selectedRow]
  <2>1. Free(selectedRow) /\ Mark(selectedRow) /\ cmds' = Append(cmds, c)
    BY <1>6 DEF toggleDisabled
  <2>2. want \in BOOLEAN
    OBVIOUS
  <2> HIDE DEF want
  <2>3. selectedRow \in Object
    BY <1>0, <2>1, SelectedShown DEF Free, WorldInv, Snapshot
  <2>4. c \in Aimed /\ c.target = selectedRow /\ c.key = TRUE /\ c.done = "no"
    BY <2>2, <2>3 DEF Cmd, Aimed, Command
  <2> HIDE DEF c
  <2> QED
    BY <1>0, <2>1, <2>3, <2>4, MarkWaits
<1>7. CASE submitSelectorForm
  <2>1. CASE UNCHANGED pending
    BY <1>0, <1>4, <1>7, <2>1, Issued
  <2>2. CASE \E p \in form : Mark(p) /\ Issue("selector", p, FALSE, TRUE)
    <3>1. PICK p \in form : Mark(p) /\ Issue("selector", p, FALSE, TRUE)
      BY <2>2
    <3>2. p \in Object /\ p = chosen /\ chosen \in Object \cup {None}
      BY <1>0, <1>7 DEF ScreenInv, submitSelectorForm, Submit
    <3> DEFINE c == Cmd("selector", p, FALSE, TRUE)
    <3>3. c \in Aimed /\ c.target = p /\ c.key = TRUE /\ c.done = "no"
      BY <3>2, FormCommand
    <3>4. cmds' = Append(cmds, c)
      BY <3>1 DEF Issue
    <3> HIDE DEF c
    <3> QED
      BY <1>0, <3>1, <3>2, <3>3, <3>4, MarkWaits
  <2> QED
    BY <1>7, <2>1, <2>2 DEF submitSelectorForm
<1>8. ASSUME Quit \/ PickerPanics PROVE WaitInv'
  BY <1>8 DEF Quit, PickerPanics, Ends, WaitInv
<1>9. ASSUME NEW s \in past, NEW late \in SUBSET Marked, dataMsg(s, late) PROVE WaitInv'
  <2>1. s \in Snapshot /\ UNCHANGED cmds /\ pending' = resolvePending(s, late)
    BY <1>0, <1>9 DEF WorldInv, dataMsg, Takes
  <2>2. \A o \in Object : pending'[o] # None =>
          pending[o] # None /\ pending'[o].accepted = pending[o].accepted
    BY <1>0, <2>1, Resolved
  <2>3. \A o : Awaited(o) => Awaited(o)'
    BY <2>1 DEF Awaited
  <2> QED
    BY <1>0, <2>2, <2>3 DEF WaitInv
<1>10. ASSUME NEW i \in 1..Len(cmds), NEW how \in {"editing", "ok", "failed"}, Done(i, how),
              NEW o \in Object, Awaited(o), ~Awaited(o)'
       PROVE  cmds[i].key /\ cmds[i].target = o /\ cmds[i].done \in {"no", "failed"}
              /\ how # "failed"
  <2>1. /\ Len(cmds') = Len(cmds)
        /\ \A j \in 1..Len(cmds) :
              /\ cmds'[j].key = cmds[j].key /\ cmds'[j].target = cmds[j].target
              /\ cmds'[j].done = IF j = i THEN how ELSE cmds[j].done
    BY <1>0, <1>10, DoneAimed
  <2>2. PICK j \in 1..Len(cmds) :
          cmds[j].key /\ cmds[j].target = o /\ cmds[j].done \in {"no", "failed"}
    BY <1>10 DEF Awaited
  <2>3. ~(cmds'[j].done \in {"no", "failed"})
    BY <1>10, <2>1, <2>2 DEF Awaited
  <2> QED
    BY <2>1, <2>2, <2>3
<1>11. ASSUME NEW i \in 1..Len(cmds), BeginEdit(i) \/ EndEdit(i) PROVE WaitInv'
  <2>1. UNCHANGED pending /\ \E how \in {"editing", "ok", "failed"} : Done(i, how)
    BY <1>11 DEF BeginEdit, EndEdit
  <2>2. cmds[i] \in Aimed
    BY <1>0, ElementOfSeq DEF CommandInv
  <2>3. ~(cmds[i].key /\ cmds[i].done \in {"no", "failed"})
    BY <1>11, <2>2 DEF BeginEdit, EndEdit, Aimed
  <2>4. \A o \in Object : Awaited(o) => Awaited(o)'
    BY <1>10, <2>1, <2>3
  <2> QED
    BY <1>0, <2>1, <2>4 DEF WaitInv
<1>12. ASSUME NEW i \in 1..Len(cmds), Perform(i) PROVE WaitInv'
  <2> DEFINE t == cmds[i].target
  <2>1. CASE UNCHANGED pending /\ Done(i, "failed")
    <3>1. \A o \in Object : Awaited(o) => Awaited(o)'
      BY <1>10, <2>1
    <3> QED
      BY <1>0, <2>1, <3>1 DEF WaitInv
  <2>2. CASE /\ Done(i, "ok")
             /\ pending' = IF cmds[i].key /\ pending[t] # None
                           THEN [pending EXCEPT ![t].accepted = TRUE] ELSE pending
    <3>1. SUFFICES ASSUME NEW o \in Object, pending'[o] # None, ~Awaited(o)'
                   PROVE  pending'[o].accepted
      BY DEF WaitInv
    <3>2. CASE cmds[i].key /\ pending[t] # None /\ t = o
      <4>1. pending[o] \in PendingMarker
        BY <1>0, <3>2 DEF MarkInv
      <4>2. pending'[o] = [pending[o] EXCEPT !.accepted = TRUE]
        BY <1>0, <2>2, <3>2 DEF MarkInv
      <4>3. [pending[o] EXCEPT !.accepted = TRUE].accepted = TRUE
        BY <4>1 DEF PendingMarker
      <4> QED
        BY <4>2, <4>3
    <3>3. CASE ~(cmds[i].key /\ pending[t] # None /\ t = o)
      <4>1. pending'[o] = pending[o]
        BY <1>0, <2>2, <3>3 DEF MarkInv
      <4>2. ~Awaited(o)
        BY <1>10, <2>2, <3>1, <3>3, <4>1
      <4> QED
        BY <1>0, <3>1, <4>1, <4>2 DEF WaitInv
    <3> QED
      BY <3>2, <3>3
  <2> QED
    BY <1>12, <2>1, <2>2 DEF Perform
<1>13. ASSUME NEW i \in 1..Len(cmds), actionResultMsg(i) PROVE WaitInv'
  <2> DEFINE t == cmds[i].target
  <2>1. /\ cmds[i].done \in {"ok", "failed"} /\ cmds' = RemoveAt(cmds, i)
        /\ pending' = IF cmds[i].done = "failed" /\ cmds[i].key
                      THEN [pending EXCEPT ![t] = None] ELSE pending
    BY <1>13 DEF actionResultMsg
  <2>2. SUFFICES ASSUME NEW o \in Object, pending'[o] # None
                 PROVE  pending'[o].accepted \/ Awaited(o)'
    BY DEF WaitInv
  <2>3. /\ pending'[o] = pending[o]
        /\ ~(cmds[i].done = "failed" /\ cmds[i].key /\ t = o)
    BY <1>0, <2>1, <2>2 DEF MarkInv
  <2>4. ASSUME Awaited(o) PROVE Awaited(o)'
    <3>1. PICK j \in 1..Len(cmds) :
            cmds[j].key /\ cmds[j].target = o /\ cmds[j].done \in {"no", "failed"}
      BY <2>4 DEF Awaited
    <3>2. j # i
      BY <2>1, <2>3, <3>1
    <3>3. \E k \in 1..Len(cmds') : cmds'[k] = cmds[j]
      BY <1>0, <2>1, <3>2, Removed DEF CommandInv
    <3> QED
      BY <3>1, <3>3 DEF Awaited
  <2> QED
    BY <1>0, <2>2, <2>3, <2>4 DEF WaitInv
<1>14. ASSUME UNCHANGED vars PROVE UNCHANGED <<pending, cmds>>
  BY <1>14 DEF vars
<1> QED
  BY <1>1, <1>2, <1>3, <1>5, <1>6, <1>7, <1>8, <1>9, <1>11, <1>12, <1>13, <1>14 DEF Next

-----------------------------------------------------------------------------
(* The console starts with nothing on the screen and nothing under way. *)
LEMMA IInvInit == Init => IInv
<1> SUFFICES ASSUME Init PROVE IInv
  OBVIOUS
<1>1. WorldInv
  BY ConsoleAssumption DEF Init, WorldInv, Nothing, Snapshot
<1>2. ScreenInv
  BY DEF Init, ScreenInv
<1>3. PickerInv
  BY DEF Init, PickerInv, PickerInRange, NoPicker, Picker
<1>4. CommandInv
  BY EmptySeq DEF Init, CommandInv
<1>5. MarkInv /\ WaitInv
  <2>1. \A p \in Principal : p \in Object
    BY DEF Object
  <2> QED
    BY <2>1 DEF Init, MarkInv, NoCascadeConflict, WaitInv
<1> QED
  BY <1>1, <1>2, <1>3, <1>4, <1>5 DEF IInv

(* The invariant holds in every reachable state. *)
LEMMA Invariance == Spec => []IInv
<1>1. IInv /\ [Next]_vars => IInv'
  BY WorldStep, ScreenStep, PickerStep, CommandStep, MarkStep, WaitStep DEF IInv
<1> QED
  BY <1>1, IInvInit, PTL DEF Spec

(* Every variable keeps its type; the cursor is on a row, or at the top of *)
(* an empty list, whichever snapshots the refreshes bring.                 *)
THEOREM TypeCorrect == Spec => []TypeOK
<1>1. ASSUME IInv PROVE TypeOK
  <2>1. \A i \in 1..Len(cmds) : cmds[i].target \in Object \cup {None}
    <3> SUFFICES ASSUME NEW i \in 1..Len(cmds) PROVE cmds[i].target \in Object \cup {None}
      OBVIOUS
    <3>1. cmds[i] \in Aimed
      BY <1>1, ElementOfSeq DEF IInv, CommandInv
    <3> QED
      BY <3>1 DEF Aimed, Command
  <2> QED
    BY <1>1, <2>1 DEF IInv, WorldInv, ScreenInv, PickerInv, Picker, TypeOK
<1>2. IInv => TypeOK
  BY <1>1
<1> QED
  BY <1>2, Invariance, PTL

(* checkPendingConflict keeps a tenant and its principals from being       *)
(* marked together, whatever snapshots come between the keys.              *)
THEOREM NoCascadeConflictCorrect == Spec => []NoCascadeConflict
<1>1. IInv => NoCascadeConflict
  BY DEF IInv, MarkInv
<1> QED
  BY <1>1, Invariance, PTL

(* No marker spins for nothing: resolvePending and actionResultMsg take    *)
(* one away before its command is forgotten, or it has been accepted.      *)
THEOREM WaitsForSomethingCorrect == Spec => []WaitsForSomething
<1>1. IInv => WaitsForSomething
  BY DEF IInv, WaitInv, Awaited, WaitsForSomething
<1> QED
  BY <1>1, Invariance, PTL

(* However rows move under an open form, its submission goes to the row    *)
(* it was opened on.                                                       *)
THEOREM ActsOnChosenCorrect == Spec => []ActsOnChosen
<1>1. ASSUME IInv PROVE ActsOnChosen
  <2> SUFFICES ASSUME NEW i \in 1..Len(cmds),
                      cmds[i].kind \in {"toggle", "edit", "rotate", "selector", "delete"}
               PROVE  cmds[i].target = cmds[i].chosen
    BY DEF ActsOnChosen
  <2>1. cmds[i] \in Aimed
    BY <1>1, ElementOfSeq DEF IInv, CommandInv
  <2> QED
    BY <2>1 DEF Aimed
<1>2. IInv => ActsOnChosen
  BY <1>1
<1> QED
  BY <1>2, Invariance, PTL

(* updateSelectorPicker reads visibleLabels() only inside the list, for as *)
(* long as no older form's labels come in.                                 *)
THEOREM PickerInRangeCorrect == Spec => []PickerInRange
<1>1. IInv => PickerInRange
  BY DEF IInv, PickerInv
<1> QED
  BY <1>1, Invariance, PTL
=============================================================================
