---------------------------- MODULE DaemonProofs ----------------------------
(* What the daemon of module Daemon guarantees for every set of users and  *)
(* labels, every choice of volume contents and every bound.                *)
EXTENDS Daemon, TLAPS

(* The local variables of a phase are empty outside it. *)
PhaseInv ==
    /\ pc \in {"down", "bootsel", "bootlabels", "adopt"} => managed = {}
    /\ pc # "mint" => todo = {}
    /\ pc \notin {"mint", "prune", "emit"} => minted = {}
    /\ pc \notin {"prune", "emit"} => removed = {}

(* Everything the process works on comes from a roster that was mounted. *)
KnownInv ==
    /\ Rows(cm.roster) \subseteq known
    /\ rosterRead \subseteq known
    /\ inRoster \subseteq known
    /\ todo \subseteq inRoster
    /\ managed \subseteq known
    /\ minted \subseteq inRoster

(* A steadily configured user passes every stage of the sweep's filter. *)
SteadyInv ==
    /\ steady \subseteq Unrestricted(cm)
    /\ pc \in {"select", "filter"} => steady \subseteq rosterRead
    /\ pc = "filter" => (selRead # Malformed => \A u \in steady : selRead[u] = {})
    /\ pc \in {"mint", "prune", "emit"} => steady \subseteq inRoster

(* A user whose prune was emitted is in nothing the process may still      *)
(* mint, from the emission on, whether the broadcaster has stored the      *)
(* event or not; a stored event has been emitted.                          *)
PurgedInv ==
    /\ ours \subseteq ccache
    /\ removed \cap ours = {}
    /\ purged \cap Rows(cm.roster) = {}
    /\ pc \in {"select", "filter"} => purged \cap rosterRead = {}
    /\ pc = "mint" => purged \cap todo = {}
    /\ purged \cap ours = {}
    /\ purged \subseteq queue \cup posted

IInv == TypeOK /\ PhaseInv /\ KnownInv /\ SteadyInv /\ PurgedInv /\ NoSilentOrphan

-----------------------------------------------------------------------------
(* A mounted roster file lists only users of the model. *)
LEMMA RowsType == \A c \in Configs : Rows(c.roster) \subseteq UID
BY DaemonAssumption DEF Config, Rows

(* The empty hash the daemon starts from is a configuration value, too. *)
LEMMA NoConfigType ==
    /\ NoConfig \in Config
    /\ NoConfig.sel \in [UID -> SUBSET Label]
BY DEF NoConfig, Config

(* The daemon starts in a well-typed state: StartLoop before its first read. *)
LEMMA InitType == Init => TypeOK
<1> SUFFICES ASSUME Init PROVE TypeOK
  OBVIOUS
<1>1. cm \in Configs /\ Rows(cm.roster) \subseteq UID
  BY RowsType DEF Init
<1>2. renewDue \in BOOLEAN /\ misread \in BOOLEAN /\ sweptMisread \in BOOLEAN
  BY Zenon DEF Init
<1> QED
  BY <1>1, <1>2, NoConfigType DEF Init, TypeOK, PCs

(* Every step of the daemon and of its node keeps every variable well typed. *)
LEMMA StepType == TypeOK /\ [Next]_vars => TypeOK'
<1> SUFFICES ASSUME TypeOK, [Next]_vars PROVE TypeOK'
  OBVIOUS
<1> USE DaemonAssumption, RowsType, NoConfigType
    DEF TypeOK, PCs, volumes, sweepVars, broadcaster, history, marks, counters,
        Fault, NoFault
<1>1. CASE HashRoster
  BY <1>1 DEF HashRoster, hashFrame, Config
<1>2. CASE HashSelectors
  <2>1. misread' \in BOOLEAN
    BY <1>2, Zenon DEF HashSelectors
  <2>2. hash' \in Config
    BY <1>2 DEF HashSelectors, Config
  <2> QED
    BY <1>2, <2>1, <2>2 DEF HashSelectors, hashFrame
<1>21. ASSUME NEW l, LabelsRead(l)
       PROVE  l \in {NoLabels} \cup SUBSET Label /\ misread' \in BOOLEAN
              /\ WholeHash(l) \in Config
  <2>1. misread' \in BOOLEAN
    BY <1>21, Zenon DEF LabelsRead
  <2>2. l \in {NoLabels} \cup SUBSET Label
    BY <1>21 DEF LabelsRead, Config
  <2>3. WholeHash(l) \in Config
    BY <2>2 DEF WholeHash, Config
  <2> QED
    BY <2>1, <2>2, <2>3
<1>22. CASE BootHash \/ TickHash
  <2>1. PICK l \in {cm.labels, NoLabels} : LabelsRead(l) /\ hash' = WholeHash(l)
    BY <1>22 DEF BootHash, TickHash
  <2>2. misread' \in BOOLEAN /\ hash' \in Config
    BY <2>1, <1>21
  <2>3. chaos' \in Nat
    BY <2>1 DEF LabelsRead
  <2> QED
    BY <1>22, <2>2, <2>3 DEF BootHash, TickHash, hashFrame
<1>31. CASE TickSkipped
  <2>1. misread' \in BOOLEAN
    BY <1>31, Zenon DEF TickSkipped
  <2> QED
    BY <1>31, <2>1 DEF TickSkipped, hashFrame
<1>4. CASE Adopt
  BY <1>4 DEF Adopt, Adopted
<1>5. CASE OpenFails
  <2>1. misread' \in BOOLEAN /\ sweptMisread' \in BOOLEAN /\ renewDue' \in BOOLEAN
    BY <1>5, Zenon DEF OpenFails, EndSweep
  <2> QED
    BY <1>5, <2>1 DEF OpenFails, EndSweep, SweptHash
<1>6. CASE OpenRoster
  BY <1>6 DEF OpenRoster, Unrestricted, Rows, Config
<1>7. CASE LoadSelectors
  <2>1. misread' \in BOOLEAN
    BY <1>7, Zenon DEF LoadSelectors
  <2>2. selRead' \in {Malformed} \cup [UID -> SUBSET Label]
    BY <1>7 DEF LoadSelectors, Loaded, Config
  <2> QED
    BY <1>7, <2>1, <2>2 DEF LoadSelectors
<1>8. CASE LoadNodeLabels
  <2>1. PICK l \in {cm.labels, NoLabels} :
          /\ LabelsRead(l)
          /\ inRoster' = ApplyNodeFilter(rosterRead, selRead, l)
          /\ swept' = [roster |-> rosterRead, sel |-> selRead, labels |-> l]
    BY <1>8 DEF LoadNodeLabels
  <2>2. swept' \in Config /\ inRoster' \subseteq UID
    BY <2>1, <1>21 DEF ApplyNodeFilter, Config
  <2>3. misread' \in BOOLEAN
    BY <2>1, <1>21
  <2>4. chaos' \in Nat
    BY <2>1 DEF LabelsRead
  <2> QED
    BY <1>8, <2>2, <2>3, <2>4 DEF LoadNodeLabels
<1>9. ASSUME NEW u \in UID, MintRow(u) PROVE TypeOK'
  BY <1>9 DEF MintRow, KeytabMissing, MintFails, ChownFails, Mint, mintFrame
<1>10. CASE EndMint
  BY <1>10 DEF EndMint, mintFrame
<1>11. ASSUME NEW u \in UID, PruneUser(u) PROVE TypeOK'
  BY <1>11 DEF PruneUser, Prune, PruneGone, PruneFails, pruneFrame
<1>12. CASE EndPrune
  BY <1>12 DEF EndPrune, pruneFrame
<1>13. ASSUME NEW u \in UID, EmitPruned(u) PROVE TypeOK'
  BY <1>13 DEF EmitPruned, pruneFrame
<1>20. ASSUME NEW u \in UID, PostPruned(u) PROVE TypeOK'
  BY <1>20 DEF PostPruned
<1>14. CASE FinishSweep
  <2>1. misread' \in BOOLEAN /\ sweptMisread' \in BOOLEAN /\ renewDue' \in BOOLEAN
    BY <1>14, Zenon DEF FinishSweep, EndSweep
  <2> QED
    BY <1>14, <2>1 DEF FinishSweep, EndSweep, SweptHash, Grown
<1>15. CASE Crash
  <2>1. renewDue' \in BOOLEAN /\ misread' \in BOOLEAN /\ sweptMisread' \in BOOLEAN
    BY <1>15, Zenon DEF Crash
  <2>2. /\ lastHash' \in Config /\ hash' \in Config /\ swept' \in Config
        /\ selRead' \in {Malformed} \cup [UID -> SUBSET Label]
    BY <1>15 DEF Crash
  <2> QED
    BY <1>15, <2>1, <2>2 DEF Crash
<1>16. CASE RenewTimeElapses
  BY <1>16 DEF RenewTimeElapses
<1>17. ASSUME NEW c \in Configs, ProjectConfig(c) PROVE TypeOK'
  BY <1>17 DEF ProjectConfig
<1>18. ASSUME NEW u \in UID, ProjectKeytab(u) \/ HumanKinit(u) \/ HumanDestroy(u)
       PROVE TypeOK'
  BY <1>18 DEF ProjectKeytab, HumanKinit, HumanDestroy, others
<1>19. CASE UNCHANGED vars
  BY <1>19 DEF vars
<1> QED
  BY <1>1, <1>2, <1>22, <1>31, <1>4, <1>5, <1>6, <1>7, <1>8, <1>9, <1>10, <1>11,
     <1>12, <1>13, <1>14, <1>15, <1>16, <1>17, <1>18, <1>19, <1>20
  DEF Next, Process, Environment

(* Every variable keeps its type (StartLoop and ProcessRoster never build a *)
(* malformed set of users, hash or selector map).                           *)
THEOREM TypeCorrect == Spec => []TypeOK
BY InitType, StepType, PTL DEF Spec

-----------------------------------------------------------------------------
(* The invariant holds before the process has done anything. *)
LEMMA IInvInit == Init => IInv
<1> SUFFICES ASSUME Init PROVE IInv
  OBVIOUS
<1>1. TypeOK
  BY InitType
<1> QED
  BY <1>1 DEF Init, IInv, PhaseInv, KnownInv, SteadyInv, PurgedInv, NoSilentOrphan

(* Every action preserves every part of the invariant. *)
LEMMA IInvStep == IInv /\ [Next]_vars => IInv'
<1> SUFFICES ASSUME IInv, [Next]_vars PROVE IInv'
  OBVIOUS
<1>0. TypeOK /\ TypeOK'
  BY StepType DEF IInv
<1> DEFINE Rest == PhaseInv /\ KnownInv /\ SteadyInv /\ PurgedInv /\ NoSilentOrphan
<1> USE <1>0 DEF IInv, PhaseInv, KnownInv, SteadyInv, PurgedInv, NoSilentOrphan,
        TypeOK, volumes, sweepVars, broadcaster, history, marks, counters, Fault, NoFault
<1>1. ASSUME HashRoster PROVE Rest'
  BY <1>1 DEF HashRoster, hashFrame
<1>2. ASSUME HashSelectors \/ BootHash PROVE Rest'
  BY <1>2 DEF HashSelectors, BootHash, hashFrame
<1>3. ASSUME TickHash \/ TickSkipped PROVE Rest'
  BY <1>3 DEF TickHash, TickSkipped, hashFrame
<1>4. ASSUME Adopt PROVE Rest'
  BY <1>4 DEF Adopt, Adopted
<1>5. ASSUME OpenFails PROVE Rest'
  BY <1>5 DEF OpenFails, EndSweep
<1>6. ASSUME OpenRoster PROVE Rest'
  BY <1>6 DEF OpenRoster, Unrestricted, Rows
<1>7. ASSUME LoadSelectors PROVE Rest'
  BY <1>7 DEF LoadSelectors, Loaded, Unrestricted
<1>8. ASSUME LoadNodeLabels PROVE Rest'
  BY <1>8 DEF LoadNodeLabels, ApplyNodeFilter, MatchesNode
<1>9. ASSUME NEW u \in UID, MintRow(u) PROVE Rest'
  BY <1>9 DEF MintRow, KeytabMissing, MintFails, ChownFails, Mint, mintFrame
<1>10. ASSUME EndMint PROVE Rest'
  BY <1>10 DEF EndMint, mintFrame
<1>11. ASSUME NEW u \in UID, PruneUser(u) PROVE Rest'
  BY <1>11 DEF PruneUser, Prune, PruneGone, PruneFails, Stale, pruneFrame
<1>12. ASSUME EndPrune PROVE Rest'
  BY <1>12 DEF EndPrune, pruneFrame
<1>13. ASSUME NEW u \in UID, EmitPruned(u) PROVE Rest'
  BY <1>13 DEF EmitPruned, pruneFrame
<1>20. ASSUME NEW u \in UID, PostPruned(u) PROVE Rest'
  BY <1>20 DEF PostPruned
<1>14. ASSUME FinishSweep PROVE Rest'
  BY <1>14 DEF FinishSweep, EndSweep, Grown
<1>15. ASSUME Crash PROVE Rest'
  BY <1>15 DEF Crash
<1>16. ASSUME RenewTimeElapses PROVE Rest'
  BY <1>16 DEF RenewTimeElapses
<1>17. ASSUME NEW c \in Configs, ProjectConfig(c) PROVE Rest'
  BY <1>17 DEF ProjectConfig, Unrestricted
<1>18. ASSUME NEW u \in UID, ProjectKeytab(u) \/ HumanKinit(u) \/ HumanDestroy(u) PROVE Rest'
  BY <1>18 DEF ProjectKeytab, HumanKinit, HumanDestroy, others
<1>19. ASSUME UNCHANGED vars PROVE Rest'
  BY <1>19 DEF vars, Unrestricted, Rows
<1> QED
  BY <1>1, <1>2, <1>3, <1>4, <1>5, <1>6, <1>7, <1>8, <1>9, <1>10, <1>11, <1>12, <1>13, <1>14, <1>15, <1>16, <1>17, <1>18, <1>19, <1>20
  DEF Next, Process, Environment

(* The inductive invariant behind the theorems below: what is in every     *)
(* phase of StartLoop, ProcessRoster and pruneStale the state of the sweep. *)
THEOREM InvariantCorrect == Spec => []IInv
BY IInvInit, IInvStep, PTL DEF Spec

(* Every ccache a daemon wrote stays within reach of a later prune, unless  *)
(* the process ended, a mint half-failed or a removal failed: the managed   *)
(* set of ProcessRoster and adoptPreExisting misses nothing else.           *)
THEOREM NoSilentOrphanCorrect == Spec => []NoSilentOrphan
BY InvariantCorrect, PTL DEF IInv

(* However late the recorder's broadcaster stores a KerberosCcachePruned,   *)
(* it is true of a user no mounted roster has named since its emission: the *)
(* fact the operator's purgeConfirmed relies on.                            *)
THEOREM PruneReportCorrect == Spec => []PruneReportIsFinal
<1>1. IInv => PruneReportIsFinal
  BY DEF IInv, PurgedInv, PruneReportIsFinal
<1> QED
  BY <1>1, InvariantCorrect, PTL

-----------------------------------------------------------------------------
(* Of all the process's steps only pruneStale's removal takes a file away.  *)
LEMMA OnlyPruneRemoves ==
  ASSUME NEW u \in UID, DaemonRemoves(u)
  PROVE  Prune(u)
<1>1. Process /\ u \in ccache /\ u \notin ccache'
  BY DEF DaemonRemoves
<1>2. ASSUME NEW v \in UID, PruneUser(v) PROVE Prune(u)
  BY <1>1, <1>2 DEF PruneUser, Prune, PruneGone, PruneFails
<1>3. ~(\E v \in UID : MintRow(v))
  BY <1>1 DEF MintRow, KeytabMissing, MintFails, ChownFails, Mint
<1>4. ~(\E v \in UID : EmitPruned(v))
  BY <1>1 DEF EmitPruned
<1>5. ~(HashRoster \/ HashSelectors \/ BootHash \/ TickHash \/ TickSkipped \/ Adopt)
  BY <1>1 DEF HashRoster, HashSelectors, BootHash, TickHash, TickSkipped, hashFrame, Adopt
<1>6. ~(OpenFails \/ OpenRoster \/ LoadSelectors \/ LoadNodeLabels)
  BY <1>1 DEF OpenFails, OpenRoster, LoadSelectors, LoadNodeLabels
<1>7. ~(EndMint \/ EndPrune \/ FinishSweep)
  BY <1>1 DEF EndMint, EndPrune, FinishSweep
<1> QED
  BY <1>1, <1>2, <1>3, <1>4, <1>5, <1>6, <1>7 DEF Process

(* pruneStale never deletes the ccache of a user no roster of this node has *)
(* named.                                                                   *)
THEOREM ForeignUntouchedCorrect == Spec => ForeignUntouched
<1>1. IInv /\ [Next]_vars => [\A u \in UID : DaemonRemoves(u) => u \in known]_vars
  BY OnlyPruneRemoves DEF Prune, Stale, IInv, KnownInv
<1> QED
  BY <1>1, InvariantCorrect, PTL DEF Spec, ForeignUntouched

(* pruneStale never deletes the ccache of an unrestricted user that every   *)
(* volume since the sweep's first read has listed.                          *)
THEOREM ConfiguredKeptCorrect == Spec => ConfiguredKept
<1>1. IInv /\ [Next]_vars => [\A u \in UID : DaemonRemoves(u) => u \notin steady]_vars
  BY OnlyPruneRemoves DEF Prune, Stale, IInv, SteadyInv
<1> QED
  BY <1>1, InvariantCorrect, PTL DEF Spec, ConfiguredKept

-----------------------------------------------------------------------------
(* What the sweep under way has read, and what the last one read, against  *)
(* the hash it started from, as long as no read fails.  Up to the first    *)
(* swap after the hash the volume is the one that was hashed; a first swap *)
(* after that makes them differ, a first swap between the reads of the     *)
(* hash comes before every read of the sweep.                              *)
HashPCs == {"bootsel", "ticksel", "bootlabels", "ticklabels"}
SweepPCs == {"select", "filter", "mint", "prune", "emit"}
LoopPCs == {"idle", "ticksel", "ticklabels"}

HashInv ==
    /\ hashedAt <= projects /\ sweptAt <= projects
    /\ pc \in HashPCs \cup {"adopt", "open"} => hash.roster # Absent
    /\ projects = hashedAt /\ ~misread =>
        /\ pc \in HashPCs => hash.roster = cm.roster
        /\ pc \in {"bootlabels", "ticklabels"} => hash.sel = cm.sel
        /\ pc \in {"adopt", "open"} \cup SweepPCs => hash = cm
    /\ pc \in LoopPCs /\ projects = sweptAt /\ ~sweptMisread => lastHash = cm

ReadInv ==
    /\ projects <= hashedAt + 1 /\ ~misread /\ hash = cm =>
        /\ pc \in {"select", "filter"} => rosterRead = cm.roster
        /\ pc = "filter" => selRead = cm.sel
        /\ pc \in {"mint", "prune", "emit"} => swept = cm
    /\ pc \in LoopPCs /\ projects <= sweptAt + 1 /\ ~sweptMisread /\ lastHash = cm
        => swept = cm

ChangeInv == HashInv /\ ReadInv

(* hashInputs gives back the mounted contents when nothing was swapped      *)
(* between its reads and none failed.                                       *)
LEMMA WholeHashIsVolume ==
  ASSUME TypeOK, NEW l
  PROVE  /\ WholeHash(l).roster = hash.roster
         /\ hash.roster = cm.roster /\ hash.sel = cm.sel /\ l = cm.labels
              => WholeHash(l) = cm
<1>1. cm \in Config /\ hash \in Config
  BY DaemonAssumption DEF TypeOK
<1> QED
  BY <1>1 DEF WholeHash, Config

(* Every step keeps track of what was read since the hash was begun. *)
LEMMA ChangeStep == TypeOK /\ ChangeInv /\ [Next]_vars => ChangeInv'
<1> SUFFICES ASSUME TypeOK, ChangeInv, [Next]_vars PROVE ChangeInv'
  OBVIOUS
<1>0. /\ projects \in Nat /\ hashedAt \in Nat /\ sweptAt \in Nat /\ cm \in Config
      /\ HashInv /\ ReadInv
  BY DaemonAssumption DEF TypeOK, ChangeInv
<1> DEFINE read == <<cm, lastHash, hash, rosterRead, selRead, swept, projects, marks>>
<1> USE <1>0 DEF ChangeInv, HashInv, ReadInv, HashPCs, SweepPCs, LoopPCs, volumes, sweepVars,
        broadcaster, history, marks, counters
<1>1. ASSUME UNCHANGED read, pc' = pc PROVE ChangeInv'
  BY <1>1
<1>2. ASSUME UNCHANGED read, pc \in {"mint", "prune"}, pc' \in {"prune", "emit"} PROVE ChangeInv'
  BY <1>2
<1>3. CASE HashRoster
  BY <1>3 DEF HashRoster, hashFrame, TypeOK, Config
<1>4. CASE HashSelectors
  BY <1>4 DEF HashSelectors, hashFrame, TypeOK, Config
<1>5. CASE BootHash \/ TickHash
  <2>1. PICK l \in {cm.labels, NoLabels} : LabelsRead(l) /\ hash' = WholeHash(l)
    BY <1>5 DEF BootHash, TickHash
  <2>2. (misread' = misread /\ l = cm.labels) \/ misread' = TRUE
    BY <2>1 DEF LabelsRead
  <2>3. pc \in {"bootlabels", "ticklabels"} /\ pc' \in {"adopt", "open"}
    BY <1>5 DEF BootHash, TickHash
  <2> QED
    BY <1>5, <2>1, <2>2, <2>3, WholeHashIsVolume DEF BootHash, TickHash, hashFrame
<1>51. CASE TickSkipped
  BY <1>51 DEF TickSkipped, hashFrame
<1>6. CASE Adopt
  BY <1>6 DEF Adopt
<1>7. CASE OpenFails
  BY <1>7 DEF OpenFails, EndSweep, SweptHash
<1>8. CASE OpenRoster
  BY <1>8 DEF OpenRoster
<1>9. CASE LoadSelectors
  BY <1>9 DEF LoadSelectors, Loaded
<1>10. CASE LoadNodeLabels
  <2>1. cm = [roster |-> cm.roster, sel |-> cm.sel, labels |-> cm.labels]
    BY DEF Config
  <2>2. PICK l \in {cm.labels, NoLabels} :
          /\ LabelsRead(l)
          /\ swept' = [roster |-> rosterRead, sel |-> selRead, labels |-> l]
    BY <1>10 DEF LoadNodeLabels
  <2>3. (misread' = misread /\ l = cm.labels) \/ misread' = TRUE
    BY <2>2 DEF LabelsRead
  <2> QED
    BY <1>10, <2>1, <2>2, <2>3 DEF LoadNodeLabels
<1>11. ASSUME NEW u \in UID, MintRow(u) \/ PruneUser(u) \/ EmitPruned(u)
       PROVE  UNCHANGED read /\ pc' = pc
  BY <1>11 DEF MintRow, KeytabMissing, MintFails, ChownFails, Mint, mintFrame,
               PruneUser, Prune, PruneGone, PruneFails, EmitPruned, pruneFrame
<1>12. CASE EndMint \/ EndPrune
  BY <1>2, <1>12 DEF EndMint, EndPrune, mintFrame, pruneFrame
<1>13. CASE FinishSweep
  BY <1>13 DEF FinishSweep, EndSweep, SweptHash
<1>14. CASE Crash
  BY <1>14 DEF Crash
<1>15. CASE RenewTimeElapses
  BY <1>15 DEF RenewTimeElapses
<1>16. ASSUME NEW c \in Configs, ProjectConfig(c) PROVE ChangeInv'
  <2>1. /\ cm' # cm /\ projects' = projects + 1
        /\ UNCHANGED <<pc, lastHash, hash, rosterRead, selRead, swept, hashedAt, sweptAt>>
    BY <1>16 DEF ProjectConfig
  <2>2. HashInv'
    BY <2>1
  <2>3. /\ misread' = misread /\ sweptMisread' = sweptMisread
        /\ projects' <= hashedAt' + 1 => projects = hashedAt
        /\ projects' <= sweptAt' + 1 => projects = sweptAt
    BY <1>16, <2>1 DEF ProjectConfig
  <2>4. ASSUME projects = hashedAt, ~misread, pc \in SweepPCs PROVE hash' # cm'
    BY <2>1, <2>4
  <2>5. ASSUME projects = sweptAt, ~sweptMisread, pc \in LoopPCs PROVE lastHash' # cm'
    BY <2>1, <2>5
  <2>6. ReadInv'
    BY <2>1, <2>3, <2>4, <2>5
  <2> QED
    BY <2>2, <2>6
<1>17. ASSUME NEW u \in UID,
              PostPruned(u) \/ ProjectKeytab(u) \/ HumanKinit(u) \/ HumanDestroy(u)
       PROVE  UNCHANGED read /\ pc' = pc
  BY <1>17 DEF PostPruned, ProjectKeytab, HumanKinit, HumanDestroy, others
<1>18. ASSUME UNCHANGED vars PROVE UNCHANGED read /\ pc' = pc
  BY <1>18 DEF vars
<1> QED
  BY <1>1, <1>3, <1>4, <1>5, <1>51, <1>6, <1>7, <1>8, <1>9, <1>10, <1>11, <1>12, <1>13, <1>14, <1>15,
     <1>16, <1>17, <1>18 DEF Next, Process, Environment

(* StartLoop takes the hash before it sweeps: an idle daemon whose hash     *)
(* matches the mounted volume has swept exactly that volume, unless a read  *)
(* of that sweep failed or the volume was swapped away and back since.      *)
THEOREM NoMissedChangeCorrect == Spec => []NoMissedChange
<1>1. Init => ChangeInv
  BY DEF Init, ChangeInv, HashInv, ReadInv, HashPCs, SweepPCs, LoopPCs
<1>2. ChangeInv => NoMissedChange
  BY DEF ChangeInv, ReadInv, LoopPCs, NoMissedChange
<1> QED
  BY <1>1, <1>2, ChangeStep, TypeCorrect, PTL DEF Spec

-----------------------------------------------------------------------------
(* A state in which StartLoop begins is one in which a Caretaker begins. *)
LEMMA CaretakerInit == Init => Promise!CInit
BY RowsType DEF Init, Promise!CInit

(* Every step of the daemon and of its node is a step of a Caretaker or    *)
(* changes nothing a Caretaker can see: the reads, the ends of the phases, *)
(* the hand-over of what was minted to the managed set and the storage of  *)
(* an Event stay invisible.                                                *)
LEMMA CaretakerStep == IInv /\ [Next]_vars => [Promise!CNext]_(Promise!cvars)
<1> SUFFICES ASSUME IInv, [Next]_vars PROVE Promise!CNext \/ UNCHANGED Promise!cvars
  OBVIOUS
<1> USE DEF IInv, TypeOK, PhaseInv, KnownInv, PurgedInv, Promise!cvars,
        volumes, sweepVars, broadcaster, history, marks, counters, Fault, NoFault
<1>1. ASSUME \/ HashRoster \/ HashSelectors \/ BootHash \/ TickHash \/ TickSkipped
             \/ RenewTimeElapses
      PROVE  UNCHANGED Promise!cvars
  BY <1>1 DEF HashRoster, HashSelectors, BootHash, TickHash, TickSkipped, hashFrame,
              RenewTimeElapses
<1>2. ASSUME Adopt PROVE Promise!Adopt
  BY <1>2 DEF Adopt, Adopted, Promise!Adopt
<1>3. ASSUME OpenFails \/ OpenRoster \/ LoadSelectors \/ LoadNodeLabels
      PROVE  UNCHANGED Promise!cvars
  BY <1>3 DEF OpenFails, EndSweep, OpenRoster, LoadSelectors, LoadNodeLabels
<1>4. ASSUME NEW u \in UID, MintRow(u) PROVE Promise!Write(u) \/ UNCHANGED Promise!cvars
  <2>1. CASE KeytabMissing(u) \/ MintFails(u)
    BY <2>1 DEF KeytabMissing, MintFails, mintFrame
  <2>2. CASE ChownFails(u) \/ Mint(u)
    BY <2>2 DEF ChownFails, Mint, mintFrame, Promise!Write
  <2> QED
    BY <1>4, <2>1, <2>2 DEF MintRow
<1>5. ASSUME NEW u \in UID, PruneUser(u) PROVE Promise!Remove(u) \/ Promise!GiveUp(u)
  <2>0. minted \subseteq inRoster
    OBVIOUS
  <2>1. CASE Prune(u)
    BY <2>0, <2>1 DEF Prune, Stale, pruneFrame, Promise!Remove
  <2>2. CASE PruneGone(u) \/ PruneFails(u)
    BY <2>0, <2>2 DEF PruneGone, PruneFails, Stale, pruneFrame, Promise!GiveUp
  <2> QED
    BY <1>5, <2>1, <2>2 DEF PruneUser
<1>6. ASSUME EndMint \/ EndPrune \/ FinishSweep PROVE UNCHANGED Promise!cvars
  BY <1>6 DEF EndMint, EndPrune, FinishSweep, EndSweep, Grown, mintFrame, pruneFrame
<1>7. ASSUME NEW u \in UID, EmitPruned(u) PROVE Promise!Report(u)
  BY <1>7 DEF EmitPruned, pruneFrame, Promise!Report
<1>13. ASSUME NEW u \in UID, PostPruned(u) PROVE UNCHANGED Promise!cvars
  BY <1>13 DEF PostPruned
<1>8. ASSUME Crash PROVE Promise!Restart
  BY <1>8 DEF Crash, Promise!Restart
<1>9. ASSUME NEW c \in Configs, ProjectConfig(c) PROVE Promise!NewRoster
  BY <1>9, RowsType DEF ProjectConfig, Promise!NewRoster
<1>10. ASSUME NEW u \in UID, ProjectKeytab(u) PROVE UNCHANGED Promise!cvars
  BY <1>10 DEF ProjectKeytab, others
<1>11. ASSUME NEW u \in UID, HumanKinit(u) \/ HumanDestroy(u) PROVE Promise!Person(u)
  BY <1>11 DEF HumanKinit, HumanDestroy, others, Promise!Person
<1>12. ASSUME UNCHANGED vars PROVE UNCHANGED Promise!cvars
  BY <1>12 DEF vars
<1> QED
  BY <1>1, <1>2, <1>3, <1>4, <1>5, <1>6, <1>7, <1>8, <1>9, <1>10, <1>11, <1>12, <1>13
  DEF Next, Process, Environment, Promise!CNext

(* StartLoop and all it calls implement the promise of module Caretaker,   *)
(* for every set of users, labels and volume contents.                     *)
THEOREM CaretakerImplemented == Spec => ImplementsCaretaker
BY CaretakerInit, CaretakerStep, InvariantCorrect, PTL
DEF Spec, ImplementsCaretaker, Promise!CSpec
=============================================================================
