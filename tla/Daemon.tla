------------------------------- MODULE Daemon -------------------------------
(***************************************************************************)
(* One kerberator-daemon on one node: the poll loop of                     *)
(* daemon/pkg/watcher/watcher.go, the Minter it calls and the files it     *)
(* shares with the kubelet (which projects the roster ConfigMap and the    *)
(* keytab Secret, two volumes refreshed independently), with people who    *)
(* run kinit and kdestroy on the node, and with its own earlier and later  *)
(* incarnations.                                                           *)
(*                                                                         *)
(* A user is a member of UID.  A file krb5cc_<uid> is a member of ccache;  *)
(* a keytab file is a member of keytabs.  What the daemon reads from the   *)
(* ConfigMap volume is a record of the three parsed files.                 *)
(***************************************************************************)
EXTENDS Naturals, FiniteSets

CONSTANTS
    UID,          \* users that may appear in a roster or own a ccache
    Label,        \* key=value pairs of selectors and node labels
    Absent,       \* roster file missing from the mount
    Malformed,    \* selectors.json that does not parse
    NoLabels,     \* no usable node-labels entry for this node
    Configs,      \* contents the roster ConfigMap volume may take
    PruneStale,   \* the --prune-stale flag
    MaxProjects,  \* bound: projections of the ConfigMap volume
    MaxCrashes,   \* bound: ends of the daemon process
    MaxChaos      \* bound: failed calls and changes made by others

(* A parsed roster volume.  sel gives each user the labels it requires,    *)
(* {} when selectors.json has no row for it (or does not exist); labels    *)
(* are this node's row of node-labels.json, NoLabels when the file or the  *)
(* row is missing, the JSON is bad or NODE_NAME is empty.                  *)
Config == [roster : {Absent} \cup SUBSET UID,
           sel    : {Malformed} \cup [UID -> SUBSET Label],
           labels : {NoLabels} \cup SUBSET Label]

ASSUME DaemonAssumption ==
    /\ \A r \in SUBSET UID : r # Absent
    /\ \A s \in [UID -> SUBSET Label] : s # Malformed
    /\ \A l \in SUBSET Label : l # NoLabels
    /\ Configs \subseteq Config
    /\ Configs # {}
    /\ PruneStale \in BOOLEAN
    /\ MaxProjects \in Nat /\ MaxCrashes \in Nat /\ MaxChaos \in Nat

VARIABLES
    (* the node *)
    cm,         \* the ConfigMap volume as mounted now
    keytabs,    \* users whose keytab file is mounted now
    ccache,     \* users with a krb5cc_<uid> file
    (* the process *)
    pc,         \* where StartLoop / ProcessRoster is
    managed,    \* Processor.managed
    lastHash,   \* StartLoop's lastHash
    hash,       \* the hash being computed, or the one the sweep started from
    renewDue,   \* time.Since(lastRenewTime) >= renewDuration
    rosterRead, \* roster rows parsed by this sweep
    selRead,    \* selectors loaded by this sweep
    inRoster,   \* ProcessRoster's inRoster: the filtered roster
    todo,       \* rows the mint loop has not handled yet
    minted,     \* ProcessRoster's minted
    removed,    \* files pruned whose event has not been emitted yet
    (* the recorder's broadcaster, a goroutine of its own *)
    queue,      \* users whose KerberosCcachePruned the broadcaster holds
    posted,     \* users whose KerberosCcachePruned is stored in the cluster
    (* history, read by no action of the system *)
    ours,       \* files last written by a daemon, not by a person
    lost,       \* files of a daemon that its process never managed
    abandoned,  \* files whose removal failed
    steady,     \* unrestricted in every volume since the sweep's first read
    purged,     \* pruned, emitted and in no roster since
    known,      \* users of any roster mounted so far
    swept,      \* the volume contents the last sweep used
    hashedAt,   \* projects when the hash under way was begun
    sweptAt,    \* projects when the hash of the last sweep was begun
    misread,    \* a read failed since the hash under way was begun
    sweptMisread, \* a read failed in the last sweep or its hash
    (* bounds *)
    projects, crashes, chaos

volumes == <<cm, keytabs>>
sweepVars == <<rosterRead, selRead, inRoster, todo, minted, removed>>
broadcaster == <<queue, posted>>
history == <<ours, lost, abandoned, steady, purged, known, swept>>
marks == <<hashedAt, sweptAt, misread, sweptMisread>>
counters == <<projects, marks, crashes, chaos>>
vars == <<volumes, ccache, pc, managed, lastHash, hash, renewDue, sweepVars,
          broadcaster, history, counters>>

PCs == {"down", "bootsel", "bootlabels", "adopt", "idle", "ticksel",
        "ticklabels", "open", "select", "filter", "mint", "prune", "emit"}

-----------------------------------------------------------------------------
(* Parsing and filtering (watcher.go, nodefilter.go, readyz.go)            *)

(* ParseRoster: the well-formed rows; a missing file has none. *)
Rows(r) == IF r = Absent THEN {} ELSE r

(* MatchesNode: an unrestricted user always applies; a restricted one only *)
(* where this node's labels are known and contain every required pair.     *)
MatchesNode(u, sel, labels) ==
    \/ sel[u] = {}
    \/ labels # NoLabels /\ sel[u] \subseteq labels

(* applyNodeFilter: selectors that do not load restrict nobody. *)
ApplyNodeFilter(rows, sel, labels) ==
    {u \in rows : sel # Malformed => MatchesNode(u, sel, labels)}

(* FilterEligibleForNode on the volume as it is mounted now. *)
Eligible(c) == ApplyNodeFilter(Rows(c.roster), c.sel, c.labels)

(* The readyz probe: a roster, and a ccache for every user it expects. *)
Ready == cm.roster # Absent /\ Eligible(cm) \subseteq ccache

(* Users of volume c that no selector restricts. *)
Unrestricted(c) == {u \in Rows(c.roster) : c.sel # Malformed => c.sel[u] = {}}

-----------------------------------------------------------------------------
NoConfig == [roster |-> Absent, sel |-> [u \in UID |-> {}], labels |-> NoLabels]

Init ==
    /\ cm \in Configs
    /\ keytabs = Rows(cm.roster)
    /\ ccache \in SUBSET UID            \* left by people or earlier daemons
    /\ ours = ccache \cap Rows(cm.roster)
    /\ pc = "down"
    /\ managed = {} /\ lastHash = NoConfig /\ hash = NoConfig /\ renewDue = FALSE
    /\ rosterRead = {} /\ selRead = NoConfig.sel /\ inRoster = {}
    /\ todo = {} /\ minted = {} /\ removed = {}
    /\ queue = {} /\ posted = {}
    /\ lost = ours /\ abandoned = {} /\ steady = {} /\ purged = {}
    /\ known = Rows(cm.roster) /\ swept = NoConfig
    /\ hashedAt = 0 /\ sweptAt = 0 /\ misread = FALSE /\ sweptMisread = FALSE
    /\ projects = 0 /\ crashes = 0 /\ chaos = 0

Fault == chaos < MaxChaos /\ chaos' = chaos + 1
NoFault == UNCHANGED chaos

-----------------------------------------------------------------------------
(* hashInputs.  The three files are opened one after the other, so the     *)
(* kubelet may swap the volume between any two of them.  A roster that is  *)
(* missing or cannot be read is an error: at startup the process exits, in *)
(* the loop the tick is skipped; neither changes anything.  A companion    *)
(* that cannot be read contributes what a missing one does, nothing.  MD5  *)
(* is taken to be injective: the hash is the contents.                     *)

hashFrame == <<volumes, ccache, managed, lastHash, renewDue, sweepVars,
               broadcaster, history, projects, sweptAt, sweptMisread, crashes>>

HashRoster ==
    /\ pc \in {"down", "idle"}
    /\ cm.roster # Absent
    /\ hash' = [hash EXCEPT !.roster = cm.roster]
    /\ hashedAt' = projects
    /\ pc' = IF pc = "down" THEN "bootsel" ELSE "ticksel"
    /\ UNCHANGED <<misread, chaos, hashFrame>>

HashSelectors ==
    /\ pc \in {"bootsel", "ticksel"}
    /\ \/ NoFault /\ hash' = [hash EXCEPT !.sel = cm.sel] /\ UNCHANGED misread
       \/ Fault /\ hash' = [hash EXCEPT !.sel = NoConfig.sel] /\ misread' = TRUE
    /\ pc' = IF pc = "bootsel" THEN "bootlabels" ELSE "ticklabels"
    /\ UNCHANGED <<hashedAt, hashFrame>>

(* The hash with the last file read, or failed to read. *)
WholeHash(l) == [hash EXCEPT !.labels = l]

SweepNeededSlip(l) == WholeHash(l) # lastHash  \* slip: renewal forgotten
SweepNeeded(l) == WholeHash(l) # lastHash \/ renewDue

(* The read of node-labels.json gives l. *)
LabelsRead(l) ==
    \/ NoFault /\ l = cm.labels /\ UNCHANGED misread
    \/ Fault /\ l = NoLabels /\ misread' = TRUE

(* StartLoop, before the loop: the first hash needs no comparison. *)
BootHash ==
    /\ pc = "bootlabels"
    /\ \E l \in {cm.labels, NoLabels} : LabelsRead(l) /\ hash' = WholeHash(l)
    /\ pc' = "adopt"
    /\ UNCHANGED <<hashedAt, hashFrame>>

(* One tick of StartLoop: sweep on a changed hash or when renewal is due.  *)
TickHash ==
    /\ pc = "ticklabels"
    /\ \E l \in {cm.labels, NoLabels} :
          LabelsRead(l) /\ SweepNeeded(l) /\ hash' = WholeHash(l)
    /\ pc' = "open"
    /\ UNCHANGED <<hashedAt, hashFrame>>

(* Otherwise wait for the next tick. *)
TickSkipped ==
    /\ pc = "ticklabels"
    /\ \/ NoFault /\ ~SweepNeeded(cm.labels)
       \/ Fault /\ ~SweepNeeded(NoLabels)
    /\ pc' = "idle"
    /\ hash' = NoConfig /\ hashedAt' = 0 /\ misread' = FALSE
    /\ UNCHANGED hashFrame

(* adoptPreExisting: claim the ccache files of users in the roster as it   *)
(* is now; an unreadable roster or cache directory adopts nothing.         *)
AdoptedSlip == ccache                    \* slip: roster not consulted
Adopted == ccache \cap Rows(cm.roster)

Adopt ==
    /\ pc = "adopt"
    /\ \/ NoFault /\ managed' = Adopted
       \/ Fault /\ managed' = {}
    /\ lost' = lost \ managed'
    /\ abandoned' = abandoned \ managed'
    /\ pc' = "open"
    /\ UNCHANGED <<volumes, ccache, lastHash, hash, renewDue, sweepVars,
                   broadcaster, ours, steady, purged, known, swept, projects,
                   marks, crashes>>

-----------------------------------------------------------------------------
(* ProcessRoster *)

(* slip: lastHash taken after the sweep. *)
SweptHashSlip == cm
SweptHash == hash

(* What StartLoop does after every sweep: the hash read BEFORE the sweep   *)
(* becomes lastHash and the renewal clock restarts; ProcessRoster's locals *)
(* are gone.                                                               *)
EndSweep ==
    /\ pc' = "idle"
    /\ lastHash' = SweptHash
    /\ hash' = NoConfig
    /\ renewDue' = FALSE
    /\ rosterRead' = {} /\ selRead' = NoConfig.sel /\ inRoster' = {}
    /\ minted' = {}
    /\ steady' = {}
    /\ sweptAt' = hashedAt /\ hashedAt' = 0 /\ misread' = FALSE

(* The roster is missing or cannot be read: (0, 1), nothing minted and     *)
(* nothing pruned, and StartLoop takes the hash over as after any sweep.   *)
OpenFails ==
    /\ pc = "open"
    /\ \/ cm.roster = Absent /\ NoFault /\ sweptMisread' = misread
       \/ cm.roster # Absent /\ Fault /\ sweptMisread' = TRUE
    /\ EndSweep
    /\ UNCHANGED <<volumes, ccache, managed, todo, removed, broadcaster, ours,
                   lost, abandoned, purged, known, swept, projects, crashes>>

OpenRoster ==
    /\ pc = "open"
    /\ cm.roster # Absent
    /\ rosterRead' = cm.roster
    /\ steady' = Unrestricted(cm)
    /\ pc' = "select"
    /\ UNCHANGED <<volumes, ccache, managed, lastHash, hash, renewDue, selRead,
                   inRoster, todo, minted, removed, broadcaster, ours, lost,
                   abandoned, purged, known, swept, counters>>

(* slip: users without a row are left out of the loaded map. *)
LoadedSlip ==
    IF cm.sel = Malformed THEN Malformed
    ELSE [u \in {v \in UID : cm.sel[v] # {}} |-> cm.sel[u]]
Loaded == cm.sel

(* LoadSelectorsFile: a file that cannot be read is an error like one that *)
(* does not parse.                                                         *)
LoadSelectors ==
    /\ pc = "select"
    /\ \/ NoFault /\ selRead' = Loaded /\ UNCHANGED misread
       \/ Fault /\ selRead' = Malformed /\ misread' = TRUE
    /\ pc' = "filter"
    /\ UNCHANGED <<volumes, ccache, managed, lastHash, hash, renewDue, rosterRead,
                   inRoster, todo, minted, removed, broadcaster, history,
                   projects, hashedAt, sweptAt, sweptMisread, crashes>>

(* LoadNodeLabelsFile and the filter: labels that cannot be read are none. *)
LoadNodeLabels ==
    /\ pc = "filter"
    /\ \E l \in {cm.labels, NoLabels} :
          /\ LabelsRead(l)
          /\ inRoster' = ApplyNodeFilter(rosterRead, selRead, l)
          /\ swept' = [roster |-> rosterRead, sel |-> selRead, labels |-> l]
    /\ todo' = inRoster'
    /\ pc' = "mint"
    /\ UNCHANGED <<volumes, ccache, managed, lastHash, hash, renewDue, rosterRead,
                   selRead, minted, removed, broadcaster, ours, lost, abandoned,
                   steady, purged, known, projects, hashedAt, sweptAt,
                   sweptMisread, crashes>>

mintFrame == <<volumes, managed, lastHash, hash, renewDue, rosterRead, selRead,
               inRoster, removed, broadcaster, steady, purged, known, swept,
               projects, marks, crashes>>

(* One row of the mint loop with no keytab file: KerberosKeytabMissing.    *)
KeytabMissing(u) ==
    /\ pc = "mint" /\ u \in todo /\ u \notin keytabs
    /\ todo' = todo \ {u}
    /\ UNCHANGED <<pc, ccache, minted, ours, lost, abandoned, chaos, mintFrame>>

(* Mint fails before kinit wrote the file (bad request, KDC error, 30 s    *)
(* timeout): KerberosMintFailed, whatever file there was stays.            *)
MintFails(u) ==
    /\ pc = "mint" /\ u \in todo /\ u \in keytabs
    /\ Fault
    /\ todo' = todo \ {u}
    /\ UNCHANGED <<pc, ccache, minted, ours, lost, abandoned, mintFrame>>

(* kinit wrote the file and chown or chmod failed: the same event, but the *)
(* file is there and the user is not counted as minted.                    *)
ChownFails(u) ==
    /\ pc = "mint" /\ u \in todo /\ u \in keytabs
    /\ Fault
    /\ todo' = todo \ {u}
    /\ ccache' = ccache \cup {u}
    /\ ours' = ours \cup {u}
    /\ lost' = lost \cup ({u} \ managed)
    /\ UNCHANGED <<pc, minted, abandoned, mintFrame>>

Mint(u) ==
    /\ pc = "mint" /\ u \in todo /\ u \in keytabs
    /\ todo' = todo \ {u}
    /\ ccache' = ccache \cup {u}
    /\ ours' = ours \cup {u}
    /\ lost' = lost \ {u}
    /\ abandoned' = abandoned \ {u}
    /\ minted' = minted \cup {u}
    /\ UNCHANGED <<pc, chaos, mintFrame>>

EndMint ==
    /\ pc = "mint" /\ todo = {}
    /\ pc' = IF PruneStale THEN "prune" ELSE "emit"
    /\ UNCHANGED <<ccache, todo, minted, ours, lost, abandoned, chaos, mintFrame>>

-----------------------------------------------------------------------------
(* pruneStale: every managed user outside the filtered roster.  Whatever   *)
(* Remove returns, the user leaves managed; only a successful removal is   *)
(* reported, and the reports are emitted after the last removal.           *)
StaleSlip == managed \ minted            \* slip: a failed mint counts as gone
Stale == managed \ inRoster

pruneFrame == <<volumes, lastHash, hash, renewDue, rosterRead, selRead, inRoster,
                todo, minted, posted, lost, steady, known, swept, projects,
                marks, crashes>>

Prune(u) ==
    /\ pc = "prune" /\ u \in Stale /\ u \in ccache
    /\ ccache' = ccache \ {u}
    /\ ours' = ours \ {u}
    /\ managed' = managed \ {u}
    /\ removed' = removed \cup {u}
    /\ UNCHANGED <<pc, abandoned, queue, purged, chaos, pruneFrame>>

PruneGone(u) ==
    /\ pc = "prune" /\ u \in Stale /\ u \notin ccache
    /\ managed' = managed \ {u}
    /\ UNCHANGED <<pc, ccache, ours, abandoned, removed, queue, purged, chaos, pruneFrame>>

(* slip: a removal that failed is reported as done. *)
PruneFailsSlip(u) ==
    /\ pc = "prune" /\ u \in Stale /\ u \in ccache
    /\ Fault
    /\ managed' = managed \ {u}
    /\ removed' = removed \cup {u}
    /\ UNCHANGED <<pc, ccache, ours, abandoned, queue, purged, pruneFrame>>

PruneFails(u) ==
    /\ pc = "prune" /\ u \in Stale /\ u \in ccache
    /\ Fault
    /\ managed' = managed \ {u}
    /\ abandoned' = abandoned \cup ({u} \cap ours)
    /\ UNCHANGED <<pc, ccache, ours, removed, queue, purged, pruneFrame>>

EndPrune ==
    /\ pc = "prune" /\ Stale = {}
    /\ pc' = "emit"
    /\ UNCHANGED <<ccache, managed, ours, abandoned, removed, queue, purged, chaos,
                   pruneFrame>>

(* emitPruned hands the event, stamped now, to the recorder's broadcaster  *)
(* and goes on.                                                            *)
EmitPruned(u) ==
    /\ pc = "emit" /\ u \in removed
    /\ removed' = removed \ {u}
    /\ queue' = queue \cup {u}
    /\ purged' = purged \cup ({u} \ Rows(cm.roster))
    /\ UNCHANGED <<pc, ccache, managed, ours, abandoned, chaos, pruneFrame>>

(* The broadcaster stores the event: any time later, retries included, or  *)
(* never (queue full, retries used up, refused), which it only logs.       *)
PostPruned(u) ==
    /\ u \in queue
    /\ queue' = queue \ {u}
    /\ posted' = posted \cup {u}
    /\ UNCHANGED <<volumes, ccache, pc, managed, lastHash, hash, renewDue,
                   sweepVars, history, counters>>

(* The managed set grows by what this sweep minted, and the sweep ends. *)
GrownSlip == minted                      \* slip: earlier sweeps forgotten
Grown == managed \cup minted

FinishSweep ==
    /\ pc = "emit" /\ removed = {}
    /\ managed' = Grown
    /\ EndSweep
    /\ sweptMisread' = misread
    /\ UNCHANGED <<volumes, ccache, todo, removed, broadcaster, ours, lost,
                   abandoned, purged, known, swept, projects, crashes, chaos>>

-----------------------------------------------------------------------------
(* Others *)

(* The process ends (signal, eviction, image rollout): all it knew is      *)
(* gone.  An event it had queued may have been sent already, so it may     *)
(* still turn up.                                                          *)
Crash ==
    /\ pc # "down" /\ crashes < MaxCrashes
    /\ crashes' = crashes + 1
    /\ pc' = "down"
    /\ managed' = {} /\ lastHash' = NoConfig /\ hash' = NoConfig /\ renewDue' = FALSE
    /\ rosterRead' = {} /\ selRead' = NoConfig.sel /\ inRoster' = {}
    /\ todo' = {} /\ minted' = {} /\ removed' = {}
    /\ lost' = ours \ abandoned
    /\ steady' = {} /\ swept' = NoConfig /\ sweptAt' = 0 /\ hashedAt' = 0
    /\ misread' = FALSE /\ sweptMisread' = FALSE
    /\ UNCHANGED <<volumes, ccache, broadcaster, ours, abandoned, purged, known,
                   projects, chaos>>

(* renewMinutes pass since the last sweep, between ticks or while the next *)
(* hash is computed (the clock is read after it).                          *)
RenewTimeElapses ==
    /\ pc \in {"idle", "ticksel", "ticklabels"} /\ ~renewDue
    /\ renewDue' = TRUE
    /\ UNCHANGED <<volumes, ccache, pc, managed, lastHash, hash, sweepVars,
                   broadcaster, history, counters>>

(* The kubelet swaps the roster ConfigMap volume. *)
ProjectConfig(c) ==
    /\ projects < MaxProjects /\ c # cm
    /\ projects' = projects + 1
    /\ cm' = c
    /\ steady' = steady \cap Unrestricted(c)
    /\ purged' = purged \ Rows(c.roster)
    /\ known' = known \cup Rows(c.roster)
    /\ UNCHANGED <<keytabs, ccache, pc, managed, lastHash, hash, renewDue,
                   sweepVars, broadcaster, ours, lost, abandoned, swept, marks,
                   crashes, chaos>>

others == <<cm, pc, managed, lastHash, hash, renewDue, sweepVars, broadcaster,
            steady, purged, known, swept, projects, marks, crashes>>

(* The kubelet refreshes the keytab Secret volume. *)
ProjectKeytab(u) ==
    /\ Fault
    /\ keytabs' = IF u \in keytabs THEN keytabs \ {u} ELSE keytabs \cup {u}
    /\ UNCHANGED <<ccache, ours, lost, abandoned, others>>

(* A person runs kinit or kdestroy on the node. *)
HumanKinit(u) ==
    /\ Fault
    /\ ccache' = ccache \cup {u}
    /\ ours' = ours \ {u} /\ lost' = lost \ {u} /\ abandoned' = abandoned \ {u}
    /\ UNCHANGED <<keytabs, others>>

HumanDestroy(u) ==
    /\ Fault /\ u \in ccache
    /\ ccache' = ccache \ {u}
    /\ ours' = ours \ {u} /\ lost' = lost \ {u} /\ abandoned' = abandoned \ {u}
    /\ UNCHANGED <<keytabs, others>>

-----------------------------------------------------------------------------
MintRow(u) == KeytabMissing(u) \/ MintFails(u) \/ ChownFails(u) \/ Mint(u)
PruneUser(u) == Prune(u) \/ PruneGone(u) \/ PruneFails(u)

(* The process's own steps, one at a time. *)
Process ==
    \/ HashRoster \/ HashSelectors \/ BootHash \/ TickHash \/ TickSkipped \/ Adopt
    \/ OpenFails \/ OpenRoster \/ LoadSelectors \/ LoadNodeLabels
    \/ \E u \in UID : MintRow(u)
    \/ EndMint
    \/ \E u \in UID : PruneUser(u)
    \/ EndPrune
    \/ \E u \in UID : EmitPruned(u)
    \/ FinishSweep

Environment ==
    \/ Crash \/ RenewTimeElapses
    \/ \E c \in Configs : ProjectConfig(c)
    \/ \E u \in UID : ProjectKeytab(u) \/ HumanKinit(u) \/ HumanDestroy(u)

Next == Process \/ (\E u \in UID : PostPruned(u)) \/ Environment

Spec == Init /\ [][Next]_vars

(* The loop runs on a ticker and a container that ends is restarted, so    *)
(* the process always takes its next step; time passes.  Nothing makes the *)
(* broadcaster succeed.                                                    *)
Fairness == WF_vars(Process) /\ WF_vars(RenewTimeElapses)

FairSpec == Spec /\ Fairness

-----------------------------------------------------------------------------
(* Every variable holds a value of its type. *)
TypeOK ==
    /\ cm \in Configs
    /\ keytabs \subseteq UID /\ ccache \subseteq UID
    /\ pc \in PCs
    /\ managed \subseteq UID
    /\ lastHash \in Config /\ hash \in Config
    /\ renewDue \in BOOLEAN
    /\ rosterRead \subseteq UID
    /\ selRead \in {Malformed} \cup [UID -> SUBSET Label]
    /\ inRoster \subseteq UID /\ todo \subseteq UID
    /\ minted \subseteq UID /\ removed \subseteq UID
    /\ queue \subseteq UID /\ posted \subseteq UID
    /\ ours \subseteq UID /\ lost \subseteq UID /\ abandoned \subseteq UID
    /\ steady \subseteq UID /\ purged \subseteq UID /\ known \subseteq UID
    /\ swept \in Config
    /\ hashedAt \in Nat /\ sweptAt \in Nat
    /\ misread \in BOOLEAN /\ sweptMisread \in BOOLEAN
    /\ projects \in Nat
    /\ crashes \in Nat /\ chaos \in Nat

(* The files a step of the daemon takes away. *)
DaemonRemoves(u) == Process /\ u \in ccache /\ u \notin ccache'

(* "Foreign UIDs (a human kinit on the node) are never touched": pruneStale *)
(* only ever deletes the ccache of a user that some roster mounted on this  *)
(* node has named, across restarts, adoption and roster changes.            *)
ForeignUntouched == [][\A u \in UID : DaemonRemoves(u) => u \in known]_vars

(* "UIDs still in the current roster are never touched": however long the   *)
(* mint loop takes and whatever the kubelet swaps in between the reads of   *)
(* one sweep, a user without nodeSelector that every volume since the       *)
(* sweep's first read has listed keeps its ccache.                          *)
ConfiguredKept == [][\A u \in UID : DaemonRemoves(u) => u \notin steady]_vars

(* Every ccache a daemon wrote is in the managed set (or about to be), so   *)
(* that a later sweep can prune it, unless the process ended, the mint      *)
(* failed half-way or the removal failed.                                   *)
NoSilentOrphan == ours \subseteq managed \cup minted \cup lost \cup abandoned

(* What purgeConfirmed in the operator relies on: however late the          *)
(* broadcaster stores KerberosCcachePruned, whatever the daemon, its         *)
(* successor and the volumes do meanwhile, no ccache of a daemon for that    *)
(* user is on the node unless a mounted roster has named the user since the  *)
(* event was emitted.                                                        *)
PruneReportIsFinal == posted \cap purged \cap ours = {}

(* Hash first, sweep after: when the loop believes it is up to date          *)
(* (lastHash is the mounted contents) then the last sweep did read those     *)
(* contents, if no read of it failed and the volume was swapped at most once *)
(* since its hash was started.  (A failed read, and two swaps, away and      *)
(* back, can be missed until renewal.)                                       *)
NoMissedChange ==
    (pc = "idle" /\ lastHash = cm /\ projects <= sweptAt + 1 /\ ~sweptMisread)
        => swept = cm

(* Once the mounts and the people settle, a node whose expected users all   *)
(* have keytabs becomes ready and stays ready.                              *)
BecomesReady ==
    <>[](cm.roster # Absent /\ Eligible(cm) \subseteq keytabs) => <>[]Ready

(* Once a user is no longer eligible on the node its ccache goes away,      *)
(* except the files NoSilentOrphan excuses.                                 *)
IneligiblePruned ==
    \A u \in UID :
        <>[](cm.roster # Absent /\ u \notin Eligible(cm))
            => <>[](u \notin ours \/ u \in lost \cup abandoned)

(* The daemon as its users see it: the claims are what it manages and what *)
(* the sweep under way has minted.                                         *)
Promise == INSTANCE Caretaker WITH
    files <- ccache, mine <- ours, claim <- managed \cup minted,
    roster <- Rows(cm.roster), named <- known, owed <- removed, done <- purged

(* StartLoop, ProcessRoster, adoptPreExisting and pruneStale together, with *)
(* every read, mint, removal and emitted event a step of its own, do only   *)
(* what a Caretaker may do: claim what they wrote or found named, remove    *)
(* what they claim, and write nothing again they handed over as gone.       *)
ImplementsCaretaker == Promise!CSpec

(* daemon/README.md: --prune-stale "removes ccache files whose UIDs were    *)
(* minted by this process in a prior sweep (or adopted at startup because   *)
(* they were in the roster) but are no longer eligible".  Files of other    *)
(* processes and of half-failed mints (lost) are not claimed.               *)
MintedThenIneligiblePruned ==
    \A u \in UID :
        <>[](cm.roster # Absent /\ u \notin Eligible(cm))
            => <>[](u \notin ours \/ u \in lost)

=============================================================================
