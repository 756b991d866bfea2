# Kerberator in TLA+

Kerberator keeps Kerberos ticket caches (ccaches) on cluster nodes. People declare
`Principal`s (a UID, a Kerberos principal, a keytab Secret) that belong to a `Tenant`. The
operator aggregates the Principals of a Tenant into a roster ConfigMap and a keytab Secret and
runs a DaemonSet; on each node a daemon mints one ccache per roster row, prunes the ones whose
row is gone, and reports both in Events. The operator turns the Events into status and uses
them to decide when a deleted Principal may go.

The modules here model that pipeline from `src/`. `PROJECT.json` maps every definition to its
lines.

## Inventory

| Component | State | Operations | Talks to | What is hard | Correct when |
|---|---|---|---|---|---|
| daemon loop (`daemon/pkg/watcher`, `kerberos`, `internal/events`, `readyz.go`) | `managed`, `lastHash`, ccache files | hash, adopt, sweep (filter, mint, prune), emit, renew | ConfigMap and Secret volumes, KDC, an event broadcaster of its own | volume swapped between reads; reads, kinit, chown, remove fail; restarts without memory; people's own files; Events stored late or never | deletes only what rosters named, keeps what is configured, forgets nothing silently, reports prunes truthfully, becomes ready |
| Principal finalizer (`principal_finalizer.go`, path B) | finalizer, deletion time | add, confirm, time out, release | Tenant, DaemonSet, Events, the webhook that judges its updates | daemons, nodes, DaemonSet or Tenant vanish; Events late, lost or about others; updates refused | confirmed means purged; deletions end |
| Principal status (`principal_finalizer.go` path A, `principal_status.go`, `tenant_status.go`, `setup.go`) | status.nodes, Ready | compute, write on conflict retry | event cache, pods, nodes, Tenant | two controllers in either order, informer lag, staleness without a trigger, two pods listed for one node | never Ready while disabled or without mints; converges |
| event ingestion (`operator/internal/events`) | `Cache.data` | Put, GC, EvictUID | API Events | reordering, replays after a restart, late Events of an old life | newest observation per pod wins |
| Tenant reconciler and aggregation (`tenant_reconciler.go`, `tenant_helpers.go`, `aggregate.go`) | five owned objects, status | list, resolve, aggregate, get and write x5, status | Principals, Secrets, nodes | edits between steps, failing calls, objects of others with the same name, conflicts between get and write | own keytab for each row, valid rows stay, nothing foreign is touched, converges |
| keytab parser (`shared/keytab`) | none | Parse, MaxKvno, Enctypes | version status | truncated files, deleted records, two version fields | exactly the records written |
| key version status (`publishKvnoStatus`) | kvnoFromSecret, enctypesFromSecret | read Secret, write on conflict retry | Secret watch | Secret changes between read and write; failures are swallowed | shows the Secret's version in the end |
| CLI rotate-keytab (`rotate_keytab.go`) | none | update Secret, restart, poll | Secret, DaemonSet, status | the operator copies and overwrites concurrently; clocks | success means new mints; the key arrives |
| admission webhook (`operator/internal/webhook`) | none | five rules, two lookups | Namespace, Tenant | lookups fail, webhook down, context changes | what it judged fits; cleanup is not blocked |
| CLI add-principal (`add_principal.go`, also the form of the UI) | none | look up Tenant, create Secret, create Principal | webhook, Secret, Principal | cut off between the two; objects already there; two people at once | no Principal without its Secret; a fresh addition is exact |
| terminal UI (`tui/app.go`, `data.go`, `forms.go`, `list.go`, `pending.go`) | snapshot, cursor, mode, form, label picker, pending markers | keys, submissions, refreshes, results, label loads | API server | refreshes, actions and loads overlap and answer in any order; rows move under an open form; timeouts | no clashing actions, no marker without a cause, the chosen row is hit, markers end, the screen catches up |
| CLI disable, drain-node, add-tenant, edit, node-labels | none | single calls | Principal, Tenant, pods, nodes | | as actions of Status, Deletion and Console |
| CLI list, describe, events, kvno; views of the UI; API types; charts | | | | | not modelled, see below |

## Modules

`Daemon` is one node, step by step: each read of a mounted file, each mint, each removal and
each Event is an action, so the kubelet (`ProjectConfig`, `ProjectKeytab`), people
(`HumanKinit`, `HumanDestroy`), failing calls and a crash can come in between. `cm` is the
mounted ConfigMap volume (roster, selectors, labels); MD5 is taken as injective, so a hash is
the contents, put together by three reads (`HashRoster`, `HashSelectors`, then `BootHash`,
`TickHash` or `TickSkipped`). Any read of a sweep or of a hash may fail (`Fault`); `misread` and
`sweptMisread` remember it. An emitted prune event goes into the recorder's broadcaster (`queue`);
`PostPruned` stores it in the cluster (`posted`) at any later time, after a restart too, or never.
`ours`, `lost`, `abandoned`, `steady`, `purged`, `known`, `swept` and the marks of reads are history
no action of the system reads.

`Caretaker` is what the daemon promises, without its phases: which files it may write, claim,
remove and report. `Daemon` implements it (`ImplementsCaretaker`): `files`, `mine`, `named`,
`owed` and `done` are `ccache`, `ours`, `known`, `removed` and `purged`, `roster` is the mounted
roster, and a claim is a user in `managed` or minted by the sweep under way, so that the hand-over
at the end of a sweep is invisible. This is what the one-step sweeps of `Deletion` and `Rotation`
rest on: a file is removed only under a claim and not written again after its report. A report is
the hand-over to the recorder; when the Event is stored is not the daemon's to promise.

`Deletion` is the finalizer protocol over several nodes. A daemon's sweep is one action here
(what `Daemon` shows a sweep to do), the Tenant's reconcile too. It has pod replacement, nodes
leaving, deletion of the DaemonSet and of the Tenant (`MaxChurn`) and failed removals
(`MaxFaults`). An Event is emitted (`reports`, with its time) by the sweep and stored (`events`) by
`StoreEvent` at any later time, in any order, or never. The Principals in `refused` are those whose
updates the webhook refuses at present: `WebhookTurns` stands for the changes of realm or range,
and their undoing, that module `Admission` has rule by rule, and every write of the Principal,
`RemoveFinalizer` included, needs the webhook's consent. UIDs are numbers because `purgeConfirmed` compares decimal texts:
`Mentions(v, u)` says that the text `uid=v` contains `uid=u`.

`Status` is one live Principal: the ingester's queue and cache, the reconciler that computes
and then writes, an informer copy (`seen`, `current`) that lags, conflicts, the periodic
resync, operator restarts, Event expiry. A pod that ends stays listed for a while (`leaving`), if
need be beside its successor; the status has one entry per listed pod, and `PodByNode` is whichever
pod of a node the list had last.

`Tenant` is one reconcile of a Tenant, with every API call a step and edits possible between
any two. For each owned object the Get (`GetChild`), what follows from its answer (`CreateChild`,
`UpdateChild`, `KeepChild`) and the conflict that starts it over are separate actions; `copy` is what
the Get returned and `moved` says that the object has another version since. `Foreign` is what others
do to an object of an owned name: create it, take it over, touch it or delete it. The variables
`spec`, `secret` and `enabled` are what the informer cache holds, so an edit is the arrival of a
user's change there. `Duplicated`, `Collides`, `RosterRows` and `KeytabData` are `Aggregate`; the code's
recursion after a file name collision is stated as its fixed point.

`Keytab` is the parser on byte sequences, and next to it a writer of the format. `Exact(rs)`
compares the two for every prefix of a file. It uses recursive functions only.

`Rotation` extends `Keytab` and composes the path of a new key: the command, the part of the
Tenant reconcile that copies the bytes and overwrites the DaemonSet, the controller's rolling
update, the mounts, the sweeps, and both status writers. Reconciles of the Tenant run at any time,
also with nothing to change. `PublishKvnoFails` is a failure that `Reconcile` logs and forgets;
`Resync` is every later trigger of the Principal.

`Admission` is the webhook's rules as operators, the API server's use of it (failure policy
Fail for creations, Ignore for updates), and the writes judged, the operator's finalizer
updates among them. The annotation is two numbers, usable or not; `spec.principal` is the
realm behind its `@`, or malformed.

`Onboard` extends `Admission` with the two creations behind `add-principal` and the UI's form:
`add[a]` says where adder `a` stands and what it was given. Every step of `Admission` may come in
between (`Elsewhere`), as may the deletion of the Secret. A Secret that exists is taken for the one
to create, also one without the entry the Principal refers to (`Keyless`). `Fails` is a refusal, a failed call or
the end of the process.

`Console` is the UI's event loop (`Update`), one action per key that changes state and per
message. `shown` is the snapshot on the screen, `past` the snapshots refreshes under way may still
bring: any number of them, since ticks, keys and results start one without waiting, including
those that listed the tenants before a change and the principals after it. `cmds` are actions
under way: `Perform` is their effect on the API server, `actionResultMsg` the handling of the
result; an action may also take effect and be reported as failed (its timeout). `kubectl edit`
holds the terminal between `BeginEdit` and `EndEdit`. `mode`, `form`, `picker` are the fields of
the same names; under the help overlay `help` is true and `mode` is the code's `prev`. A
principal's signature is where it is Minted; a tenant's `readyNodes` total is the number of those.
`spec.tenantRef` is mutable in the API but constant here (`Parent`). The order of the rows is a rank
(`Order`): the cursor stands on the row that has as many rows above it as the cursor says.

The theorems about a module `M` are in `MProofs` (those about `Admission` in `OnboardProofs`); the
`MC` modules give constants their values.

## Runs

| Run | States (about) | Shows |
|---|---|---|
| `daemon_safety` | 1,320,000 | `ForeignUntouched`, `ConfiguredKept`, `NoSilentOrphan`, `PruneReportIsFinal`, `NoMissedChange`, that the daemon implements `Caretaker`, `BecomesReady`, `IneligiblePruned` |
| `daemon_remove_fails` | violation | one failed `Remove` and the file is never tried again |
| `deletion` | 2,240,000 | `ConfirmedMeansPurged` for UIDs that are no prefixes of each other |
| `deletion_live` | 312,000 | `DeletionCompletes`, `EventuallyUnmanaged` under churn, failures and refusals |
| `deletion_uid_prefix` | violation | prune Events of UID 20 confirm UID 2 |
| `status` | 1,070,000 | `CacheIsNewest`, `NeverReadyWhileDisabled`, `ReadyIsEarned`, `StatusConverges` |
| `status_uid_recycled` | violation | a late Event of a deleted Principal reaches the status of its successor |
| `tenant` | 624,000 | `RowsServedByOwnKeytab`, `ValidKept`, `NeverClobbers`, `RosterConverges` |
| `rotation` | 866,000 | `ParsedAsWritten`, `SuccessIsRecent`, `KeyReachesNodes`, `KvnoConverges` |
| `rotation_restart_undone` | violation | a reconcile takes the restart annotation back and a pod is never restarted |
| `onboard` | 519,000 | `NeverWithoutSecret`, `FreshAddIsExact`, and of the webhook `StoredFits`, `CleanupAdmitted` |
| `console` | 421,000 | `NoCascadeConflict`, `WaitsForSomething`, `ActsOnChosen`, `PickerInRange`, `MarkersEnd`, `CatchesUp` |

Every property of a passing run is shown to depend on the code by a mutant of one mapped
definition (the `...Slip` operators: a dropped guard, a missing reset, an off-by-one).

### Bounds, and why they are enough

Every bound is a constant named `Max...`, or a field of `Limit` in `Console`. They count what the
environment does (people's keys among it), never steps of the program, so each execution runs to
its end.

- `daemon_safety`: one user, since what a sweep does to a user depends on no other (the theorems
  are about any number); five volume contents that tell every branch of the filter apart (match,
  no match, row gone, malformed selectors, no roster), two volume swaps (before and during a
  sweep), one restart, and one fault or act of a person. `NoMissedChange` is claimed for sweeps
  whose reads all succeeded and at most one swap since the hash was begun: with two, away and back,
  or a failed read, the loop misses contents until renewal.
- `deletion`: two Principals and two nodes, so that one node can stand in for the other; one
  pod replacement, one failed removal, one refusal, and every Event stored late or never. UIDs 2 and
  31 share no prefix. `deletion_live` has one Principal and adds a node leaving, or the DaemonSet or
  Tenant deleted, and an enable/disable or failed list. A Principal has one life per run, so the
  comparison of an Event with the deletion time never decides here.
- `status`: one node, two Events, one disturbance (edit, pod end, failed read, restart), and a
  clock that makes an observation stale and lets `GC` drop it while an older Event is still queued
  (a TTL of one tick, two ticks). Two Events suffice for every reordering against the cache, which
  treats pods separately, and one pod end lists two pods of one node. `CacheIsNewest` is about
  observations within their TTL: once `GC` has dropped the newest, an older Event that arrives late
  is entered, and is due for `GC` itself.
- `tenant`: three Principals where a and b share a file name and a and c a UID, two keytab
  contents, one edit, and one fault or act of others, at any step: enough to take an object over
  between Get and write. An object taken over stays in the way for good, which `RosterConverges`
  excuses; one that is deleted or touched does not.
- `rotation`: one node, three files (short version field; a deleted record and versions above
  255; the same cut inside a record), two writes of the Secret or a write and a failure of the
  version status, two ticks. The violation run has two nodes, because the rolling update replaces
  one pod at a time.
- `onboard`: UIDs 3 (the one added, the whole window) and 4 (the first outside); two realms,
  an empty and a malformed one, no Tenant; a Secret absent, whole or without the key; two adders with two keys, two additions, one change of
  the cluster. Realms, keys and adders are symmetric. More windows, and UIDs below 1, are not needed here, since
  `StoredFits` and `CleanupAdmitted` are proved for all of them.
- `console`: a tenant, its principal and a node, so that parent and child, an orphan and a moved
  row all occur; three keys or changes in all, one of them a change of the cluster, with any number
  of refreshes, results and picker moves around them; two label loads with lists of different
  lengths. Three suffice for an action, a second one and a change between them.

`CHECK_DEADLOCK FALSE` where the bounds let the model stop: users, faults and time are used
up. The runs of `Tenant` check deadlock, since reconciles never end.

### Fairness

- the daemon's process: its loop has a ticker, and an ended container is restarted; time
  passes, so renewals come due;
- Tenant reconciles: `RequeueInterval` (15 s) after a success, a back-off after an error; a deleting Principal: requeued within 5 s; live
  Principals: watches and the informer's resync, which `Resync` models and which
  `StatusConverges` and `KvnoConverges` need, because nothing is requeued on that path, failures
  are swallowed and staleness triggers nothing;
- the UI: its 3 s ticker never stops, not every refresh fails, each answers or gives up after 8 s
  (`Settle`), and a marker grows old, so that some snapshot is handled with every marker past its
  120 s (`MarkersEnd`);
- kubelets refresh volumes and take ended pods off the list, the DaemonSet controller starts pods,
  clocks advance.

Nothing is assumed of people, of failing calls, of the command, of the webhook or of the storage of
Events: what needs them to behave says so as a condition (`DeletionCompletes`: the webhook does not
refuse for good; `RosterConverges`: nothing of others stays in the way; `BecomesReady`: the keytabs
are there).

## Proofs

Every safety property of a passing run, invariants and action properties, has a theorem.
A theorem holds for every value of the constants that the module's named assumption allows: all
sets of users, nodes, objects and contents, and every bound. Hardly any of the properties is
inductive alone; each proof module defines the invariant that is (`IInv`), which TLC
confirmed on the module's run before it was proved.

**`DaemonProofs`** (`DaemonAssumption`): `TypeCorrect`, `InvariantCorrect`,
`NoSilentOrphanCorrect`, `PruneReportCorrect`, `ForeignUntouchedCorrect`, `ConfiguredKeptCorrect`,
`NoMissedChangeCorrect`, `CaretakerImplemented`.

    IInv == TypeOK /\ PhaseInv /\ KnownInv /\ SteadyInv /\ PurgedInv /\ NoSilentOrphan

`PhaseInv` says which working sets are empty outside their phase (a process that has not adopted
manages nothing). `KnownInv` carries "some roster named it" from the mounted volume through the
rows read, the managed set and the removals: that is why a removal is never foreign. `SteadyInv`
carries "unrestricted in every volume so far" through the three separate reads up to `inRoster`,
so that `pruneStale` cannot pick such a user whatever mixture it read. `PurgedInv` says
that from the emission of a prune event on, stored or still in the broadcaster, the user is in
nothing the process may still mint, unless a roster names it again: so it does not matter when the
Event is stored. `OnlyPruneRemoves` shows that of all actions
only `Prune` takes a file away, from which the two action properties follow. The refinement takes
every action to a step of `Caretaker` or to none (`CaretakerStep`); it needs from `IInv` that what
was minted is in the filtered roster (a removed user leaves both parts of the claim), that nothing
is claimed before adoption, and that nothing removed or reported is still to be minted.
`NoMissedChange` has an invariant of its own (`ChangeInv`): a swap after the hash makes the two
differ (`HashInv`), one between the three reads of the hash comes before every read of the sweep
(`ReadInv`), so as long as at most one swap happened and no read failed, a hash that equals the
volume was followed by reads of that volume.

**`OnboardProofs`** (`AdmissionAssumption`, `AbsentAssumption`). Of the webhook alone (`Spec` of
`Admission`): `TypeCorrect`, `StoredFitsCorrect`, `CleanupAdmittedCorrect`, with `IInv == TypeOK /\
StoredFits`. Two lemmas about the rules carry it: `AdmittedFits` (what is admitted fits the context
given) and `FittingAdmitted` (what fits is admitted on update, also when Tenant, annotation or both
are missing); they have opposite directions, so together they say the rules are exactly the
user's-side description `Fits`.

Of the additions next to it (`OSpec` of `Onboard`): `NeverWithoutSecretCorrect`,
`FreshAddIsExactCorrect`, and `WebhookHolds`, the webhook's theorems for the composition.
`SecretFirst` says that whoever is about to create the Principal left a Secret behind; `FreshInv`,
that an undisturbed adder is alone and the two objects are exactly as far as it is.

**`StatusProofs`** (`StatusAssumption`): `TypeCorrect`, `CacheIsNewestCorrect`,
`NeverReadyWhileDisabledCorrect`, `ReadyIsEarnedCorrect`. `CacheInv` is the other direction of
`CacheIsNewest`: of every Event taken in, the cache has its pod's observation, no older, unless the
Event's TTL has passed. With one observation per pod (`TypeOK`) the property follows. `WorkInv`
keeps the set of entries behind the number `ready` while other steps come between the computation
and the write; `CopyInv` (a copy with the current version is the current object) makes the
optimistic update safe, which is what `NeverReadyWhileDisabled` rests on.

**`TenantProofs`** (`TenantAssumption`): `TypeCorrect`, `RowsServedByOwnKeytabCorrect`,
`NeverClobbersCorrect`, `ValidKeptCorrect`. Lemmas about `Aggregate`: rows have distinct UIDs, a row
has the bytes read from its own Principal, and a collision of file names with different bytes
leaves out both. `WrittenInv` ties what was written to what was read while the writes go on;
`SteadyInv` says that of a steady Principal's keytab file only its own bytes have been read, so no
collision can take it out. `CopyInv` says that an object whose copy was the Tenant's and has not
moved is still the Tenant's: `NeverClobbers` rests on it, since Get and write are two calls and the
owner reference is looked at only in the copy.

**`KeytabProofs`** (no constants): `ParserExact == \A rs \in Seq(Writable) : Exact(rs)`. A `Writable`
record has a one-byte realm, one name component of any bytes, a two-byte key, a version and a type
of sixteen bits, the 32-bit version wherever eight bits do not hold the version, and a length that
fits the two (live) or one (deleted) low bytes `Record` gives it. The argument:

1. `parseEntry` on `Body(r)`, wherever it stands in a file, reads `r` (each field's offset and
   value);
2. the recursive functions of the model exist and have the values their equations say. The
   library's induction takes an operator the provers cannot instantiate; `Least` gets the least
   member of a set of numbers from `WFMin`, and every induction here is "no least counterexample";
3. the bytes of the first `n` records are a prefix of the file and grow with `n`, so a cut is
   behind exactly one record or inside one;
4. counting down from the cut, `parseRecords` at the end of record `n` returns what the records
   behind it say, or the error of the record the cut falls into; `n = 0` is the theorem.

`MaxKvnoType` adds that the largest version of an accepted file has sixteen bits.

**`RotationProofs`** (`RotationAssumption`, which includes that the files were written from
`Writable` records): `SuccessIsRecentCorrect`, `TypeCorrect` and `ParsedAsWrittenCorrect`.
`PastInv` (nothing is observed in the future) and `WaitInv` (while the command waits, every success
later than the restart, in an Event or in the status made from Events, is a mint since then) are
what polling rests on. The other two take what the parser finds from `KeytabProofs`.

**`DeletionProofs`** (`DeletionAssumption`): `TypeCorrect` and `ConfirmedMeansPurgedCorrect`. The
second has hypotheses, `Calm`: no UID's digits begin another's, every user is created once, nobody
is disabled or missed by a failed list, and nodes, DaemonSet and Tenant stay. Dropping any one of
them has a counterexample (the first is the run `deletion_uid_prefix`); daemons that end and start
again, failed removals, Events stored late or never and refusals of the webhook are not restricted.
`purgeConfirmed` counts pods whose Events are stored, which are some of the reports emitted:
`ReportInv` says that no two reports about a user come from one node, since whoever was reported is
gone from the node for good, so that as many reports as nodes are reports of all nodes
(`PodsAreNodes`).

**`ConsoleProofs`** (`ConsoleAssumption`): `TypeCorrect`, `NoCascadeConflictCorrect`,
`WaitsForSomethingCorrect`, `ActsOnChosenCorrect`, `PickerInRangeCorrect`.

    IInv == WorldInv /\ ScreenInv /\ PickerInv /\ CommandInv /\ MarkInv /\ WaitInv

`MarkInv` adds to `NoCascadeConflict` that only objects of the snapshot shown are marked: the check
before an action looks only at these. `WaitInv` is stronger than `WaitsForSomething`: the action
awaited has not been carried out or is to fail, so the result that takes it off the list also
accepts or removes the marker. `CommandInv` says every action under way names the row
chosen for it, `ScreenInv` the same of an open form. `PickerInv` says that a form opened alone has
no labels until its only load answers, and then an index of 0.

Only model-checked: liveness (`BecomesReady`, `IneligiblePruned`, `DeletionCompletes`,
`EventuallyUnmanaged`, `StatusConverges`, `RosterConverges`, `KeyReachesNodes`, `KvnoConverges`,
`MarkersEnd`, `CatchesUp`). Fairness and ENABLED are outside the prover's reach.

## Disagreements and observations

With a run: the four violations above; `PROJECT.json` quotes the text each contradicts.

Met on the way, without a run:

- the update that removes a finalizer is judged like any other, against today's Tenant and
  annotation (`principal_finalizer.go:530`, `principal_webhook.go:90-138`): after a change of the
  realm or the range it is refused for as long as they differ, and the Principal stays in
  Terminating past its timeout, although `operator/README.md:84-88` says "On timeout the finalizer
  is removed anyway". `DeletionCompletes` is therefore conditional, and `CleanupAdmitted` is
  claimed for a context that stayed or vanished;
- status has one entry per listed pod (`tenant_status.go:79-92`): while an ended pod is listed
  beside its successor, their node has two, both with the observation of the pod listed last, and
  one mint counts as two ready nodes; the comment, `principal_finalizer.go:369-370`, speaks of
  nodes. `ReadyIsEarned` is about entries;
- `purgeConfirmed` returns true when the DaemonSet is not found, so the finalizer goes at once
  (`principal_finalizer.go:441`); its comment, 348-351, says it waits for the timeout;
- bad JSON in `node-labels.json` keeps restricted users off the node (`watcher.go:398-402`); the
  comment at 376-378 says it restricts nobody;
- the audit Events of a disable or enable are emitted inside the closure that is retried on
  conflict, so one flip may be reported more than once
  (`principal_finalizer.go:646`; the comment at 706 says exactly one);
- a disabled Principal has no ccache left to prune, so its deletion always waits for the
  timeout; a re-created DaemonSet reports zero desired nodes and confirms at once;
- `rotate-keytab` may succeed although a pod minted from the old copy: the restart does not
  wait for the aggregated Secret. `SuccessIsRecent` is therefore about new mints, and
  `KeyReachesNodes` says the new key arrives by a later renewal;
- the webhook does not look for duplicate UIDs (`README.md:128` says it does); `Aggregate` does;
- Tenant conditions are rebuilt from nothing on every reconcile, so their
  `LastTransitionTime` always moves (`tenant_helpers.go:69` says only on a change);
- a cordon does not keep DaemonSet pods away, so `drain-node` ends in a new daemon pod;
- `Cache.EvictPod` is called by no program code;
- `add-principal` with a corrected keytab for a Secret that exists keeps the old bytes and prints
  `secret/... created` (`add_principal.go:178`, `228`); two adders at once may pair one's key with
  the other's Principal, one that meets a terminating Principal reports it created, and a Secret
  without the entry the Principal refers to is taken for the one to create.
  `FreshAddIsExact` is therefore claimed for fresh ground and nobody else at work;
- the label picker's index is not clamped when labels arrive. If an earlier form's load answers
  late and brings fewer, enter on the picker ends the UI (`forms.go:646`, `PickerPanics`);
  `PickerInRange` is claimed for forms opened while no load was under way;
- any result sets the mode to the list, also that of an action in the background, so keys typed
  into an open form become list commands (`app.go:178`);
- a failed result takes away the marker its row carries now, which may be a later action's
  (`app.go:183`);
- a marker says "converged" on the first snapshot that differs, be it older than the write or
  changed by something else; one on a childless tenant always runs into the timeout, since the
  roster hash it watches stays; none times out while refreshes fail (`pending.go:264`);
- rotations carry no marker, so a second submission during the two minutes of the first is
  accepted (`forms.go:402`);
- the help says the principal form is "against selected Tenant" (`forms.go:972`); it starts on the
  first one;
- a keytab record whose length field is the smallest int32 has no positive magnitude;
  `parseRecords` has this as an outcome of its own.

## Not modelled

- views, colours and layout of the terminal UI, the text typed into its forms beyond whether it is
  accepted; listing, describing, `kvno` and `events` commands: reads and formatting;
- flags, dry runs, warnings and output of `add-tenant`, `edit` and `node-labels`;
- rendering of the DaemonSet beyond its template revision and update strategy; flags and
  wiring of `main`; CRD types; Helm charts;
- in `Rotation`, a pod that is listed beside its successor (`Status` has it); in `Console`, a
  change of `spec.tenantRef`;
- clock differences between machines; several operator replicas (leader election is the
  library's).

## Plan

1. Node label changes through the Tenant's snapshot to the daemon's filter (composition of `Tenant`
   and `Daemon`).
2. A writer with several name components and longer realms and keys, for `Exact` and its proof.
