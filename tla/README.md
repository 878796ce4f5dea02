# Projector: formal models

Projector keeps a private tree of text files next to many source checkouts and synchronises it through
a server. This directory holds TLA+ models of its core, the TLC configurations that check them, and
theorems about them checked by TLAPS.

The files: `*.tla` are modules, each `*.cfg` is one TLC run, and `PROJECT.json` lists, for the whole
project, the components of the system, the runs and what each shows, the source lines every definition
models, a plausible bug for every checked property that the property catches, the places in the code
that are hard to test, and the main theorems.

To check a run: `tlc -config sync_edits.cfg MCCheckoutSync.tla`; to check the proofs:
`tlapm WorkspaceStoreProofs.tla`, and so on for each `*Proofs` module.

| module | what it is |
| --- | --- |
| `FileStore` | the file store: the same operations as sequences of file accesses, interleaved, cut off by crashes |
| `SharedWorkspace` | what the server promises its clients: documents at unique paths, stamped by a cursor |
| `WorkspaceStore` | the SQLite store: manifest, bodies, append-only history, restore, rewind, compaction |
| `PostgresStore` | the Postgres store: the same with a log of body updates, and purging and redacting |
| `BodyText` | texts and how concurrent edits of one converge |
| `CheckoutSync` | the checkouts, their sync runs against a `SharedWorkspace`, users and faults |
| `WatchSync` | a checkout kept in sync by a watching run, on top of `CheckoutSync`: event batches and recovery |
| `RuntimeLease` | the lease file that keeps a second watch away |
| `MachineDaemon` | the machine-wide daemon, its files, and the commands that steer it |
| `MC*` | the finite instances TLC checks, one for each of these |
| `*Proofs` | theorems for all values of the constants; `SyncProofs` is about both modes of the checkouts, `FileHistoryProofs` builds on `FileStoreProofs` |
| `Counting` | facts on natural numbers and finite sets the proofs of the stores share |

`WorkspaceStore` and `PostgresStore` are shown to implement `SharedWorkspace`, and `CheckoutSync` and
`WatchSync` are built on `SharedWorkspace`: so what holds of the checkouts holds with either store behind them.

## 1. The system

### Server

**Workspace store (SQLite), `src/server/src/storage/sqlite`.** State: the workspace row (manifest
entries, snapshot bodies, cursor, bound mounts), canonical body rows, and three append-only tables, of
provenance events, path revisions and body revisions, with history compaction policies. Operations:
bootstrap, create, update, delete and move a document, restore a document's revision, reconstruct and
rewind the workspace at a cursor, set and clear a policy, list changes since a cursor, purge and redact
history. Every operation holds one mutex and one transaction. Hard: the same fact is kept in several
places (snapshot body, canonical row, newest revision; entry and newest path revision; cursor and event
numbers), a rewind changes many documents at once without the checks of the single operations, and any
sequence of legal calls must keep the history a faithful time machine. Correct when: live paths are
unique, the three copies of a body agree, reconstruction shows what was there, a rewind restores it, the
events are numbered without gaps.

**Body convergence, `storage/body_state.rs`, `body_persistence.rs`.** No state of its own: given base,
current and incoming text it replaces, merges with a CRDT (yrs) or falls back to a deterministic union of
lines. Hard: the stored CRDT is flattened between edits, so a merge can lose text; the retained revision
must replay to the merged text. Correct when both texts survive a concurrent edit and order of arrival
does not matter in the union.

**Compaction, `storage/history_compaction.rs`.** As part of every append, revisions outside the window
of the nearest path policy are thinned out and the rest flattened. Correct when the newest revisions stay,
each version keeps a revision at or before it, and the newest still reads as the current text.

**History surgery, `storage/history_surgery.rs`.** Purge and redact retained revisions; previews that may
be stale when the surgery comes.

**File store, `storage/file_store.rs`, `bodies.rs`, `manifest_file.rs`, `history_file.rs` and others.** State: a
directory per workspace with seven files (metadata, snapshot, canonical bodies, events, path history, body
revisions, policies). The same operations, each a sequence of whole-file reads and rewrites; there is no lock,
no transaction and no journal, and the server runs requests on several threads. Hard: requests interleave at
every file access; a crash between two writes leaves the files telling different stories; `fs::write`
truncates first, so a crash can leave a file that does not parse; a failing purge writes its old rows back.
Correct when a change's number is its own, what finished requests did stays in the history and comes back with
a rewind, the canonical row of a document is the text shown, and a client that asks for changes misses none.

**Postgres store, `storage/*_postgres.rs`.** State: rows for mounts, documents, events and path revisions, and
of each document a snapshot row (the text it is served with and the state merges start from), a log of the
updates since, and the retained revisions. The same operations, each in a transaction under one mutex, and
purging and redacting besides. Hard: the text is kept three times and written by different statements; event
numbers come from one sequence for all workspaces, with gaps; surgery edits rows that replays read. Correct when
the served text is the text merged onto, and what holds of the SQLite store holds here. **HTTP handlers, `src/server/src/http`**: decoding and status codes.

### Edge runtime and CLI

**Sync runner and full sync, `src/runtime/src/daemon*`.** State: nothing between runs but two checkpoints.
A run asks the server for a bootstrap snapshot, then pushes in four phases what it finds on disk: moves
(a missing document and the only new file with its text), creations, deletions (saved paths that are
missing) and edits (files that differ, sent with the saved body as base); it merges the changes since its
cursor after each phase that pushed, and at last writes the snapshot over the checkout. Hard: other
checkouts write between any two of its requests, the user edits the files meanwhile, requests are refused
on a stale cursor, the run may fail anywhere and be started again. Correct when: an untouched checkout
causes no change on the server, no text is lost, the snapshot is never outdated, checkouts end up alike.

**Materializer and checkpoints, `materializer.rs`, `full_sync/materialized_*.rs`.** State: the files, the
saved paths, the saved bodies. Hard: three things written one after another, `fs::write` that truncates
first, mount directories that are away for a while, one bodies file shared by all entries of a repository.

**Watch sync, `reconcile/watch_sync`, `daemon.rs`.** State: the snapshot and two cursors the loop carries
from cycle to cycle, retry counters, `status.txt`. After a full run the loop polls the file watcher, pushes what
the reported files ask for, merges what others wrote and writes the result. Hard: events are a batch old when they
are handled, the own writes must not come back as events, conflicts and lost connections restart the run a bounded
number of times. Correct when the snapshot stays current, no reported edit is overwritten unrecorded, the checkout
follows the server, and the status tells how the run fares. No command starts this mode (the daemon and the
command line run once per target); it is an option of the runtime library.

**Lease, `lease.rs`.** State: the file `runtime.lock`. Hard: nothing locks it; the lease of a dead process is
removed by name. Correct when one process holds it, who finds it sees who does, and stale ones go. The code keeps the
first only in part (section 7).

**Machine daemon, `machine_daemon/`, with `global_state/`, `sync_config_store.rs`, `sync_targets.rs`,
`daemon_cli.rs`, `sync_entry_cli.rs`.** State: a runtime per repository (targets, watcher, pending work), the
daemon's state file, the registry of repositories, each repository's sync entries. One process goes round: it
refreshes the runtimes, finds a moved sync root again by the texts last written to it, syncs targets whose files
have changed and settled, and sweeps all targets in any case. Commands start and stop it, and add, get and remove
entries. Hard: daemon and commands read, truncate and write back the same files without a lock; a runtime is
replaced with work pending; start and stop race a process that comes up or dies. Correct when there is one daemon
at most and the state file names it, and whatever changed on either side comes to be synced.

**Provenance log**, **transport**, the rest of the **CLI**: no protocol state.

The components interact by requests (runtime to server), through files (daemon, CLI and user share the
checkout, the checkpoints, the lease and the registries), and by calls within the server.

## 2. The store: `WorkspaceStore`, `BodyText`, `SharedWorkspace`

Variables are the tables: `path` and `live` are the manifest entries, `bodies` the snapshot's bodies,
`canonical` the canonical rows, `events`, `pathRevs` and `bodyRevs` the append-only tables, `policies` the
policy table, `mounts` the bound mounts. Each operation of the code is one action, since it holds the
mutex and a transaction from start to end; what it calls (writing the body, the event, the revision, the
compaction that follows) is part of the action. A refused request changes nothing and is not a step: the
conditions under which the code refuses are guards. Two history variables serve the properties:
`past` holds what the workspace showed at the end of every operation, and `blurred` the documents with an
edit merged onto a state that the history had flattened.

A body revision keeps two readings, `own` (the text of the revision itself, which a document restore
uses) and `replayed` (the state of the revisions replayed up to it, which reconstruction uses).
How edits converge is a parameter of the store. `BodyText` gives it: the union of lines is translated from
`body_state.rs`; yrs is external and modelled from how the code uses it, as a flat text of one synthetic
client from which edits delete a prefix and behind which they insert.

A rewind that revives a document whose body is empty writes and retains no body (`plan/diff.rs:76`), so that the
history goes on showing the text from before. `ReviveEmpty` says whether such rewinds happen. It is FALSE in
the runs and in the theorems about what the history reads back; with TRUE, TLC finds the history wrong (see
"Disagreements"). The texts of the runs include the empty one, which every other operation may write.

`SharedWorkspace` says what clients rely on. The refinement maps `text` to the snapshot bodies and `stamp`
to the number of the document's latest event, from which the code answers `changes since`.

## 3. The checkouts: `CheckoutSync`

Variables: the server (`SharedWorkspace`), and for each checkout the files, whether the mount directory
is in place, the two checkpoints, and the run: its phase, what it still has to push, its snapshot, the
cursor that snapshot is at and the cursor manifest requests are based on.

| action | code |
| --- | --- |
| `Start` | bootstrap and the search for moves |
| `PushMove`, `PushCreate`, `PushDelete`, `PushUpdate` | one accepted request of a phase |
| `Skip`, `Refused` | the item has changed on disk since it was listed; the server refuses, the run ends |
| `Advance` | end of a phase: merge the changes since the cursor if anything was pushed, list the next phase |
| `Finish` | the last refresh, `apply_snapshot` and both checkpoints |
| `Crash`, `CrashApplying` | the run fails between requests; while files or checkpoints are being written |
| `Sibling` | another entry of the repository saves its bodies over this one's |
| `Write`, `Remove`, `Rename`, `MoveRoot` | the user |

Why steps are this large: a request is one step of the server, and what a run does between two requests
touches its own disk only, where only its user acts as well, whose actions interleave with every step.
The lists of a phase are made at its start and each item is looked at again when its turn comes, as in the
code, where the order within a phase follows the manifest or the directory walk (left open in the model).
Retries need no action of their own: a failed run is one that ended, followed by a new one. A request
whose answer is lost is an accepted request followed by `Crash`.

Texts in this module are sequences of lines. `ConvergedLines` is what `BodyText` does on such texts when
all lines are equally long and the stored CRDT is flat; the assumption `LinesConverge`, which TLC
evaluates, compares it with the definition by characters on all triples of small texts.

## 4. The file store: `FileStore`

A request is in a `slot` with the stages it still has to do; each stage is one file access, or a read and the
rewriting of the copy (`Fetch`, then the writing action), in the order of the request's function
(`StagesOf`). A rewind finds its further stages only once it has compared the snapshots (`PlanRewind`).
`disk` holds the files, as values of the tables of `WorkspaceStore`, or `Torn` for a file whose writing was
cut short, which no request can parse.

| action | code |
| --- | --- |
| `Ask`, `Answer` | a request arrives; it has done its last stage |
| `Check`, `Refuse` | preconditions: cursor, mount, live document, free path, the purge's preview |
| `PlanCreate` ... `PlanRewind`, `Merge`, `LoadRevision` | the new snapshot and texts, from what was read |
| `SaveCanonical`, `KeepSnapshot`, `TakeNumber`, `SaveEvent`, `SaveRevision`, `SavePath`, `Compact`, `Erase`, `SavePolicies`, `Bind` | one file each |
| `ReadSince`, `ReadDelta`, `ReadChanged` | the three reads that answer `changes since` |
| `Fail`, `RollBack` | a file cannot be read, so the request ends; a purge that cannot append its event writes the rows back |
| `FailToWrite`, `Crash` | the disk refuses a write; the server dies, leaving files it was writing whole, new or cut |

Two requests that write one file at once may leave it torn (`Put`), and one read while it is written does
not parse (`Fail`). Requests that would be refused by their first check are not enumerated (`Asked`), but a
request asked at the right cursor can find it moved.

History variables: `past` holds the snapshot at the end of each request, `lost` the stages a broken-off
request left undone (and what a rewind leaves behind in the canonical rows, and the empty texts it brings back, of
which the history gets no row: `Unretained`), until a later request writes
that row. The properties make no claim about what is in `lost`, and all claims about the rest: that is the
guarantee the code can give without a transaction. A text also counts as remembered when it was purged and an
event says so, or the purging itself broke off.

With more than one writer most of this fails, for the reason given below under "Disagreements"; so the runs have
one writer, in `file_reader` beside a reader.

## 5. The Postgres store: `PostgresStore`

Variables are the tables; `served` and `held` are the two columns of the snapshot row, `log` the rows of
`document_body_updates`, `number` the event sequence. An operation is one action (mutex and transaction); one that
fails leaves a number drawn (`DrawNumber`, which also stands for the other workspaces). `UpdateDocument` either
replaces the text, writing a checkpoint and emptying the log, or merges, appending to the log. `RestoreWorkspace`
writes the served texts and, only where they change, the held state. `PurgeHistory` and `RedactHistory` edit the
rows, `past` notes in `lost` that a view has lost the text on purpose. The refinement to `SharedWorkspace` counts
events instead of reading their numbers.

Two constants keep known failures out: `PurgeLogged = FALSE` (no purge while updates are logged) and
`ReviveEmpty = FALSE` (no rewind that revives a document with an empty text). With either one TRUE, TLC finds
`ServedIsMerged` violated; see "Disagreements".

## 6. Watching: `WatchSync`

It EXTENDS `CheckoutSync`: the full run the watch starts with is that module's, action by action (`Booting`), with
the loop around it.

| action | code |
| --- | --- |
| `Booting`, `BootFails`, `Booted`, `Arm` | the full run; its failure; the first snapshot; the watcher's baseline |
| `Poll` | one poll: the batch, with the renames recognised in it |
| `MoveOne`, `CreateOne`, `UpdateOne`, `DeleteOne`, `NothingToDo` | one request of the batch, each file looked at again |
| `BatchFails`, `TransportFails`, `GiveUp`, `Again` | conflicts and lost connections: restart, or record the issue and end |
| `EndCycle` | changes since the cursor, the snapshot and the checkpoints written; the own writes are events of the next cycle |
| `UserStep`, `Others`, `Relaunch` | the user; other checkouts; the watch is started again |

`unseen` is a history variable: the paths at which something differs that no poll will report, because it was
changed between the full run's writes and the baseline, arrived while the mount was away, or its
event was dropped by a poll that found the mount away. `touched` holds what
the next poll reports.

## 7. The lease: `RuntimeLease`

Every access to the file is a step: creating, writing, testing for, reading and removing it, and so is asking
whether a process runs. Steps of all processes interleave in any way; a process ends by itself or is killed anywhere
(`Exit`), between creating and writing the file too, and there the disk may refuse it (`WriteFails`).

| action | code |
| --- | --- |
| `Start`, `Create`, `CreateRefused`, `Write`, `WriteFails` | `acquire`, `try_create` |
| `Exists`, `Read` | `load_from_disk`, also as `status` and `doctor` call it |
| `Check`, `Remove` | `load_active`: the owner runs, or the file is removed by its name |
| `Drop`, `Release` | the guard is dropped: the file is compared, then removed by its name |

That two processes never hold the lease (`MutualExclusion`) is what `acquire` is for and not what it achieves: between
reading a lease and removing it nothing keeps the file the same. The shortest history needs no kill: a
process reads the lease of a watch, the watch gives it back and ends, a third takes the lease, and the first finds
that the owner it has read is gone, removes the third one's file, and takes the lease as well. TLC finds it in
the instance of `lease` in seconds. `status` and `doctor` remove files likewise.

The history variable `overtaken` records whose file was removed in the place of an older one; no step depends
on it. With it the module says what is kept, without any restriction on the interleaving: a process that has created
the file keeps it unless it is in `overtaken` (`LivingLeaseStays`), which takes a process that has ended, so that one
at a time holds the lease while all run (`ExcludesWhileAllRun`); and the file never names a process that runs and does
not hold the lease (`NoPhantomHolder`), who would lock the checkout as long as it runs. An empty file that its creator
left stays for good, and every `acquire` loops on it: `AcquireReturns` has that one exception (`Abandoned`).

## 8. The daemon: `MachineDaemon`

The sync of one target is one step here (`RunTarget`): what is inside is `CheckoutSync`. What matters at this level is
which targets have local changes nobody pushed (`edited`), changes of others nobody wrote (`behind`), and where the
directories are (`place`) and are said to be (`config`).

| action | code |
| --- | --- |
| `Begin`, `Round`, `Sleep`, `Crash` | the process, its timers, its end |
| `Refresh`, `LoadTargets`, `LoadFails`, `RefreshFails`, `Refreshed` | `refresh_repo_runtimes`; a registry that does not parse ends the daemon |
| `Relocate`, `OpenConfig`, `SaveConfig` | a moved root is found and the entries are saved |
| `Poll`, `RunTarget`, `RunHeld`, `RunFails` | events, debounce, backstop and sweep; the runs that are due |
| `Command`, `Load` ... `Enroll`, `Fetch`, `Bootstrap`, `BootstrapFails` | add, get, remove, and the registration in start and stop |
| `Look`, `LookFinds`, `Spawn`, `Await`, `Stopped` | start and stop of the process |
| `Interrupt` | Ctrl-C, leaving the file being written cut short |
| `Edit`, `MoveRoot`, `RemoteChange` | the user; other checkouts |

Timers are counted in rounds: a longer round only makes a timer due sooner. Commands come from one terminal, one
after another, and a process that start spawned has begun or ended when start stops waiting for it (about a second);
two terminals, a slower process or a start that is interrupted while it waits can make two daemons. Writing a file
has two steps, between which it is `torn`: a reader then fails to parse it.

What the model does as the code does, and may surprise: a runtime that is replaced loses its pending work, which the
next sweep picks up; a failed run drops its work likewise; a start reports success for a daemon that has died already,
since its process is not waited for; `add` and `get` write the server's files of every entry, over edits of the others
that were not pushed and at the old place of a directory that was moved; a failed `add` writes back the entries it
read before its bootstrap, and so undoes a relocation the daemon saved meanwhile; `stop --all` kills at any point and
may leave the file being written cut short.

## 9. The runs

All runs bound the cursor (`MaxCursor`) and, for checkouts, the user actions and faults (`MaxActs`).

| run | instance | shows |
| --- | --- | --- |
| `store_history` | 2 documents, 3 paths over 2 mounts, the empty text and two others (one extends the other) as edits, one base, 4 operations | `TypeOK`, live paths stay unique, copies of a body agree, reconstruction shows every earlier view with its texts, events are numbered without gap, a rewind to the end of an operation puts documents back (their texts follow from the reconstruction: `RewindTextsExact`), the store implements `SharedWorkspace` |
| `store_compaction` | 1 document, the same texts, policies of 1 and 2 revisions, 5 operations | the window of recent revisions survives, every version has text, the newest revision is current |
| `file_crash` | 1 request at a time of every kind that writes documents or history, 2 documents, 2 paths, 2 texts, requests up to cursor 3, one crash or refused write anywhere | numbers are never taken twice and every history row has its event; apart from what the broken-off request left undone, history, rewinds and copies of a body are exact |
| `file_reader` | a writer, which also sets policies, and a client asking for changes, 2 documents, 1 path, no faults | the client ends up with the server's view, but for changes numbered above its cursor or still being written |
| `postgres` | 2 documents, 2 paths, texts with and without a secret, 2 policies, 4 event numbers | rows are well-formed, the served text is the text merged onto, history shows every earlier view but what surgery took, redaction leaves the secret in no version, the store implements `SharedWorkspace` |
| `lease` | 3 processes that acquire, 1 that looks, in every interleaving, killed or refused by the disk anywhere | a living owner keeps the file but for removals meant for an older one; one holder while all run; no name without a holder; attempts return, but for an empty file left behind; stale leases go |
| `watch` | 1 watching checkout, 2 paths, 4 documents, 3 disturbances by user, other checkouts, network or relaunch | the loop's snapshot is current, reported edits are kept, the status is right, the checkout follows the server |
| `daemon` | 1 repository, 2 targets, 2 processes, 3 acts of users, commands or faults | one daemon at most, named by the state file; every change comes to be synced or the reason why not is one nobody could mend |
| `sync_edits` | 2 checkouts, 2 paths, 2 user actions at any time | an untouched checkout never deletes a document; all checkouts converge |
| `sync_faults` | 2 checkouts, 1 path, 3 user actions or faults of any kind | snapshots are current; an undisturbed run makes the checkout mirror the server and drops no unrecorded line |

Why these bounds are enough for the cases of interest: two documents and two paths allow swaps, and hence
every conflict of a path between a moved, a deleted and a restored document; four operations contain a
creation, a change, a rewind across it and a change after the rewind (longer histories are covered by the proofs of section 10); a
policy of one revision compacts at the second edit. In
`file_crash` three numbers are a creation, a change and a rewind or purge, the fault can come in any of
them, and a request follows the broken-off one in most of those histories; the paths are symmetric there.
Two checkouts interfere in every way the protocol knows, since a request depends on the others only through the cursor and the stamps. In the `sync_` runs the
cursor never reaches its bound: a user action can lead to few requests, so no behaviour is cut off, which
matters for `Converges`. The symmetry of the two checkouts is used in `sync_faults` only, which checks no
liveness. `store_` and `file_` runs stop at `MaxCursor`, hence `CHECK_DEADLOCK FALSE` there; the `sync_` runs never
stop, because a checkout can always start a run.
In `postgres` the numbers suffice for a creation, a merge, a purge, redaction or rewind, and a change after it. In
`watch` and `daemon` three acts bring a race of two parties and a fault, or a fault and what mends it (a kill, a
start, an edit); the timers of the daemon are as short as they can be with the order they have in the code (debounce,
refresh, backstop, sweep), and two targets tell the one with events from the one that is only swept.
`lease`, `daemon` and `watch` check liveness without symmetry; `lease` and `daemon` have `CHECK_DEADLOCK FALSE`,
because processes end.

**Fairness.** `Converges` assumes weak fairness of each checkout's `Sync`. The machine daemon
starts a run of every entry again and again, whether or not the one before it failed
(`machine_daemon/loop_runner.rs:78`, `scheduling.rs:64`), and a run makes its requests one after another.
No fairness is assumed of users and faults, which are bounded. Of two checkouts racing for the cursor the
loser's run ends and starts anew; `Converges` shows that this comes to an end. `WatchConverges` assumes weak fairness
of the loop, which waits for nothing but its poll interval; `AcquireReturns` and `StaleLeaseGoes` of each process's
steps; `ChangesGetThrough` of the daemon's and the command's steps, as the processes are scheduled: nobody has to
start a daemon, and without one the property asks nothing. A failing run (`RunFails`) is bounded and not fair.

### Disagreements between the code and what it says

Two runs end in a counterexample, which is the shortest history that shows the matter.

| run | what happens |
| --- | --- |
| `sync_lost_edit` | an edit saved after the update phase read the file is overwritten by the snapshot |
| `daemon_echo` | every run writes all files of its target, which the watcher reports as changed, so the daemon syncs again, for ever |

`ARCHITECTURE.md:261` and `:299` promise the opposite of the second; when writes of the daemon's own runs are taken
out of what the watcher sees (`RunTarget`), the property holds.

The other properties the code refutes are stated in the modules and kept out of the runs; each fails within seconds
in the instance of a run changed as said:

| property | instance | what happens |
| --- | --- | --- |
| `WorkspaceStore!LivePathsUnique` | `store_history` with `MCOnePath`, `MCOneText`, `Bases <- MCNone`, `AnyCursor = TRUE`, `MaxCursor = 6` | a rewind numbers its changes one by one; a later rewind to a cursor between them puts two live documents at one path |
| `WorkspaceStore!BodiesRemembered` | `store_history` with `ReviveEmpty = TRUE` | a rewind that revives a document emptied before retains no empty body, so later views reconstruct the text from before |
| `WorkspaceStore!NewestRevisionIsCurrent` | `store_compaction` with `ReviveEmpty = TRUE` | the same: the newest revision reads as a text the document no longer has |
| `WorkspaceStore!WindowFollowsPath` | `store_compaction` with `MCTwoPaths` | a rewind compacts before it saves the workspace row (`apply.rs:73`, `:98`), so by the policy of the path it moves a document from, and drops revisions the policy of its path keeps (`specs/history.rs:93`); when `RewoundRevs` takes the policy of the path rewound to, it holds |
| `FileStore!StaleWritesRefused` | `file_reader` with `Serves <- MCManifest` | two manifest writes at one cursor are both accepted: nothing holds others off between the check and the event |
| `FileStore!EditsApply` | `file_crash` with `MCRewrites`, `Docs = {1}`, `MCOnePath`, `Edits <- MCThreeTexts`, `Bases <- MCTwoTexts`, `MCLarge`, `MaxCursor = 4`, `MaxFaults = 0` | a rewind changes the snapshot's texts and not the canonical rows, so the next edit is merged with the text the rewind took away |
| `FileStore!HistoryRemembers` | `file_crash` with `Docs = {1}`, `MCOnePath`, `MaxCursor = 5`, `MaxFaults = 0`, were `Unretained` no exception | a rewind revives a document whose text was purged with no body row for the empty text, so after the next edits and rewinds later views show another text |
| `PostgresStore!ServedIsMerged` | `postgres` with `PurgeLogged = TRUE`, or `ReviveEmpty = TRUE` | a purge deletes logged updates that are nowhere else, or a rewind serves a text without holding it: the next merge starts from another text than is served |
| `CheckoutSync!PassiveNeverUpdates` | `sync_edits` with `Paths = {x}`, `MCSeed`, `MaxActs = 1` | a run pushes each file that differs from the server's text, even one that equals its saved base: a checkout that is merely behind brings removed lines back |
| `CheckoutSync!EditsRemoveSeenLines` | `sync_edits` with `Paths = {x}`, `Siblings = TRUE` | a second sync entry overwrites the saved bodies of the first; its next run claims the newest text as its base and replaces it |
| `RuntimeLease!MutualExclusion` | `lease` with it as an invariant | a process that has read the lease of a watch that then ended removes by name, `lease.rs:37`, the lease another has taken meanwhile, and takes it as well: `acquire` refuses a second one (`lease.rs:64`) and does not keep it away |
| `RuntimeLease!AcquireReturns` | `lease`, were `<>[]Abandoned` no exception | a process ends between creating and writing the lease, and the empty file is taken for none and never removed |

## 10. The proofs

Each theorem holds for every value of the constants that meets the module's named assumptions and the
hypotheses the theorem states. Each inductive invariant was first checked by TLC on the instances of the runs.

The texts of a theorem come from any set that seeding, editing, converging (and, where they exist, redacting and
cutting short) does not lead out of, and that the absent values are not in (`Closed`). The set of all texts, and that
of all CRDT states, is such a set: the hypothesis only says that these operations return texts. Of what converging
makes of its arguments nothing is assumed, but for `KeepsAdditions` and `MergesHide` below.

**`WorkspaceStoreProofs`: where documents are.** `TypeCorrect` and `HistoryStaysAnchored` hold for all constants. The
others assume that rewinds target ends of operations (`~AnyCursor`), which the first row of the last table shows to be
needed. Neither `LivePathsUnique` nor `PathsRemembered` is inductive: a rewind makes the live paths what the path
history reconstructs, so their uniqueness rests on the history reconstructing an earlier view, in which paths were
unique. The inductive invariant `PathHistoryInv` joins: types, unique live paths, every remembered view is
reconstructed, the history reconstructs the present, path revisions are numbered up to the cursor, remembered views are
at cursors up to it and have unique paths. The lemmas carry the argument: `NewestUnmoved` (revisions past a cursor do
not change what was newest at it), `NewestExtended` (one new revision replaces that of its document and no other),
`HistoryStep` (so a step that appends the revisions of what it changes keeps the invariant), `ChangeSeqRange` and
`ChangeSeqCovers` (a rewind numbers its changes onto an interval, from facts on cardinalities). Results:
`LivePathsStayUnique`, `PathHistoryExact`, `RewindPlacesExact`.

**The same: what documents say, and the promise to clients.** The lemma everything rests on, `StepGrows`,
says that each operation leaves a document's revisions alone or adds one newer than all of them and then perhaps
compacts (`Extended`). From there:

- `VersionsKeepText` (all constants): `RevInv` adds that revisions of a document have numbers of their own and that every
  path revision has a body revision at or before it; compaction keeps the oldest revision, which is why it holds.
- `WindowsKept` (all constants): the newest revisions, counted by `Index`, stay.
- `BodiesStayAgreed` (no restriction on rewinds): `BodyInv` adds that retained and canonical states belong to the closed
  sets; a rewind reads a text only where `RevInv` says one is retained.
- `NewestStaysCurrent` (`~AnyCursor`, `~ReviveEmpty`): `CurrentInv`, preserved because flattening keeps what a state
  reads as. A rewind that leaves a text alone is right only if the path history is, hence `PathHistoryInv`.
- `BodyHistoryExact` and `RewindTextsExact` (besides, `Roomy`: no policy keeps fewer revisions than there are
  events, so that nothing has been thinned out, as in `store_history`): compaction keeps only a window, and a view
  older than it is reconstructed from another revision by design.
- `StoreImplementsShared` (`~AnyCursor`): every operation is one step of `SharedWorkspace` or, for a rewind, its
  `Rewind`, under the mapping by which TLC checks `ImplementsShared`. `Latest` and `StampIn` say what the stamp of a
  document is when events are appended; `ChangeSeqCovers` gives each change of a rewind its own.

**`FileStoreProofs`.** For any number of slots of which one writes and the others answer clients (`OneWriter`), any
documents, paths, policies, and any number of crashes, refused writes and files cut short: `FilesKeepTypes`,
`NumbersStayUnique`, `RowsStayAgreed`. With a second writer two changes may take one number, as TLC
finds in `file_reader` with `Serves <- MCManifest`; so the hypothesis is needed. No file is the whole truth while a
request is at work, so the invariant `FileInv` says what the stage a request has come to relies on (`Due`), and one
lemma per action (`CheckKeeps` ... `PlanRewindKeeps`) that the next stage finds it:

- `Formed`: which stage leads to which (`Leads`), and that planning ends before recording begins. A rewind's list of
  stages is only known once `PlanRewind` has joined one list per changed document; `FlattenStays` and `RecordsJoin`
  show the result is formed, `RankReached` that every place in the list has its document.
- `Planned`, `Kept`: the snapshot to be kept differs from the file in what the request is about and nowhere else, so
  the copy read stages ago is not stale.
- `Worked`: the text worked out is the one in the canonical row and in the snapshot to be kept. Between these two
  writings they differ on disk (`Between`), and a request that breaks off there is what `lost` records.
- `Numbered`: the number taken is still the next one when its event is written, and there is such an event when the
  rows of the history are written. Events rise in number (`Rising`), which gives uniqueness, and every row has an event
  (`Covered`); a broken-off request may leave an event without
  rows, never rows without an event.

A step that breaks off keeps all this because a file changes to `Torn` or not at all (`BreakOffKeeps`), and a purge that
takes its writing back puts rows of known events back (`RollBackKeeps`).

**`FileHistoryProofs`.** For one writer, any number of readers, and every crash, refused write and torn file. A snapshot
and the rows that tell of it are written one after another, so none of the properties is inductive. The argument has layers:

- `PlanInv`: a request has still among its stages the rows that tell what its snapshot changes (`Own`, `Changes`,
  `Foreseen`), and what it has kept is what is on disk (`Texted`).
- `Open` names the rows the history therefore lacks: those in `lost` and those a request that has kept its snapshot
  still has to write. Each step opens, closes or leaves them.
- `HistoryInv`: leaving open rows out, the history tells the snapshot on disk (`Present`) and every one of the past
  (`Remembered`), and a rewind that is planned keeps what the history tells of its target (`Rewinding`).

`HistoryIsRemembered` and `RewindsPutBack` hold of behaviours in which compaction drops no row (`ThinsNothing`): dropping
a row drops the text it held, by design. `SampledHistoryKept` replaces that by a condition on the policies: each
samples every revision (`SamplesEach`), as the policies of `file_crash` do (TLC finds both conditions, and the invariants, true in all its states). `AnswersStayComplete` needs
neither; `ChangesInv` says of each past snapshot, and of what a reader holds after each of its three reads, that a
document reads there as it does on disk, or an event above that cursor tells of it, or its event is open
(`Unmissed`). It assumes that the
value for "nothing read yet" is not a snapshot (`~Snapshot(Texts, Nothing)`), a matter of the encoding.

**`PostgresStoreProofs`.** `TablesKeepTypes`, `ServedStaysMerged` (`~PurgeLogged`, `~ReviveEmpty`), `HistoryStaysExact`
(`~ReviveEmpty`), `PostgresImplementsShared`, through rewinds, compaction, purges and redactions. The two excluded cases
are the two in which TLC finds `ServedIsMerged` wrong, so the theorem says that there are no others.
The rows of a document are a sequence replayed from its first: `LoadUnfolds` and `ReplayUnfolds` unfold the recursive
functions, `RowsToPrefix` says that the rows up to a cursor are a prefix, `Thins` what compaction does to a sequence
(it picks rows, first and last among them, that read as before). `HistoryInv` joins the typed tables (`TablesOK`,
`PastOK`), `HistoryRemembers`, that the history shows the present (`HistoryIsCurrent`, `TextsCurrent`) and that no row
is past the cursor (`UpToCursor`). The refinement counts events, for numbers have gaps: `RankRises` says that
counting keeps their order, so that the stamps, which are counts, rise with the events' numbers.
`RedactionsHide` follows the replay of the redacted rows (`ReplayHides`): from its first row on it does not read the
secret, if merging texts without the secret does not put it together (`MergesHide`). So it is for a secret no edit
takes apart; TLC evaluates it for one character on small texts (`SecretStaysOut`). For a secret of several characters
it is not so for all texts (a merge can put "b" before "a"), and there `postgres` checks the property with the texts
it has, one such secret among them.

**`Counting`.** The library's induction theorems take an operator. `Induction` states the principle of a set instead, and
is proved from a fact on finite sets (an injection of one into itself is onto). It gives least and greatest elements,
that a function defined step by step exists (`IterationExists`) and is the only one (`EqualUpTo`), by which the
proofs reason about replayed rows and joined lists, and the ranks of a finite set's elements (`RankRises`, `RankReached`).

**`SyncProofs`: checkouts.** For any number of checkouts and under every fault:

- `TypeCorrect` and `SnapshotsStayCurrent`. The invariant `IInv` says of each run that the snapshot is sound (a
  live entry has a path and a text) and, up to the run's cursor, equal to the server's view, and that what is left to
  push is live in the snapshot; the lemma `RequestStamps` says every accepted request stamps the document it changes,
  and `MergedSound` that merging the changes since a cursor makes the snapshot current.
- `UntouchedNeverDeletes` needs `~Crashes` and `~RootMoves` (a mount that was away and is moved back counts as emptied
  by the user; a crash between the removal and the rewriting of a path that a deleted and a live entry share breaks it
  as well), and rests on `SavedWasApplied`: saved paths are paths of files the last run left there.
- `QuietRunsMirror`. An undisturbed run is followed through its phases (`Follows`): if it has nothing to refresh, its
  cursor is the server's; after creating, every file in place is served; while deleting, its snapshot has the
  server's paths, so no deletion takes the document of a file in place. So its last refresh is the server's view.
- `QuietRunsKeep`. `Records` says that the lines of live texts, of saved bodies and of the runs' snapshots are
  recorded; `Listed`, that in the update phase a file with a line that is not recorded has its document left to update.
  It needs to know that an edit converges to a text with every line the edit added (`KeepsAdditions`): were that wrong
  of the server, so would be the theorem. TLC evaluates it for `ConvergedLines` on small texts (`AdditionsKept`).

**The same: watch mode.** On top of `IInv`, which the loop's steps keep as well: `StatusStaysTrue` and `WatchStaysCurrent`
(the loop's snapshot is sound and current, `SnapsGood`: requests of the batch leave its cursor alone and the next delta
starts from there), and `ReportedEditsSurvive`, under `KeepsAdditions`. Its invariant `KInv` adds `Records`, the same of
the loop's snapshot, and `EditsSeen`: a file with a line that is not recorded is in the batch, or the next poll
reports it, or no poll looks there (`Noticed`).

**`RuntimeLeaseProofs`.** For any processes that take the lease and look at it, killed or refused at any point and
interleaved in any way, with no hypothesis but that the two kinds differ: `LeaseTypeCorrect`, `LivingLeasesStay`,
`LeaseExcludesWhileAllRun`, `NoLeaseOfALivingLoser`. None of them is inductive alone. The invariant adds that only
a process that takes the lease creates it (`LookersLook`), that who examines a file has read a name in it
(`ReadersKnow`), that who is about to remove it has read the name of a process that has ended (`RemovedIsDead`), and so
that nothing is overtaken while all run (`UndisturbedWhileAllRun`): then only its owner removes a file, and
exclusion follows, as two holders' files would both be in the one place. Two lemmas serve most actions: a step that
leaves the file alone (`MoveHolds`), and one that removes it (`RemovalHolds`).

**`MachineDaemonProofs`.** `OneDaemon`: for any repositories, targets, processes and bounds, `DaemonAccountedFor`
holds. That a start spawns no second daemon is kept by what the command at the terminal has found out, which the
invariant adds: a command about to spawn, or having terminated the daemon, knows that no process is up; one that waits
knows of none but the process it spawned.

**Only model-checked.** The liveness properties
`Converges`, `WatchConverges`, `AcquireReturns`, `StaleLeaseGoes` and `ChangesGetThrough`: liveness under fairness is out
of TLAPS's reach. The definitions of `BodyText`: that converging by lines is converging by characters
(`LinesConverge`) and keeps additions (`AdditionsKept`) is evaluated on bounded texts. No module uses a RECURSIVE operator.

## 11. What is not modelled

- Purging and redacting history in the SQLite store: both end in reading a table its schema lacks
  (`sqlite/history_surgery.rs:53`), so neither commits.
- In `FileStore`: redaction, which has the stages of a purge; listings of revisions, events and entries; the
  rest of a workspace's metadata; `write_workspace_snapshot`, called by tests only; a cut `metadata.txt`, which
  the code reads as a binding to fewer mounts and then refuses, is a file that cannot be read.
- In `PostgresStore`: event kinds and summaries, listings, connection loss other than a refused transaction.
- In `WatchSync`: a watch that is killed outright, which leaves `daemon_running` true in the status file; its watches
  end by error only. `projector status` prints whether a process runs from the lease and the daemon's state, not from
  that flag.
- In `RuntimeLease` and `MachineDaemon`: a process id that is used again by another process.
- In `MachineDaemon`: two terminals at once; the identity by which a repository is recognised after it was moved
  as a whole; more than one directory that matches a missing root; server profiles; the cache of connections;
  the limit on rounds, which tests set. The run has one repository: repositories share only the registry.
- Two runs at once in one checkout, as the daemon's and one that `add` starts: only a watch takes the lease.
- HTTP, transport, the rest of the CLI: no protocol state of their own.
- In `CheckoutSync`: several mounts and single-file entries, files that are not UTF-8, and a
  checkpoint cut inside a line, after which saving fails until the file is repaired
  (`materialized_paths.rs:41`).

Noticed in the code and not stated as a property yet: restoring a merged revision restores the edit's own
text and not the merged one (`restore/document/resolve.rs:107`); a document can be restored to a mount that
is not bound (`resolve.rs:43`); when history is flattened under a retained merge, its replay may place the
edit elsewhere (`history_compaction.rs:241`, the `blurred` documents); two checkouts that create one path at
once keep only the second text (`local_text.rs:115`); a deletion also removes edits the checkout never saw
(`local_text.rs:161`); an untouched checkout creates anew a
document that was deleted elsewhere (`local_text.rs:41`); while a mount is away its saved paths are advanced,
and when it is back documents it never had are deleted (`reconcile.rs:80`); on the file store, a purge that
cannot read the events leaves the texts erased without an event (`history_file.rs:293`), and a rewind to the
current cursor after a purge empties the live texts (`history_file.rs:556`);
every append numbers the retained revisions anew before it samples them
(`history_compaction.rs:233`), so with a frequency above 1 only the first revision outlives the dense window; on
Postgres, a redacted merge is replayed at the positions of the unredacted text; the watch's second batch with an edit
and then a creation ends it, because `rebootstrap_retry_used` is never reset (`daemon.rs:171`,
`upserts.rs:59`); a file the watch moved or created and another checkout moved on in the same batch stays as a
leftover; documents that arrive while a mount is away are written only after the next remote change; `DeleteOne` does
not ask whether the mount is still there; saved bodies advance while a mount is held, so that an old file is later
sent with the newest text as its base.

## 12. Plan

Done: the three stores with the refinement of two of them, the checkouts in both modes, the lease, the daemon with its
commands, and the theorems of section 10.

Still worth doing: two runs at once in one checkout; two terminals; several writers on the file store, with what does
survive them.

Theorems still worth proving: the history of the file store when policies do thin it out, with what a view older than
the window then shows (as `VersionsKeepText` says of SQLite); a rewind to a cursor between its own changes; and, for
two checkouts, what an edit keeps when both change one document (the part of `Converges` that is a safety property).
