---------------------------- MODULE CheckoutSync ----------------------------
(***************************************************************************)
(* The checkouts of one workspace and the sync runs that reconcile them    *)
(* with the server.  A run (daemon.rs, daemon/reconcile) bootstraps a      *)
(* snapshot, pushes the moves, creations, deletions and edits it finds on  *)
(* disk, refreshing the snapshot after each phase that pushed something,   *)
(* writes the snapshot to disk and saves what it wrote as checkpoints.     *)
(*                                                                         *)
(* Each request is one step of the server (SharedWorkspace) and the runs   *)
(* of different checkouts interleave between requests.  What a run does    *)
(* between two requests touches only its own disk, so it is one step with  *)
(* the request before or after it.  A request the server refuses, and any  *)
(* other error, ends the run; the next run starts from a new bootstrap.    *)
(*                                                                         *)
(* One mount, a directory: it may be missing for a while (rooted).  Every   *)
(* file is UTF-8.                                                          *)
(***************************************************************************)
EXTENDS SharedWorkspace, FiniteSets

CONSTANTS
    Clients,
    Converge(_, _, _),   \* the server's text for an edit: base, current, incoming
    LinesOf(_),          \* the lines of a text
    Edited(_, _),        \* the texts an n-th edit may make of a file
    Blank,               \* what a write cut short leaves of a file
    Seeds, SeedPath,     \* the text every checkout starts with at a path, or NoText
    Crashes, RootMoves, Siblings,   \* which disturbances happen
    MaxActs,             \* bound: user actions and faults
    MaxCursor            \* bound: accepted requests

ASSUME SyncAssumption ==
    /\ Docs \subseteq Nat /\ 1 \in Docs /\ SeedPath \in Paths /\ NoPath \notin Paths
    /\ {Crashes, RootMoves, Siblings} \subseteq BOOLEAN
    /\ MaxActs \in Nat /\ MaxCursor \in Nat

VARIABLES
    files,        \* each checkout's files under the mount, NoText where there is none
    rooted,       \* the checkouts whose mount directory is in place
    savedPaths,   \* .projector/materialized_paths.txt
    savedBodies,  \* .projector/materialized_bodies.json
    run,          \* the sync run of each checkout
    acts,         \* number of user actions and faults so far
    recorded,     \* history variable: every line a document of the server ever had
    applied       \* history variable: the files as the last run left them

vars == <<shared, files, rooted, savedPaths, savedBodies, run, acts, recorded, applied>>
disk == <<files, rooted, savedPaths, savedBodies, applied>>

-----------------------------------------------------------------------------
(* Snapshots.                                                              *)

View == [d \in Docs |-> [path |-> path[d], live |-> d \in live, text |-> text[d]]]

LiveIn(snap) == {d \in Docs : snap[d].live}

LivePathsIn(snap) == {snap[d].path : d \in LiveIn(snap)}

DeletedPathsIn(snap) == {snap[d].path : d \in Docs \ LiveIn(snap)}

FilesOf(snap) ==
    [p \in Paths |-> IF p \in LivePathsIn(snap)
                     THEN snap[CHOOSE d \in LiveIn(snap) : snap[d].path = p].text
                     ELSE NoText]

\* merge_snapshots with changes_since(cur), and the bug of asking one too late.
MergedLate(snap, cur) == [d \in Docs |-> IF stamp[d] > cur + 1 THEN View[d] ELSE snap[d]]

Merged(snap, cur) == [d \in Docs |-> IF stamp[d] > cur THEN View[d] ELSE snap[d]]

NoRun == [phase |-> "idle", todo |-> {}, cur |-> 0, based |-> 0, pushed |-> FALSE, alone |-> FALSE,
          snap |-> [d \in Docs |-> [path |-> NoPath, live |-> FALSE, text |-> NoText]]]

\* The run of c at the end of a phase: refreshed if the phase pushed anything.
Refreshed(c) ==
    IF run[c].pushed
    THEN [run[c] EXCEPT !.snap = Merged(@, run[c].cur), !.cur = cursor,
                        !.based = cursor, !.pushed = FALSE]
    ELSE run[c]

-----------------------------------------------------------------------------
(* What each phase finds to push.                                          *)

Present(c, p) == c \in rooted /\ files[c][p] # NoText

New(c, snap) == {p \in Paths : Present(c, p) /\ p \notin LivePathsIn(snap)}

\* A bug: no checkpoint is asked whether the document was ever here.
MissingAtAll(c, snap) == {d \in LiveIn(snap) : ~Present(c, snap[d].path)}

Missing(c, snap) ==
    {d \in LiveIn(snap) : snap[d].path \in savedPaths[c] /\ ~Present(c, snap[d].path)}

\* match_move_candidates: a missing document moves to the only new file that
\* reads like it; of several such documents the first in the manifest.
Matches(c, snap) ==
    {m \in Missing(c, snap) \X New(c, snap) :
        /\ files[c][m[2]] = snap[m[1]].text
        /\ \A q \in New(c, snap) : files[c][q] = snap[m[1]].text => q = m[2]}

IsMovePlan(plan, c, snap) ==
    \A m \in Matches(c, snap) : \E n \in plan : n[2] = m[2] /\ \A o \in plan : o[2] = m[2] => o = n

\* A missing mount directory deletes nothing.
ToDelete(c, snap) == IF c \in rooted THEN Missing(c, snap) ELSE {}

\* A bug: documents without a saved body are left out.
ToUpdateSaved(c, snap) ==
    {d \in LiveIn(snap) : /\ Present(c, snap[d].path) /\ files[c][snap[d].path] # snap[d].text
                          /\ savedBodies[c][d] # NoText}

ToUpdate(c, snap) ==
    {d \in LiveIn(snap) : Present(c, snap[d].path) /\ files[c][snap[d].path] # snap[d].text}

\* The text an edit is sent with as its base.
Base(c, d) == IF savedBodies[c][d] # NoText THEN savedBodies[c][d] ELSE run[c].snap[d].text

-----------------------------------------------------------------------------
Seeded(t) ==
    /\ path = [d \in Docs |-> IF d = 1 THEN SeedPath ELSE NoPath]
    /\ live = {1}
    /\ text = [d \in Docs |-> IF d = 1 THEN t ELSE NoText]
    /\ cursor = 1
    /\ stamp = [d \in Docs |-> IF d = 1 THEN 1 ELSE 0]

\* Either nothing is shared yet or one document is, on every disk.
Init ==
    /\ \E t \in Seeds : /\ IF t = NoText THEN SharedInit ELSE Seeded(t)
                        /\ recorded = IF t = NoText THEN {} ELSE LinesOf(t)
    /\ files = [c \in Clients |-> FilesOf(View)]
    /\ rooted = Clients
    /\ savedPaths = [c \in Clients |-> LivePathsIn(View)]
    /\ savedBodies = [c \in Clients |-> text]
    /\ run = [c \in Clients |-> NoRun]
    /\ acts = 0
    /\ applied = files

-----------------------------------------------------------------------------
(* A run.                                                                  *)

Start(c) ==
    /\ run[c].phase = "idle"
    /\ \E plan \in SUBSET Matches(c, View) :
         /\ IsMovePlan(plan, c, View)
         /\ run' = [run EXCEPT ![c] = [phase |-> "moving", todo |-> plan, cur |-> cursor,
                                       based |-> cursor, pushed |-> FALSE, alone |-> TRUE,
                                       snap |-> View]]
    /\ UNCHANGED <<shared, disk, acts, recorded>>

\* Item i of phase ph is next for c (the order within a phase is left open).
Turn(c, ph, i) == run[c].phase = ph /\ i \in run[c].todo

\* c's request about item i was accepted; manifest writes count on their own
\* based_on_cursor for the next one.
Accepted(c, i) ==
    /\ cursor < MaxCursor
    /\ run' = [x \in Clients |->
                 IF x = c THEN [run[c] EXCEPT !.todo = @ \ {i}, !.pushed = TRUE, !.based = @ + 1]
                 ELSE [run[x] EXCEPT !.alone = FALSE]]
    /\ UNCHANGED <<disk, acts>>

PushMove(c, d, p) ==
    /\ Turn(c, "moving", <<d, p>>)
    /\ run[c].based = cursor
    /\ Move(d, p)
    /\ Accepted(c, <<d, p>>)
    /\ UNCHANGED recorded

PushCreate(c, p) ==
    /\ Turn(c, "creating", p)
    /\ Present(c, p)
    /\ run[c].based = cursor
    /\ \E d \in Docs \ Created :
         /\ \A e \in Docs \ Created : d <= e
         /\ Place(d, p, files[c][p])
    /\ Accepted(c, p)
    /\ recorded' = recorded \cup LinesOf(files[c][p])

PushDelete(c, d) ==
    /\ Turn(c, "deleting", d)
    /\ c \in rooted /\ ~Present(c, run[c].snap[d].path)
    /\ run[c].based = cursor
    /\ Delete(d)
    /\ Accepted(c, d)
    /\ UNCHANGED recorded

PushUpdate(c, d) ==
    LET p == run[c].snap[d].path
        merged == Converge(Base(c, d), text[d], files[c][p])
    IN  /\ Turn(c, "updating", d)
        /\ Present(c, p) /\ files[c][p] # run[c].snap[d].text
        /\ Rewrite(d, merged)
        /\ Accepted(c, d)
        /\ recorded' = recorded \cup LinesOf(merged)

\* The user has meanwhile brought the file back, or taken it away.
Skip(c, d) ==
    LET p == run[c].snap[d].path
    IN  /\ \/ Turn(c, "deleting", d) /\ (Present(c, p) \/ c \notin rooted)
           \/ Turn(c, "updating", d) /\ (~Present(c, p) \/ files[c][p] = run[c].snap[d].text)
        /\ run' = [run EXCEPT ![c].todo = @ \ {d}]
        /\ UNCHANGED <<shared, disk, acts, recorded>>

\* A bug: a request made on a stale cursor is repeated as it is.
RefusedUnlessStale(c) ==
    /\ \/ \E p \in run[c].todo : run[c].phase = "creating" /\ ~Present(c, p)
       \/ \E d \in run[c].todo : run[c].phase = "updating" /\ d \notin live
    /\ run' = [run EXCEPT ![c] = NoRun]
    /\ UNCHANGED <<shared, disk, acts, recorded>>

\* The server refuses a request made on a stale cursor, about a taken path or
\* about a deleted document; a new file that vanished ends the run too.
Refused(c) ==
    /\ \/ \E i \in run[c].todo : run[c].phase \in {"moving", "deleting"} /\ run[c].based # cursor
       \/ \E p \in run[c].todo : run[c].phase = "creating" /\ (run[c].based # cursor \/ ~Present(c, p))
       \/ \E d \in run[c].todo : run[c].phase = "updating" /\ d \notin live
    /\ run' = [run EXCEPT ![c] = NoRun]
    /\ UNCHANGED <<shared, disk, acts, recorded>>

Enter(c, from, to, found) ==
    /\ run[c].phase = from /\ run[c].todo = {}
    /\ run' = [run EXCEPT ![c] = [Refreshed(c) EXCEPT !.phase = to, !.todo = found]]
    /\ UNCHANGED <<shared, disk, acts, recorded>>

Advance(c) ==
    LET snap == Refreshed(c).snap
    IN  \/ Enter(c, "moving", "creating", New(c, snap))
        \/ Enter(c, "creating", "deleting", ToDelete(c, snap))
        \/ Enter(c, "deleting", "updating", ToUpdate(c, snap))

\* A mount directory that is missing although files were saved under it is
\* held: nothing is written or removed.
Held(c) == c \notin rooted /\ savedPaths[c] # {}

\* The bug of writing only the files that are missing.
MaterializedIfAbsent(c, snap) ==
    [p \in Paths |-> IF Present(c, p) THEN files[c][p] ELSE FilesOf(snap)[p]]

\* apply_snapshot: files of deleted entries and files once saved go, live
\* documents are written, other files stay.
Materialized(c, snap) ==
    [p \in Paths |->
        IF p \in LivePathsIn(snap) \cup DeletedPathsIn(snap) \cup savedPaths[c] \/ c \notin rooted
        THEN FilesOf(snap)[p] ELSE files[c][p]]

\* A bug: deleted entries are checkpointed too.
SaveAllPaths(c, snap) == savedPaths' = [savedPaths EXCEPT ![c] = {snap[d].path : d \in Docs}]

SavePaths(c, snap) == savedPaths' = [savedPaths EXCEPT ![c] = LivePathsIn(snap)]

SaveBodies(c, snap) ==
    savedBodies' = [savedBodies EXCEPT ![c] = [d \in Docs |-> IF snap[d].live THEN snap[d].text ELSE NoText]]

Done(c) == run[c].phase = "updating" /\ run[c].todo = {}

\* The last refresh, apply_snapshot and both checkpoints.
Finish(c) ==
    LET snap == Refreshed(c).snap
    IN  /\ Done(c)
        /\ IF Held(c) THEN UNCHANGED <<files, rooted, applied>>
           ELSE /\ files' = [files EXCEPT ![c] = Materialized(c, snap)]
                /\ rooted' = rooted \cup {c}
                /\ applied' = [applied EXCEPT ![c] = Materialized(c, snap)]
        /\ SavePaths(c, snap)
        /\ SaveBodies(c, snap)
        /\ run' = [run EXCEPT ![c] = NoRun]
        /\ UNCHANGED <<shared, acts, recorded>>

-----------------------------------------------------------------------------
(* Disturbances.                                                           *)

Act == acts < MaxActs /\ acts' = acts + 1

\* The process or the transport fails between two requests; a request whose
\* answer is lost has been accepted before.
Crash(c) ==
    /\ Crashes /\ run[c].phase # "idle"
    /\ Act
    /\ run' = [run EXCEPT ![c] = NoRun]
    /\ UNCHANGED <<shared, disk, recorded>>

\* The files when writing snap stopped: done are written or removed, of torn a
\* part is there, gone are removed and not written yet.
HalfWritten(c, snap, done, torn, gone) ==
    [p \in Paths |-> IF p \in torn THEN Blank ELSE IF p \in done THEN Materialized(c, snap)[p]
                     ELSE IF c \in rooted /\ p \notin gone THEN files[c][p] ELSE NoText]

\* It fails while the snapshot is written: some removals done (a deleted entry
\* may share its path with a live one), or all of them and some writes, one
\* perhaps cut short; or while a checkpoint is: some lines of the paths are
\* there, or the bodies, which do not parse, are none.
CrashApplying(c) ==
    LET snap == Refreshed(c).snap
        writes == LivePathsIn(snap)
    IN  /\ Crashes /\ Done(c) /\ ~Held(c)
        /\ Act
        /\ \E done \in SUBSET Paths, torn, gone \in SUBSET writes :
             /\ torn \subseteq done /\ Cardinality(torn) <= 1
             /\ gone \subseteq DeletedPathsIn(snap) \ done
             /\ done \cap writes # {} => /\ Paths \ writes \subseteq done
                                       /\ writes \cap DeletedPathsIn(snap) \subseteq done \cup gone
             /\ files' = [files EXCEPT ![c] = HalfWritten(c, snap, done, torn, gone)]
             /\ \/ UNCHANGED <<savedPaths, savedBodies>>
                \/ /\ done = Paths /\ torn = {}
                   /\ \/ \E kept \in SUBSET writes :
                            savedPaths' = [savedPaths EXCEPT ![c] = kept] /\ UNCHANGED savedBodies
                      \/ /\ SavePaths(c, snap)
                         /\ savedBodies' = [savedBodies EXCEPT ![c] = [d \in Docs |-> NoText]]
        /\ rooted' = rooted \cup {c}
        /\ applied' = [applied EXCEPT ![c] = files'[c]]
        /\ run' = [run EXCEPT ![c] = NoRun]
        /\ UNCHANGED <<shared, recorded>>

\* Another sync entry of the repository saves its own bodies in the one file.
Sibling(c) ==
    /\ Siblings /\ run[c].phase = "idle"
    /\ savedBodies[c] # [d \in Docs |-> NoText]
    /\ Act
    /\ savedBodies' = [savedBodies EXCEPT ![c] = [d \in Docs |-> NoText]]
    /\ UNCHANGED <<shared, files, rooted, savedPaths, applied, run, recorded>>

UserActs(c) ==
    /\ Act
    /\ run' = [run EXCEPT ![c].alone = FALSE]
    /\ UNCHANGED <<shared, savedPaths, savedBodies, recorded, applied>>

Write(c, p, t) ==
    /\ c \in rooted
    /\ files' = [files EXCEPT ![c][p] = t]
    /\ UserActs(c)
    /\ UNCHANGED rooted

Remove(c, p) ==
    /\ Present(c, p)
    /\ files' = [files EXCEPT ![c][p] = NoText]
    /\ UserActs(c)
    /\ UNCHANGED rooted

Rename(c, p, q) ==
    /\ Present(c, p) /\ files[c][q] = NoText
    /\ files' = [files EXCEPT ![c][p] = NoText, ![c][q] = files[c][p]]
    /\ UserActs(c)
    /\ UNCHANGED rooted

\* The mount directory is moved out of the repository, or back.
MoveRoot(c) ==
    /\ RootMoves
    /\ rooted' = IF c \in rooted THEN rooted \ {c} ELSE rooted \cup {c}
    /\ UserActs(c)
    /\ UNCHANGED files

-----------------------------------------------------------------------------
Sync(c) ==
    \/ Start(c)
    \/ \E d \in Docs, p \in Paths : PushMove(c, d, p)
    \/ \E p \in Paths : PushCreate(c, p)
    \/ \E d \in Docs : PushDelete(c, d)
    \/ \E d \in Docs : PushUpdate(c, d)
    \/ \E d \in Docs : Skip(c, d)
    \/ Refused(c)
    \/ Advance(c)
    \/ Finish(c)

User(c) ==
    \/ \E p \in Paths : \E t \in Edited(files[c][p], acts + 1) : Write(c, p, t)
    \/ \E p \in Paths : Remove(c, p)
    \/ \E p, q \in Paths : Rename(c, p, q)
    \/ MoveRoot(c)

Next ==
    \E c \in Clients : Sync(c) \/ User(c) \/ Crash(c) \/ CrashApplying(c) \/ Sibling(c)

Spec == Init /\ [][Next]_vars

\* The machine daemon sweeps every entry again and again, whether or not the
\* run before it failed (machine_daemon/scheduling.rs:64).
FairSpec == Spec /\ \A c \in Clients : WF_vars(Sync(c))

-----------------------------------------------------------------------------
(* Correctness.                                                            *)

Phases == {"idle", "moving", "creating", "deleting", "updating"}

\* Every variable holds what the code's types allow.
TypeOK ==
    /\ path \in [Docs -> Paths \cup {NoPath}] /\ live \subseteq Created
    /\ DOMAIN text = Docs /\ cursor \in Nat /\ stamp \in [Docs -> 0..cursor]
    /\ \A c \in Clients : DOMAIN files[c] = Paths /\ DOMAIN savedBodies[c] = Docs
    /\ rooted \subseteq Clients
    /\ savedPaths \in [Clients -> SUBSET Paths]
    /\ \A c \in Clients : /\ run[c].phase \in Phases /\ run[c].cur \in 0..cursor
                          /\ run[c].pushed \in BOOLEAN /\ DOMAIN run[c].snap = Docs
    /\ acts \in 0..MaxActs

\* A run's snapshot is the server's view at the run's cursor: whatever deltas
\* were merged into it, a document not changed since is as the server has it.
SnapshotsCurrent ==
    \A c \in Clients : run[c].phase # "idle" =>
        \A d \in Docs : stamp[d] <= run[c].cur => run[c].snap[d] = View[d]

\* A run during which nobody else wrote and the user did not act leaves the
\* checkout showing exactly the server's live documents ...
QuietRunMirrors ==
    [][\A c \in Clients : Finish(c) /\ run[c].alone /\ ~Held(c) => files'[c] = FilesOf(View)]_vars

LinesOnDisk(c) == UNION {LinesOf(files[c][p]) : p \in {q \in Paths : Present(c, q)}}

\* ... and drops no line from disk that the server did not once record.
QuietRunKeeps ==
    [][\A c \in Clients : Finish(c) /\ run[c].alone =>
         LinesOnDisk(c) \subseteq recorded \cup LinesOnDisk(c)']_vars

\* The checkout's user has not touched it since the last run.
Passive(c) == files[c] = applied[c]

\* An untouched checkout never deletes a document: what is missing from it was
\* never there.
PassiveNeverDeletes ==
    [][\A c \in Clients, d \in Docs : PushDelete(c, d) => ~Passive(c)]_vars

\* The server is the source of truth for an untouched checkout: it never
\* changes the text of a document.
PassiveNeverUpdates ==
    [][\A c \in Clients, d \in Docs : PushUpdate(c, d) /\ Passive(c) => text' = text]_vars

\* No run drops a line from disk that the server has not recorded.
NoLocalLoss ==
    [][\A c \in Clients : Finish(c) =>
         LinesOnDisk(c) \subseteq recorded \cup LinesOnDisk(c)']_vars

\* In a run that nobody interferes with, an edit removes from the server only
\* lines the file had when the last run left it: it is sent with the base the
\* checkout diverged from.
EditsRemoveSeenLines ==
    [][\A c \in Clients, d \in Docs : PushUpdate(c, d) /\ run[c].alone =>
         LET before == applied[c][run[c].snap[d].path]
         IN  LinesOf(text[d]) \ LinesOf(text'[d]) \subseteq IF before = NoText THEN {} ELSE LinesOf(before)]_vars

\* Once the users stop, every checkout comes to show the server's documents.
Converges == <>[](\A c \in Clients : files[c] = FilesOf(View))
=============================================================================
