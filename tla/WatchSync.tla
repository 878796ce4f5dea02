----------------------------- MODULE WatchSync -----------------------------
(***************************************************************************)
(* A checkout kept in sync by a watching run (SyncRunner::run with watch): *)
(* one full run of CheckoutSync, then a loop that polls the file watcher,  *)
(* pushes what the reported files ask for, pulls what others wrote and     *)
(* writes the result to disk.  Around both stands the bounded recovery of  *)
(* run: a conflict restarts from a full run once, a transport failure      *)
(* twice, anything else ends the watch with a recorded issue.              *)
(*                                                                         *)
(* Each request is one step; what others write and what the user does      *)
(* happens between requests.  The full run is CheckoutSync's, step by      *)
(* step; others write straight to the server, as CheckoutSync's other      *)
(* checkouts do.  The lease that keeps a second watch away is RuntimeLease.*)
(***************************************************************************)
EXTENDS CheckoutSync

CONSTANT MaxRetries   \* MAX_IMMEDIATE_RETRIES

ASSUME WatchAssumption == MaxRetries \in Nat

VARIABLES
    watch,     \* the loop: its mode, its snapshot and cursor, the batch in hand
    touched,   \* each checkout's paths with events the next poll reports
    status,    \* .projector/status.txt
    tries,     \* the retry counters of run
    unseen     \* history variable: the paths that differ where no poll will report it

loop == <<watch, touched, status, tries, unseen>>
all == <<vars, loop>>

Modes == {"off", "booting", "arming", "watching", "batch"}
Issues == {"none", "stale_state", "transport_unavailable", "unknown_sync_issue"}

NoTries == [soon |-> 0, again |-> FALSE]

\* The watch has taken its lease and reset the status, and is about to sync.
Boot == [mode |-> "booting", snap |-> NoRun.snap, cur |-> 0, based |-> 0, moves |-> {}, todo |-> {}]

\* status.txt as it reads back; conflicts have one code here.
Saved(running, issue, recoveries) ==
    [running |-> running, issue |-> issue, recoveries |-> recoveries]

Recoveries(t) == t.soon + IF t.again THEN 1 ELSE 0

WatchInit ==
    /\ Init
    /\ watch = [c \in Clients |-> Boot]
    /\ touched = [c \in Clients |-> {}]
    /\ status = [c \in Clients |-> Saved(FALSE, "none", 0)]
    /\ tries = [c \in Clients |-> NoTries]
    /\ unseen = [c \in Clients |-> {}]

-----------------------------------------------------------------------------
(* Recovery.                                                               *)

\* record_sync_issue: the error ends run, the counters are kept in the status.
GiveUp(c, issue) ==
    /\ watch' = [watch EXCEPT ![c].mode = "off"]
    /\ status' = [status EXCEPT ![c] = Saved(FALSE, issue, Recoveries(tries[c]))]
    /\ UNCHANGED tries

\* run_inner is entered again; the status still says what it said before.
Again(c, t) ==
    /\ tries' = [tries EXCEPT ![c] = t]
    /\ status' = [status EXCEPT ![c].recoveries = Recoveries(t)]
    /\ watch' = [watch EXCEPT ![c] = Boot]

\* A bug: the answer to a conflict is to go on with the snapshot at hand.
GoOn(c) ==
    /\ watch' = [watch EXCEPT ![c] = [@ EXCEPT !.mode = "watching", !.moves = {}, !.todo = {}]]
    /\ UNCHANGED <<status, tries>>

\* stale_cursor and document_deleted: once in the life of the watch.
Conflict(c) ==
    IF tries[c].again THEN GiveUp(c, "stale_state") ELSE Again(c, [tries[c] EXCEPT !.again = TRUE])

Unreachable(c) ==
    IF tries[c].soon = MaxRetries THEN GiveUp(c, "transport_unavailable")
    ELSE Again(c, [tries[c] EXCEPT !.soon = @ + 1])

-----------------------------------------------------------------------------
(* The full run.                                                           *)

Booting(c) ==
    /\ watch[c].mode = "booting"
    /\ \/ Start(c)
       \/ \E d \in Docs, p \in Paths : PushMove(c, d, p)
       \/ \E p \in Paths : PushCreate(c, p)
       \/ \E d \in Docs : PushDelete(c, d) \/ PushUpdate(c, d) \/ Skip(c, d)
       \/ Advance(c)
    /\ UNCHANGED loop

\* A new file that vanished is an error like any other, not a conflict.
Vanished(c) == run[c].phase = "creating" /\ \E p \in run[c].todo : ~Present(c, p)

Conflicting(c) ==
    \/ run[c].phase \in {"moving", "creating", "deleting"} /\ run[c].based # cursor
    \/ run[c].phase = "updating" /\ ~(run[c].todo \subseteq live)

BootFails(c) ==
    /\ watch[c].mode = "booting"
    /\ Refused(c)
    /\ \/ Vanished(c) /\ GiveUp(c, "unknown_sync_issue")
       \/ Conflicting(c) /\ Conflict(c)
    /\ UNCHANGED <<touched, unseen>>

\* What differs from the snapshot that has just been applied was missed by it.
Booted(c) ==
    LET snap == Refreshed(c).snap
    IN  /\ watch[c].mode = "booting"
        /\ Finish(c)
        /\ watch' = [watch EXCEPT ![c] = [@ EXCEPT !.mode = "arming", !.snap = snap,
                                                   !.cur = Refreshed(c).cur]]
        /\ unseen' = [unseen EXCEPT ![c] = {p \in Paths : files'[c][p] # FilesOf(snap)[p]}]
        /\ UNCHANGED <<touched, status, tries>>

\* A bug: the status is saved with the counters of the call.
ArmAfresh(c) ==
    /\ watch[c].mode = "arming"
    /\ watch' = [watch EXCEPT ![c].mode = "watching"]
    /\ touched' = [touched EXCEPT ![c] = {}]
    /\ status' = [status EXCEPT ![c].running = TRUE, ![c].recoveries = 0]
    /\ UNCHANGED <<vars, tries, unseen>>

\* RuntimeWatcher::new takes what it finds as its baseline.  save_status keeps
\* the larger of the two recovery counts.
Arm(c) ==
    /\ watch[c].mode = "arming"
    /\ watch' = [watch EXCEPT ![c].mode = "watching"]
    /\ touched' = [touched EXCEPT ![c] = {}]
    /\ status' = [status EXCEPT ![c].running = TRUE]
    /\ UNCHANGED <<vars, tries, unseen>>

-----------------------------------------------------------------------------
(* A cycle: poll, moves, the other touched paths, changes_since.           *)

DocAt(snap, p) == {d \in LiveIn(snap) : snap[d].path = p}

\* match_move_candidates among the touched paths.
Renamed(c, E) ==
    LET snap == watch[c].snap
        new == {p \in E : Present(c, p) /\ DocAt(snap, p) = {}}
    IN  {m \in LiveIn(snap) \X new :
            /\ snap[m[1]].path \in E /\ ~Present(c, snap[m[1]].path)
            /\ files[c][m[2]] = snap[m[1]].text
            /\ \A q \in new : files[c][q] = snap[m[1]].text => q = m[2]}

\* Of several documents that could have moved to a file, one does.
ChoosesOne(plan, found) == \A m \in found : \E n \in plan : \A o \in plan : o[2] = m[2] <=> o = n

\* A bug: a live document's path is taken for one of the watch's own writes.
ReportedNew(c) == IF c \in rooted THEN touched[c] \ LivePathsIn(watch[c].snap) ELSE {}

\* Events under a missing mount directory are dropped.
Reported(c) == IF c \in rooted THEN touched[c] ELSE {}

Poll(c) ==
    LET E == Reported(c)
    IN  /\ watch[c].mode = "watching"
        /\ \E plan \in SUBSET Renamed(c, E) :
             /\ ChoosesOne(plan, Renamed(c, E))
             /\ watch' = [watch EXCEPT ![c] = [@ EXCEPT !.mode = "batch", !.moves = plan,
                            !.based = watch[c].cur,
                            !.todo = {p \in E : \A m \in plan : p # m[2] /\ p # watch[c].snap[m[1]].path}]]
        /\ touched' = [touched EXCEPT ![c] = {}]
        /\ unseen' = [unseen EXCEPT ![c] = IF c \in rooted THEN @ ELSE @ \cup touched[c]]
        /\ UNCHANGED <<vars, status, tries>>

\* A request of the batch was accepted: manifest_cursor counts manifest writes only.
Pushed(c, w, n) ==
    /\ cursor < MaxCursor
    /\ watch' = [watch EXCEPT ![c] = [w EXCEPT !.based = @ + n]]
    /\ UNCHANGED <<disk, run, acts, touched, status, tries, unseen>>

Without(c, p) == [watch[c] EXCEPT !.todo = @ \ {p}]

\* p is the next of the touched paths (in which order is left open).
Due(c, p) == watch[c].mode = "batch" /\ watch[c].moves = {} /\ p \in watch[c].todo

MoveOne(c, m) ==
    /\ watch[c].mode = "batch" /\ m \in watch[c].moves
    /\ watch[c].based = cursor
    /\ Move(m[1], m[2])
    /\ Pushed(c, [watch[c] EXCEPT !.moves = @ \ {m}], 1)
    /\ UNCHANGED recorded

CreateOne(c, p) ==
    /\ Due(c, p)
    /\ Present(c, p) /\ DocAt(watch[c].snap, p) = {}
    /\ watch[c].based = cursor
    /\ \E d \in Docs \ Created :
         /\ \A e \in Docs \ Created : d <= e
         /\ Place(d, p, files[c][p])
    /\ Pushed(c, Without(c, p), 1)
    /\ recorded' = recorded \cup LinesOf(files[c][p])

SentBase(c, d) == IF savedBodies[c][d] # NoText THEN savedBodies[c][d] ELSE watch[c].snap[d].text

UpdateOne(c, d) ==
    LET p == watch[c].snap[d].path
        merged == Converge(SentBase(c, d), text[d], files[c][p])
    IN  /\ Due(c, p) /\ d \in DocAt(watch[c].snap, p)
        /\ Present(c, p) /\ files[c][p] # watch[c].snap[d].text
        /\ Rewrite(d, merged)
        /\ Pushed(c, Without(c, p), 0)
        /\ recorded' = recorded \cup LinesOf(merged)

\* A missing mount directory is noticed when the events are expanded, not here.
DeleteOne(c, d) ==
    LET p == watch[c].snap[d].path
    IN  /\ Due(c, p) /\ d \in DocAt(watch[c].snap, p)
        /\ ~Present(c, p)
        /\ watch[c].based = cursor
        /\ Delete(d)
        /\ Pushed(c, Without(c, p), 1)
        /\ UNCHANGED recorded

\* The file reads as the snapshot has it, or there is neither file nor document.
NothingToDo(c, p) ==
    /\ Due(c, p)
    /\ (IF c \in rooted THEN files[c][p] ELSE NoText) = FilesOf(watch[c].snap)[p]
    /\ watch' = [watch EXCEPT ![c] = Without(c, p)]
    /\ UNCHANGED <<vars, touched, status, tries, unseen>>

\* The request p asks for will be refused: a manifest write on a stale cursor, or
\* an edit of a document that is no longer live.
Doomed(c, p) ==
    LET known == DocAt(watch[c].snap, p)
    IN  \/ watch[c].based # cursor /\ Present(c, p) # (known # {})
        \/ /\ Present(c, p) /\ ~(known \subseteq live)
           /\ files[c][p] # FilesOf(watch[c].snap)[p]

BatchFails(c) ==
    /\ \/ watch[c].mode = "batch" /\ watch[c].moves # {} /\ watch[c].based # cursor
       \/ \E p \in Paths : Due(c, p) /\ Doomed(c, p)
    /\ Conflict(c)
    /\ UNCHANGED <<vars, touched, unseen>>

\* A bug: the delta is asked from where the batch's manifest writes have come to.
SinceBatch(c) == watch[c].based

\* The cursor changes_since is asked from: the one of the snapshot.
Since(c) == watch[c].cur

\* changes_since, and if the cursor has moved apply_snapshot, whose writes and
\* removals are events of the next cycle; otherwise nothing is written.
EndCycle(c) ==
    LET snap == Merged(watch[c].snap, Since(c))
    IN  /\ watch[c].mode = "batch" /\ watch[c].moves = {} /\ watch[c].todo = {}
        /\ watch' = [watch EXCEPT ![c] = [@ EXCEPT !.mode = "watching", !.snap = snap, !.cur = cursor]]
        /\ IF cursor = watch[c].cur \/ Held(c) THEN UNCHANGED <<files, rooted, applied, touched>>
           ELSE /\ files' = [files EXCEPT ![c] = Materialized(c, snap)]
                /\ rooted' = rooted \cup {c}
                /\ applied' = [applied EXCEPT ![c] = Materialized(c, snap)]
                /\ touched' = [touched EXCEPT ![c] =
                                 @ \cup LivePathsIn(snap) \cup {p \in Paths : files'[c][p] # files[c][p]}]
        /\ IF cursor = watch[c].cur THEN UNCHANGED <<savedPaths, savedBodies>>
           ELSE SavePaths(c, snap) /\ SaveBodies(c, snap)
        /\ unseen' = [unseen EXCEPT ![c] =
                        {p \in IF Held(c) THEN Paths ELSE @ : files'[c][p] # FilesOf(snap)[p]}]
        /\ UNCHANGED <<shared, run, acts, recorded, status, tries>>

-----------------------------------------------------------------------------
(* Disturbances.                                                           *)

\* The paths the user's step has changed.
Disturbed(c) ==
    {p \in Paths : files'[c][p] # files[c][p] \/ (rooted' # rooted /\ files[c][p] # NoText)}

UserStep(c) ==
    /\ User(c)
    /\ touched' = [touched EXCEPT ![c] = IF watch[c].mode \in {"watching", "batch"}
                                         THEN @ \cup Disturbed(c) ELSE @]
    /\ unseen' = [unseen EXCEPT ![c] = IF watch[c].mode \in {"watching", "batch"} THEN @ \ Disturbed(c)
                                       ELSE IF watch[c].mode = "arming" THEN @ \cup Disturbed(c) ELSE @]
    /\ UNCHANGED <<watch, status, tries>>

\* A request gets no answer; whether it was carried out is another step.
TransportFails(c) ==
    /\ Crashes /\ watch[c].mode \in {"booting", "batch"}
    /\ Act
    /\ run' = [run EXCEPT ![c] = NoRun]
    /\ Unreachable(c)
    /\ UNCHANGED <<shared, disk, recorded, touched, unseen>>

\* A watch that ended is started anew.
Relaunch(c) ==
    /\ watch[c].mode = "off"
    /\ Act
    /\ watch' = [watch EXCEPT ![c] = Boot]
    /\ status' = [status EXCEPT ![c] = Saved(FALSE, "none", 0)]
    /\ tries' = [tries EXCEPT ![c] = NoTries]
    /\ UNCHANGED <<shared, disk, run, recorded, touched, unseen>>

\* The process is gone.
Ended(c) == watch[c].mode = "off" /\ UNCHANGED all

\* Another checkout's request.
Others ==
    /\ Act
    /\ \/ \E d \in live : \E t \in Edited(text[d], acts + 1) : Rewrite(d, t)
       \/ \E d \in live : Delete(d)
       \/ \E d \in live, p \in Paths : Move(d, p)
       \/ \E d \in Docs \ Created, p \in Paths : \E t \in Edited(NoText, acts + 1) :
            (\A e \in Docs \ Created : d <= e) /\ Place(d, p, t)
    /\ recorded' = recorded \cup UNION {LinesOf(text'[d]) : d \in live'}
    /\ run' = [c \in Clients |-> [run[c] EXCEPT !.alone = FALSE]]
    /\ UNCHANGED <<disk, loop>>

-----------------------------------------------------------------------------
Cycle(c) ==
    \/ Booting(c)
    \/ BootFails(c)
    \/ Booted(c)
    \/ Arm(c)
    \/ Poll(c)
    \/ \E m \in watch[c].moves : MoveOne(c, m)
    \/ \E p \in Paths : CreateOne(c, p) \/ NothingToDo(c, p)
    \/ \E d \in Docs : UpdateOne(c, d) \/ DeleteOne(c, d)
    \/ BatchFails(c)
    \/ EndCycle(c)

WatchNext ==
    \/ \E c \in Clients : Cycle(c) \/ UserStep(c) \/ TransportFails(c) \/ Relaunch(c) \/ Ended(c)
    \/ Others

WatchSpec == WatchInit /\ [][WatchNext]_all

\* The loop has no other wait than its sleep between two polls.
FairWatch == WatchSpec /\ \A c \in Clients : WF_all(Cycle(c))

-----------------------------------------------------------------------------
(* Correctness.                                                            *)

\* The status file never claims a watch that has ended, never shows an issue of
\* one that goes on, and has counted every recovery of this run.
StatusTellsTheTruth ==
    \A c \in Clients :
        /\ watch[c].mode \in Modes /\ status[c].issue \in Issues
        /\ (watch[c].mode = "off") <=> (status[c].issue # "none")
        /\ watch[c].mode = "off" => ~status[c].running
        /\ watch[c].mode \in {"watching", "batch"} => status[c].running
        /\ status[c].recoveries = Recoveries(tries[c])

\* A file is overwritten only after its lines have reached the server, unless it
\* was changed after the poll or where no poll looks.
ReportedEditsKept ==
    [][\A c \in Clients : EndCycle(c) =>
         \A p \in Paths \ (touched[c] \cup unseen[c]) :
            Present(c, p) => LinesOf(files[c][p]) \subseteq recorded \cup LinesOnDisk(c)']_all

\* The snapshot the loop carries from cycle to cycle is the server's at its cursor.
WatchSnapshotCurrent ==
    \A c \in Clients : watch[c].mode \in {"arming", "watching", "batch"} =>
        \A d \in Docs : stamp[d] <= watch[c].cur => watch[c].snap[d] = View[d]

\* Once users and others stop, the watch has ended, its mount is away, or the
\* checkout comes to show every live document with its text, but at paths changed
\* where no poll looks.
WatchConverges ==
    <>[](\A c \in Clients :
           \/ watch[c].mode = "off" \/ c \notin rooted
           \/ \A d \in live : path[d] \in unseen[c] \/ files[c][path[d]] = text[d])
=============================================================================
