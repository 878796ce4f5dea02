------------------------------ MODULE FileStore ------------------------------
(***************************************************************************)
(* The file workspace store of the projector server, for one workspace.    *)
(* It offers the operations of WorkspaceStore on plain files, one per      *)
(* table, without a lock, a transaction or a journal: a request is a       *)
(* sequence of stages, each the read of one whole file or its rewriting     *)
(* from a copy just read.  The server runs requests on several threads,    *)
(* so they interleave at these accesses, and a killed server leaves the    *)
(* request it was serving half done, and a file it was writing cut short.  *)
(*                                                                         *)
(* Documents have texts, histories and a compaction as in WorkspaceStore,  *)
(* and texts converge by the same operators.  Redacting history is left    *)
(* out: it goes through the stages of a purge.                             *)
(***************************************************************************)
EXTENDS Integers, Sequences, FiniteSets, SequencesExt, FiniteSetsExt

CONSTANTS
    Slots,           \* requests the server works on at a time
    Serves,          \* the kinds of requests each of them may be
    Docs,            \* document ids; they sort as numbers
    Mounts, Paths,   \* the mounts to bind; document paths
    MountOf,         \* the mount part of a path
    Keys, Chain,     \* policy keys; a path's keys, nearest first
    Policies, DefaultPolicy,
    Actors, Edits, Bases, Empty,
    Flat(_), ApplyUpdate(_, _, _, _), HoldsText(_, _), UniteTexts(_, _, _),
    NoPath, NoBody, NoState, Nothing,   \* absent values
    Torn,            \* the content of a file whose writing was cut short
    MaxCursor,       \* bound: no request is made at this cursor
    MaxFaults        \* bound on crashes and refused writes

Kinds == {"bootstrap", "create", "update", "delete", "move", "restore", "rewind", "purge", "policy",
          "changes"}

ASSUME FilesAssumption ==
    /\ Serves \in [Slots -> SUBSET Kinds]
    /\ Docs \subseteq Nat /\ IsFiniteSet(Docs)
    /\ MountOf \in [Paths -> Mounts] /\ NoPath \notin Paths
    /\ MaxCursor \in Nat /\ MaxFaults \in Nat

VARIABLES
    disk,      \* the content of every file
    slot,      \* the request each slot works on and how far it is
    given,     \* document ids handed out
    faults,    \* how often the server was killed or a write refused
    lost,      \* history variable: <<stage, doc>> for the stages of broken-off
               \* requests that nothing has made up for since
    past       \* history variable: the snapshot after each finished request

vars == <<disk, slot, given, faults, lost, past>>

Checkpoint(text) == [text |-> text, shape |-> Flat(text)]

\* What a slot holds: the request, the stages left, whether a file was written,
\* the snapshot read and the one to keep, what else was worked out, the number
\* of the event, and the copy of a file about to be rewritten.
NoRequest == [kind |-> "none", doc |-> 0, path |-> NoPath, edit |-> Nothing, cursor |-> 0,
              target |-> Nothing]
Idle == [req |-> NoRequest, todo |-> <<>>, wrote |-> FALSE, old |-> Nothing, snap |-> Nothing,
         result |-> Nothing, number |-> 0, copy |-> Nothing]

-----------------------------------------------------------------------------
(* What the files say.                                                     *)

\* A bug: only events that change documents move the cursor.
NumberOfChanges(events) == Len(SelectSeq(events, LAMBDA e : e.kind # "purge"))

\* file_workspace_cursor: the number of the last event, whatever is before it.
Number(events) == IF events = <<>> THEN 0 ELSE Last(events).seq

Upto(rows, d, c) == {i \in DOMAIN rows : rows[i].doc = d /\ rows[i].seq <= c}

\* The row of d's path history that counts at cursor c, if there is one.
PathAt(rows, d, c) ==
    LET set == Upto(rows, d, c)
        after(j, k) == rows[j].seq < rows[k].seq \/ (rows[j].seq = rows[k].seq /\ k <= j)
    IN  {rows[k] : k \in {i \in set : \A j \in set : after(j, i)}}

BodyAt(rows, d, c) ==
    LET set == Upto(rows, d, c) IN {rows[k] : k \in {i \in set : \A j \in set : j <= i}}

\* file_reconstruct_workspace_at_cursor: where d is at c, and with which text.
HistoryPath(rows, d, c) == {r.path : r \in {x \in PathAt(rows, d, c) : x.live}}

HistoryText(rows, d, c) ==
    IF BodyAt(rows, d, c) = {} THEN NoBody
    ELSE (CHOOSE r \in BodyAt(rows, d, c) : TRUE).replayed.text

\* A document without a body counts as empty.
Shown(body) == IF body = NoBody THEN Empty ELSE body

PathTaken(snap, p, d) == \E e \in snap.live \ {d} : snap.path[e] = p

\* The n-th element of a set of numbers.
NthOf(S, n) == CHOOSE k \in S : Cardinality({j \in S : j <= k}) = n

PolicyFor(p, policies) ==
    LET set == {i \in DOMAIN Chain[p] : Chain[p][i] \in DOMAIN policies}
    IN  IF set = {} THEN DefaultPolicy ELSE policies[Chain[p][Min(set)]]

-----------------------------------------------------------------------------
(* Requests and their stages.                                              *)

\* The stages of each kind of request, in the order of its function.  A row
\* of the history is written after its event and before the compaction.
StagesOf(kind) ==
    CASE kind = "bootstrap" -> <<"bind">>
      [] kind = "create"  -> <<"check", "mount", "snapshot", "canonical", "keep", "number", "event",
                               "body", "entry", "policy", "compact", "path">>
      [] kind = "update"  -> <<"snapshot", "merge", "canonical", "keep", "number", "event",
                               "body", "entry", "policy", "compact">>
      [] kind = "delete"  -> <<"check", "snapshot", "keep", "number", "event", "path">>
      [] kind = "move"    -> <<"check", "mount", "snapshot", "keep", "number", "event", "path">>
      [] kind = "restore" -> <<"snapshot", "revision", "canonical", "keep", "number", "event",
                               "body", "entry", "policy", "compact", "path">>
      [] kind = "rewind"  -> <<"check", "snapshot", "history", "keep">>
      [] kind = "purge"   -> <<"erase", "locate", "number", "audit">>
      [] kind = "policy"  -> <<"policies">>
      [] kind = "changes" -> <<"since", "delta", "changed">>

ForDoc(names, d) == [i \in DOMAIN names |-> <<names[i], d>>]

\* Bugs: the cursor of an answer is read last; a move is not in the history.
StagesCursorLast(kind, d) ==
    ForDoc(IF kind = "changes" THEN <<"delta", "changed", "since">> ELSE StagesOf(kind), d)

StagesNoPath(kind, d) ==
    ForDoc(IF kind = "move" THEN Front(StagesOf(kind)) ELSE StagesOf(kind), d)

Stages(kind, d) == ForDoc(StagesOf(kind), d)

FileOf ==
    [check |-> "events", since |-> "events", number |-> "events", event |-> "events",
     audit |-> "events", changed |-> "events", bind |-> "mounts", mount |-> "mounts",
     snapshot |-> "snapshot", keep |-> "snapshot", entry |-> "snapshot",
     locate |-> "snapshot", delta |-> "snapshot",
     merge |-> "canonical", canonical |-> "canonical",
     revision |-> "bodyRevs", body |-> "bodyRevs", compact |-> "bodyRevs",
     erase |-> "bodyRevs", rollback |-> "bodyRevs",
     history |-> "paths", path |-> "paths", policy |-> "policies", policies |-> "policies"]

\* Stages that read a file first and then go on with the copy: all but the
\* rewinding's reconstruction write it back changed.  (A merged edit reads the
\* revisions once more before, for its anchor.)
Copying == {"bind", "canonical", "event", "audit", "body", "compact", "erase", "path",
            "policies", "history"}

At(s, name) == slot[s].todo # <<>> /\ Head(slot[s].todo)[1] = name
Has(s, name) == At(s, name) /\ slot[s].copy # Nothing
Doc(s) == Head(slot[s].todo)[2]

\* The file slot s reads next, and the one it is writing.
ReadsNext(s, f) ==
    \E name \in DOMAIN FileOf \ {"keep", "rollback"} :
       \/ At(s, name) /\ slot[s].copy = Nothing /\ f = FileOf[name]
       \/ Has(s, "history") /\ f = "bodyRevs"

Writing(s, f) ==
    \/ \E name \in Copying \ {"history"} : Has(s, name) /\ f = FileOf[name]
    \/ \E name \in {"keep", "rollback"} : At(s, name) /\ f = FileOf[name]

Reads(s, name) == At(s, name) /\ disk[FileOf[name]] # Torn

\* Slot s is done with its stage and holds what changed says.
Advance(s, changed) == slot' = [slot EXCEPT ![s] = [changed EXCEPT !.todo = Tail(@), !.copy = Nothing]]

\* ... and has written the file.  fs::write cuts the file short first, so one
\* that another slot is writing too may end up as neither wanted it.
Put(s, name, content, changed) ==
    /\ LET clash == \E t \in Slots \ {s} : Writing(t, FileOf[name])
       IN  \E written \in {content} \cup (IF clash THEN {Torn} ELSE {}) :
             disk' = [disk EXCEPT ![FileOf[name]] = written]
    /\ Advance(s, [changed EXCEPT !.wrote = TRUE])

-----------------------------------------------------------------------------
Init ==
    /\ disk = [mounts |-> {},
               snapshot |-> [path |-> [d \in Docs |-> NoPath], live |-> {},
                             bodies |-> [d \in Docs |-> NoBody]],
               canonical |-> [d \in Docs |-> NoState],
               events |-> <<>>, paths |-> <<>>, bodyRevs |-> <<>>,
               policies |-> [k \in {} |-> DefaultPolicy]]
    /\ slot = [s \in Slots |-> Idle]
    /\ given = {} /\ faults = 0
    /\ lost = {}
    /\ past = {[cursor |-> 0, snap |-> disk.snapshot, lost |-> {}]}

Current == IF disk.events = Torn THEN 0 ELSE Number(disk.events)

Erasable(rows, d) == {rows[i].seq : i \in {k \in DOMAIN rows : rows[k].doc = d /\ ~rows[k].erased}}

\* The requests that may be made.  Whoever changes the manifest knows the
\* current cursor, and whoever purges has just seen the preview: others are
\* refused before they write.  Ids are handed out in order; a document starts
\* with one of the texts that edits are based on.
Asked(kind) ==
    LET ask(d, p, edit, target) ==
          [kind |-> kind, doc |-> d, path |-> p, edit |-> edit, cursor |-> Current, target |-> target]
        shown(d) == IF disk.bodyRevs = Torn THEN {} ELSE Erasable(disk.bodyRevs, d)
    IN  CASE kind = "bootstrap" -> {ask(0, NoPath, Nothing, Nothing)}
          [] kind = "create" -> {ask(Min(Docs \ given), p, [text |-> t], Nothing) :
                                   p \in IF Docs = given THEN {} ELSE Paths, t \in Bases}
          [] kind = "update" -> {ask(d, NoPath, [actor |-> a, base |-> b, text |-> t], Nothing) :
                                   d \in given, a \in Actors, b \in Bases, t \in Edits}
          [] kind = "delete" -> {ask(d, NoPath, Nothing, Nothing) : d \in given}
          [] kind = "move" -> {ask(d, p, Nothing, Nothing) : d \in given, p \in Paths}
          [] kind = "restore" -> {ask(d, p, Nothing, n) : d \in given, p \in Paths, n \in 1..Current}
          [] kind = "rewind" -> {ask(0, NoPath, Nothing, c) : c \in 0..Current}
          [] kind = "purge" -> {ask(d, NoPath, Nothing, shown(d)) : d \in given}
          [] kind = "policy" -> {ask(0, NoPath, Nothing, <<k, x>>) : k \in Keys, x \in Policies \cup {Nothing}}
          [] kind = "changes" -> {ask(0, NoPath, Nothing, v) : v \in past}

Ask(s, r) ==
    /\ slot[s] = Idle /\ Current < MaxCursor
    /\ slot' = [slot EXCEPT ![s] = [Idle EXCEPT !.req = r, !.todo = Stages(r.kind, r.doc)]]
    /\ given' = IF r.kind = "create" THEN given \cup {r.doc} ELSE given
    /\ UNCHANGED <<disk, faults, lost, past>>

\* What each stage asks before it goes on.
Placing(r, snap) == r.doc \notin snap.live \/ r.path # snap.path[r.doc]

Acceptable(s) ==
    LET r == slot[s].req  snap == disk.snapshot
    IN  /\ At(s, "check") => r.cursor = Number(disk.events)
        /\ At(s, "mount") => MountOf[r.path] \in disk.mounts
        /\ At(s, "snapshot") /\ r.kind \in {"update", "delete", "move"} => r.doc \in snap.live
        /\ At(s, "snapshot") /\ r.kind \in {"create", "move"} => ~PathTaken(snap, r.path, r.doc)
        /\ At(s, "snapshot") /\ r.kind = "restore" =>
             snap.path[r.doc] # NoPath /\ (Placing(r, snap) => ~PathTaken(snap, r.path, r.doc))
        /\ At(s, "revision") =>
             \E i \in DOMAIN disk.bodyRevs : disk.bodyRevs[i].doc = r.doc /\ disk.bodyRevs[i].seq = r.target
        /\ Has(s, "bind") => slot[s].copy \in {{}, Mounts}
        /\ Has(s, "erase") => Erasable(slot[s].copy, r.doc) = r.target /\ r.target # {}

\* A refused request has read files only.
Refuse(s) ==
    /\ \A name \in {"check", "mount", "snapshot", "revision"} : At(s, name) => Reads(s, name)
    /\ slot[s] # Idle /\ ~Acceptable(s)
    /\ slot' = [slot EXCEPT ![s] = Idle]
    /\ UNCHANGED <<disk, given, faults, lost, past>>

\* Checks that leave nothing behind: the cursor, the mount, and where the live
\* entry is for the event of a purge.
Check(s) ==
    /\ \E name \in {"check", "mount", "locate"} : Reads(s, name)
    /\ Acceptable(s)
    /\ Advance(s, slot[s])
    /\ UNCHANGED <<disk, given, faults, lost, past>>

Fetch(s) ==
    /\ \E name \in Copying : Reads(s, name)
    /\ slot[s].copy = Nothing
    /\ slot' = [slot EXCEPT ![s].copy = disk[FileOf[Head(slot[s].todo)[1]]]]
    /\ UNCHANGED <<disk, given, faults, lost, past>>

-----------------------------------------------------------------------------
(* Working out the new snapshot.                                           *)

Plan(s, kind, snap, result) ==
    /\ Reads(s, "snapshot") /\ slot[s].req.kind = kind /\ Acceptable(s)
    /\ Advance(s, [slot[s] EXCEPT !.old = disk.snapshot, !.snap = snap, !.result = result])
    /\ UNCHANGED <<disk, given, faults, lost, past>>

\* What is retained, kept, and merged onto, if it is a merge.
Plain(text) == [own |-> text, state |-> Checkpoint(text), onto |-> NoState]

PlanCreate(s) ==
    LET r == slot[s].req
    IN  Plan(s, "create", [disk.snapshot EXCEPT !.path[r.doc] = r.path, !.live = @ \cup {r.doc},
                                                !.bodies[r.doc] = r.edit.text], Plain(r.edit.text))

PlanDelete(s) ==
    LET d == slot[s].req.doc
    IN  Plan(s, "delete", [disk.snapshot EXCEPT !.live = @ \ {d}, !.bodies[d] = NoBody], Nothing)

PlanMove(s) ==
    LET r == slot[s].req
    IN  Plan(s, "move", [disk.snapshot EXCEPT !.path[r.doc] = r.path], Nothing)

PlanUpdate(s) == Plan(s, "update", disk.snapshot, Nothing)

\* YrsConvergenceBodyEngine.apply_update, as in WorkspaceStore.
Converged(edit, state) ==
    LET candidate == ApplyUpdate(state, edit.actor, edit.base, edit.text)
    IN  IF state.text = edit.base THEN Plain(edit.text)
        ELSE IF HoldsText(candidate.text, state.text) /\ HoldsText(candidate.text, edit.text)
        THEN [own |-> edit.text, state |-> candidate, onto |-> state]
        ELSE Plain(UniteTexts(edit.base, state.text, edit.text))

\* load_current_state prefers the canonical row to the snapshot.
Merge(s) ==
    LET r == slot[s].req
        row == disk.canonical[r.doc]
        result == Converged(r.edit, IF row # NoState THEN row ELSE Checkpoint(Shown(slot[s].snap.bodies[r.doc])))
    IN  /\ Reads(s, "merge")
        /\ Advance(s, [slot[s] EXCEPT !.result = result, !.snap.bodies[r.doc] = result.state.text])
        /\ UNCHANGED <<disk, given, faults, lost, past>>

PlanRestore(s) ==
    LET r == slot[s].req
        stages == slot[s].todo
    IN  /\ Reads(s, "snapshot") /\ r.kind = "restore" /\ Acceptable(s)
        /\ Advance(s, [slot[s] EXCEPT
              !.old = disk.snapshot,
              !.snap = [disk.snapshot EXCEPT !.path[r.doc] = r.path, !.live = @ \cup {r.doc}],
              !.todo = IF Placing(r, disk.snapshot) THEN stages ELSE Front(stages)])
        /\ UNCHANGED <<disk, given, faults, lost, past>>

\* The revision's own text, as its replay if that reads the same.
LoadRevision(s) ==
    LET r == slot[s].req
        row == CHOOSE x \in ToSet(disk.bodyRevs) : x.doc = r.doc /\ x.seq = r.target
        state == IF row.replayed.text = row.own THEN row.replayed ELSE Checkpoint(row.own)
    IN  /\ Reads(s, "revision") /\ Acceptable(s)
        /\ Advance(s, [slot[s] EXCEPT !.result = [own |-> row.own, state |-> state, onto |-> NoState],
                                      !.snap.bodies[r.doc] = row.own])
        /\ UNCHANGED <<disk, given, faults, lost, past>>

\* build_restored_live_workspace_snapshot: who is live, where everybody is.
Placed(there, paths, revs, c, elsewhere) ==
    [path |-> [d \in Docs |-> IF HistoryPath(paths, d, c) = {} THEN elsewhere[d]
                              ELSE CHOOSE p \in HistoryPath(paths, d, c) : TRUE],
     live |-> there,
     bodies |-> [d \in Docs |-> IF d \in there THEN HistoryText(revs, d, c) ELSE NoBody]]

There(paths, c) == {d \in Docs : HistoryPath(paths, d, c) # {}}

\* Bugs: entries the history does not have at the target stay live, or lose
\* their place.
RewoundKeepsNew(old, paths, revs, c) ==
    Placed(There(paths, c) \cup {d \in old.live : PathAt(paths, d, c) = {}}, paths, revs, c, old.path)

RewoundNowhere(old, paths, revs, c) ==
    Placed(There(paths, c), paths, revs, c, [d \in Docs |-> NoPath])

Rewound(old, paths, revs, c) == Placed(There(paths, c), paths, revs, c, old.path)

BodyChanged(old, new, d) == Shown(old.bodies[d]) # Shown(new.bodies[d])

\* diff_workspace_restore_changes, in the order of document ids.
Changed(old, new) ==
    {d \in Docs : \/ d \in old.live /\ d \notin new.live
                  \/ d \in new.live /\ (d \notin old.live \/ old.path[d] # new.path[d] \/ BodyChanged(old, new, d))}

StagesOfChange(old, new, d) ==
    ForDoc(IF d \in new.live /\ BodyChanged(old, new, d)
           THEN <<"number", "event", "body", "entry", "policy", "compact", "path">>
           ELSE <<"number", "event", "path">>, d)

BeginRewind(s) == Plan(s, "rewind", disk.snapshot, Nothing)

PlanRewind(s) ==
    LET old == slot[s].old
        new == Rewound(old, slot[s].copy, disk.bodyRevs, slot[s].req.target)
        change(i) == StagesOfChange(old, new, NthOf(Changed(old, new), i))
        stages == FlattenSeq([i \in 1..Cardinality(Changed(old, new)) |-> change(i)])
    IN  /\ Has(s, "history") /\ disk.bodyRevs # Torn
        /\ Advance(s, [slot[s] EXCEPT !.snap = new, !.todo = @ \o stages])
        /\ UNCHANGED <<disk, given, faults, lost, past>>

-----------------------------------------------------------------------------
(* Writing.                                                                *)

Bind(s) ==
    /\ Has(s, "bind") /\ Acceptable(s)
    /\ Put(s, "bind", Mounts, slot[s])
    /\ UNCHANGED <<given, faults, lost, past>>

\* A bug: a document that has a row keeps it.
CanonicalKept(rows, d, state) == IF rows[d] = NoState THEN [rows EXCEPT ![d] = state] ELSE rows

Canonical(rows, d, state) == [rows EXCEPT ![d] = state]

SaveCanonical(s) ==
    /\ Has(s, "canonical")
    /\ Put(s, "canonical", Canonical(slot[s].copy, Doc(s), slot[s].result.state), slot[s])
    /\ lost' = lost \ {<<"canonical", Doc(s)>>}
    /\ UNCHANGED <<given, faults, past>>

\* A rewind brings back texts without their canonical rows.
LeftBehind(s) ==
    LET old == slot[s].old  new == slot[s].snap
    IN  IF slot[s].req.kind # "rewind" THEN {}
        ELSE {<<"canonical", d>> : d \in {e \in new.live : e \notin old.live \/ BodyChanged(old, new, e)}}

\* An empty text it brings back is no change of the body: the history gets no row of it.
Unretained(s) ==
    LET old == slot[s].old  new == slot[s].snap
    IN  IF slot[s].req.kind # "rewind" THEN {}
        ELSE {<<"body", d>> : d \in {e \in new.live \ old.live : ~BodyChanged(old, new, e)}}

KeepSnapshot(s) ==
    /\ At(s, "keep")
    /\ Put(s, "keep", slot[s].snap, slot[s])
    /\ lost' = lost \cup LeftBehind(s) \cup Unretained(s)
    /\ UNCHANGED <<given, faults, past>>

TakeNumber(s) ==
    /\ Reads(s, "number")
    /\ Advance(s, [slot[s] EXCEPT !.number = Number(disk.events) + 1])
    /\ UNCHANGED <<disk, given, faults, lost, past>>

SaveEvent(s) ==
    \E name \in {"event", "audit"} :
       /\ Has(s, name)
       /\ Put(s, name, Append(slot[s].copy, [seq |-> slot[s].number, doc |-> Doc(s), kind |-> slot[s].req.kind]),
              slot[s])
       /\ lost' = lost \ {<<name, Doc(s)>>}
       /\ UNCHANGED <<given, faults, past>>

\* The state the newest retained revision of d replays to.
HeldState(rows, d) ==
    LET mine == {i \in DOMAIN rows : rows[i].doc = d}
    IN  IF mine = {} THEN NoState ELSE rows[Max(mine)].replayed

\* A merge is replayed after the revision before it, if there is one.
ReplayedState(s, rows) ==
    LET edit == slot[s].req.edit
        held == HeldState(rows, Doc(s))
    IN  IF slot[s].result.onto # NoState /\ held # NoState
        THEN ApplyUpdate(held, edit.actor, edit.base, edit.text)
        ELSE Checkpoint(slot[s].result.own)

Revision(s, rows) ==
    LET d == Doc(s)
        text == Shown(slot[s].snap.bodies[d])
        row(own, replayed) == [seq |-> slot[s].number, doc |-> d, erased |-> FALSE,
                               own |-> own, replayed |-> replayed]
    IN  IF slot[s].req.kind = "rewind" THEN row(text, Checkpoint(text))
        ELSE row(slot[s].result.own, ReplayedState(s, rows))

\* The history does not tell the text if an edit was merged onto a state that
\* is not the one it is replayed on.
SaveRevision(s) ==
    LET rows == slot[s].copy
        blurred == /\ slot[s].req.kind = "update"
                   /\ slot[s].result.onto \notin {NoState, HeldState(rows, Doc(s))}
    IN  /\ Has(s, "body")
        /\ Put(s, "body", Append(rows, Revision(s, rows)), slot[s])
        /\ lost' = IF blurred THEN lost \cup {<<"body", Doc(s)>>} ELSE lost \ {<<"body", Doc(s)>>}
        /\ UNCHANGED <<given, faults, past>>

SavePath(s) ==
    LET d == Doc(s)
        row == [seq |-> slot[s].number, doc |-> d, path |-> slot[s].snap.path[d],
                live |-> d \in slot[s].snap.live]
    IN  /\ Has(s, "path")
        /\ Put(s, "path", Append(slot[s].copy, row), slot[s])
        /\ lost' = lost \ {<<"path", d>>}
        /\ UNCHANGED <<given, faults, past>>

SavePolicies(s) ==
    LET k == slot[s].req.target[1]
        policy == slot[s].req.target[2]
        rows == slot[s].copy
    IN  /\ Has(s, "policies")
        /\ Put(s, "policies", [x \in (DOMAIN rows \ {k}) \cup (IF policy = Nothing THEN {} ELSE {k}) |->
                                 IF x = k THEN policy ELSE rows[x]], slot[s])
        /\ UNCHANGED <<given, faults, lost, past>>

-----------------------------------------------------------------------------
(* Compaction: where the document is live, under which policy, and the      *)
(* rewriting of its revisions if that changes any.  What is found is passed *)
(* on in result.                                                           *)

FindEntry(s) ==
    LET d == Doc(s)
        skipped == SubSeq(slot[s].todo, 3, Len(slot[s].todo))
    IN  /\ Reads(s, "entry")   \* no live entry: on to what follows "compact"
        /\ Advance(s, IF d \in disk.snapshot.live
                      THEN [slot[s] EXCEPT !.result = disk.snapshot.path[d]]
                      ELSE [slot[s] EXCEPT !.todo = skipped])
        /\ UNCHANGED <<disk, given, faults, lost, past>>

FindPolicy(s) ==
    /\ Reads(s, "policy")
    /\ Advance(s, [slot[s] EXCEPT !.result = PolicyFor(slot[s].result, disk.policies)])
    /\ UNCHANGED <<disk, given, faults, lost, past>>

AsCheckpoint(r) ==
    [r EXCEPT !.own = r.replayed.text, !.replayed = Checkpoint(r.replayed.text), !.erased = FALSE]

Index(rows, i) == Cardinality({j \in 1..(i - 1) : rows[j].doc = rows[i].doc})

Compacted(rows, d, policy) ==
    LET older == Cardinality({i \in DOMAIN rows : rows[i].doc = d}) - policy.revisions
        kept == {i \in DOMAIN rows : \/ rows[i].doc # d \/ Index(rows, i) >= older
                                      \/ Index(rows, i) % policy.frequency = 0}
        row(i) == IF rows[i].doc = d THEN AsCheckpoint(rows[i]) ELSE rows[i]
    IN  IF older <= 0 THEN rows ELSE [n \in 1..Cardinality(kept) |-> row(NthOf(kept, n))]

Compact(s) ==
    LET rows == Compacted(slot[s].copy, Doc(s), slot[s].result)
    IN  /\ Has(s, "compact")
        /\ IF rows = slot[s].copy THEN Advance(s, slot[s]) /\ UNCHANGED disk
           ELSE Put(s, "compact", rows, slot[s])
        /\ UNCHANGED <<given, faults, lost, past>>

-----------------------------------------------------------------------------
(* Purging a document's retained texts.                                    *)

\* A row whose stored base and payload are cleared reads as an empty text.
Erased(r) == [r EXCEPT !.own = Empty, !.replayed = Checkpoint(Empty), !.erased = TRUE]

Erase(s) ==
    LET d == slot[s].req.doc
        rows == slot[s].copy
    IN  /\ Has(s, "erase") /\ Acceptable(s)
        /\ Put(s, "erase", [i \in DOMAIN rows |-> IF rows[i].doc = d THEN Erased(rows[i]) ELSE rows[i]],
               [slot[s] EXCEPT !.result = rows])
        /\ UNCHANGED <<given, faults, lost, past>>

RollBack(s) ==
    /\ At(s, "rollback")
    /\ Put(s, "rollback", slot[s].result, slot[s])
    /\ UNCHANGED <<given, faults, lost, past>>

-----------------------------------------------------------------------------
(* Answering which documents changed since a snapshot a client has.        *)

ReadSince(s) ==
    LET current == Number(disk.events)
    IN  /\ Reads(s, "since")
        /\ Advance(s, [slot[s] EXCEPT !.number = current,
                                      !.todo = IF current <= slot[s].req.target.cursor THEN <<Head(@)>> ELSE @])
        /\ UNCHANGED <<disk, given, faults, lost, past>>

ReadDelta(s) ==
    /\ Reads(s, "delta")
    /\ Advance(s, [slot[s] EXCEPT !.snap = disk.snapshot])
    /\ UNCHANGED <<disk, given, faults, lost, past>>

ReadChanged(s) ==
    /\ Reads(s, "changed")
    /\ Advance(s, [slot[s] EXCEPT
          !.result = {e.doc : e \in {x \in ToSet(disk.events) : x.seq > slot[s].req.target.cursor}}])
    /\ UNCHANGED <<disk, given, faults, lost, past>>

-----------------------------------------------------------------------------
(* The end of a request.                                                   *)

\* The stages a broken-off request leaves undone.  Once it has written its
\* canonical row but not its snapshot, the two differ.
Recorded == {"event", "audit", "rollback", "body", "path"}

Broken(s) ==
    IF ~slot[s].wrote THEN {}
    ELSE IF \E x \in ToSet(slot[s].todo) : x[1] = "keep" THEN {<<"canonical", slot[s].req.doc>>}
    ELSE {x \in ToSet(slot[s].todo) : x[1] \in Recorded}

Answer(s) ==
    /\ slot[s] # Idle /\ slot[s].todo = <<>>
    /\ slot' = [slot EXCEPT ![s] = Idle]
    /\ past' = IF slot[s].req.kind = "changes" \/ Torn \in {disk.events, disk.snapshot} THEN past
               ELSE past \cup {[cursor |-> Current, snap |-> disk.snapshot, lost |-> lost]}
    /\ UNCHANGED <<disk, given, faults, lost>>

\* Where a request goes when it fails: only a purge that cannot append its
\* event takes its writing back.
FailureStages(s) ==
    IF At(s, "audit") THEN <<<<"rollback", Doc(s)>>>> ELSE <<>>

BreakOff(s) ==
    LET undo == FailureStages(s)
    IN  /\ slot' = [slot EXCEPT ![s] = IF undo = <<>> THEN Idle ELSE [@ EXCEPT !.todo = undo, !.copy = Nothing]]
        /\ lost' = IF undo = <<>> THEN lost \cup Broken(s) ELSE lost

\* A file cut short, or being written by another request, does not parse.
Fail(s) ==
    /\ \E f \in DOMAIN disk :
          /\ ReadsNext(s, f)
          /\ disk[f] = Torn \/ \E t \in Slots \ {s} : Writing(t, f)
    /\ BreakOff(s)
    /\ UNCHANGED <<disk, given, faults, past>>

\* The disk refuses the writing of a file, at once or half way.
FailToWrite(s) ==
    /\ faults < MaxFaults
    /\ \E f \in DOMAIN disk : Writing(s, f) /\ disk' \in {disk, [disk EXCEPT ![f] = Torn]}
    /\ BreakOff(s)
    /\ faults' = faults + 1
    /\ UNCHANGED <<given, past>>

\* The server is killed and restarted; files being written may be cut short.
Crash(torn) ==
    /\ faults < MaxFaults
    /\ \E s \in Slots : slot[s].todo # <<>>
    /\ faults' = faults + 1
    /\ disk' = [f \in DOMAIN disk |-> IF f \in torn THEN Torn ELSE disk[f]]
    /\ slot' = [s \in Slots |-> Idle]
    /\ lost' = lost \cup UNION {Broken(s) : s \in Slots}
    /\ UNCHANGED <<given, past>>

Work(s) ==
    \/ Check(s) \/ Fetch(s) \/ Refuse(s) \/ Fail(s) \/ FailToWrite(s) \/ Answer(s)
    \/ PlanCreate(s) \/ PlanDelete(s) \/ PlanMove(s) \/ PlanUpdate(s) \/ Merge(s)
    \/ PlanRestore(s) \/ LoadRevision(s) \/ BeginRewind(s) \/ PlanRewind(s)
    \/ Bind(s) \/ SaveCanonical(s) \/ KeepSnapshot(s) \/ TakeNumber(s) \/ SaveEvent(s)
    \/ SaveRevision(s) \/ SavePath(s) \/ SavePolicies(s)
    \/ FindEntry(s) \/ FindPolicy(s) \/ Compact(s) \/ Erase(s) \/ RollBack(s)
    \/ ReadSince(s) \/ ReadDelta(s) \/ ReadChanged(s)

Next ==
    \/ \E s \in Slots : Work(s)
    \/ \E s \in Slots : \E kind \in Serves[s] : \E r \in Asked(kind) : Ask(s, r)
    \/ \E torn \in SUBSET {f \in DOMAIN disk : \E s \in Slots : Writing(s, f)} : Crash(torn)

Spec == Init /\ [][Next]_vars

-----------------------------------------------------------------------------
(* Correctness.                                                            *)

Writers == {s \in Slots : slot[s] # Idle /\ slot[s].req.kind # "changes"}
Whole(files) == \A f \in files : disk[f] # Torn

\* Every file is cut short or has the shape its reader expects.
TypeOK ==
    /\ Whole({"mounts"}) => disk.mounts \in {{}, Mounts}
    /\ Whole({"snapshot"}) => /\ disk.snapshot.path \in [Docs -> Paths \cup {NoPath}]
                              /\ \A d \in disk.snapshot.live : disk.snapshot.path[d] # NoPath
                              /\ DOMAIN disk.snapshot.bodies = Docs
    /\ Whole({"canonical"}) => DOMAIN disk.canonical = Docs
    /\ Whole({"events"}) => \A e \in ToSet(disk.events) : e.seq \in Nat /\ e.doc \in Docs
    /\ Whole({"paths"}) => \A r \in ToSet(disk.paths) : r.seq \in Nat /\ r.doc \in Docs /\ r.path \in Paths
    /\ Whole({"bodyRevs"}) => \A r \in ToSet(disk.bodyRevs) : r.seq \in Nat /\ r.doc \in Docs
    /\ Whole({"policies"}) => DOMAIN disk.policies \subseteq Keys
    /\ faults \in 0..MaxFaults /\ given \subseteq Docs

\* Served one at a time, and whatever crashes and cut files there were, no two
\* changes share a number and no row of the history is of another change's:
\* a number taken by a request that broke off is not taken again.
NumbersUnique ==
    Whole({"events"}) =>
      /\ \A i, j \in DOMAIN disk.events : disk.events[i].seq = disk.events[j].seq => i = j
      /\ \A f \in {"paths", "bodyRevs"} : Whole({f}) =>
           \A r \in ToSet(disk[f]) : \E e \in ToSet(disk.events) : e.seq = r.seq /\ e.doc = r.doc

\* The texts of d up to cursor c were purged since, or their purging broke off.
Purged(d, c) ==
    \/ {<<"audit", d>>, <<"rollback", d>>} \cap lost # {}
    \/ \E e \in ToSet(disk.events) :
         e.kind = "purge" /\ e.doc = d /\ \A r \in BodyAt(disk.bodyRevs, d, c) : r.seq < e.seq

\* The history shows every finished request's snapshot again, except for what
\* broke off before its rows were written and nothing has written since.  A
\* text that has gone from it was purged, and an event says so.
HistoryRemembers ==
    Writers = {} /\ Whole({"paths", "bodyRevs", "events"}) =>
      \A v \in past : \A d \in Docs :
         /\ <<"path", d>> \notin v.lost =>
              HistoryPath(disk.paths, d, v.cursor) = {v.snap.path[x] : x \in {d} \cap v.snap.live}
         /\ d \in v.snap.live /\ <<"body", d>> \notin v.lost =>
              \/ Shown(HistoryText(disk.bodyRevs, d, v.cursor)) = Shown(v.snap.bodies[d])
              \/ Purged(d, v.cursor)

\* A rewind that runs to its end shows the snapshot of its target again.
RewindPutsBack ==
    \A s \in Slots : \A v \in past :
      slot[s].req.kind = "rewind" /\ slot[s].todo = <<>> /\ slot[s].req.target = v.cursor
      /\ Whole({"snapshot", "events", "bodyRevs"}) =>
         \A d \in Docs :
            /\ <<"path", d>> \notin v.lost => (d \in disk.snapshot.live <=> d \in v.snap.live)
            /\ <<"path", d>> \notin v.lost /\ d \in v.snap.live => disk.snapshot.path[d] = v.snap.path[d]
            /\ {<<"path", d>>, <<"body", d>>} \cap v.lost = {} =>
                 Shown(disk.snapshot.bodies[d]) = Shown(v.snap.bodies[d]) \/ Purged(d, v.cursor)

\* The canonical row of a live document reads as its snapshot text, so that an
\* edit based on that text replaces it, unless a request broke off between the
\* two or a rewind has changed the text since.
BodiesAgree ==
    Writers = {} /\ Whole({"snapshot", "canonical"}) =>
      \A d \in disk.snapshot.live :
         <<"canonical", d>> \notin lost =>
           /\ disk.canonical[d] # NoState
           /\ disk.canonical[d].text = Shown(disk.snapshot.bodies[d])

\* A client that applies an answer to the snapshot it has misses nothing that
\* is not numbered above the answer's cursor or still being written: files
\* change while they are read, but the cursor is read first.
View(snap, d) == <<snap.path[d], d \in snap.live, Shown(snap.bodies[d])>>

ChangesComplete ==
    \A s \in Slots :
      LET answer == slot[s]  v == slot[s].req.target
          under(d) == \E w \in Writers : \E x \in ToSet(slot[w].todo) : x[2] = d
      IN  answer.req.kind = "changes" /\ answer.todo = <<>> /\ Whole({"snapshot", "events"}) =>
            \A d \in Docs :
              \/ <<"event", d>> \in lost \/ under(d)
              \/ \E e \in ToSet(disk.events) : e.doc = d /\ e.seq > answer.number
              \/ View(disk.snapshot, d) =
                   IF answer.snap # Nothing /\ d \in answer.result THEN View(answer.snap, d) ELSE View(v.snap, d)

\* What the documentation says of this store and its code does not do.

\* Manifest-changing document writes reject stale workspace cursors
\* (specs/server.rs:28): one accepted at a cursor is the next change.
StaleWritesRefused ==
    \A s \in Slots :
      slot[s].req.kind \in {"create", "delete", "move"} /\ slot[s].number # 0 =>
        slot[s].number = slot[s].req.cursor + 1

\* A rewind makes the reconstructed state the current server state
\* (specs/history.rs:66): an edit based on the text shown then replaces it.
EditsApply ==
    \A s \in Slots :
      LET r == slot[s].req
      IN  r.kind = "update" /\ At(s, "keep") /\ r.edit.base = slot[s].old.bodies[r.doc] =>
            slot[s].snap.bodies[r.doc] = r.edit.text
=============================================================================
