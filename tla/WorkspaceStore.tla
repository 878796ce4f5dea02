--------------------------- MODULE WorkspaceStore ---------------------------
(***************************************************************************)
(* The SQLite workspace store of the projector server, for one workspace:  *)
(* its manifest of documents, their bodies, the workspace cursor, and the  *)
(* append-only history (provenance events, path revisions, retained body   *)
(* revisions) from which documents are restored and the whole workspace is *)
(* rewound.                                                                *)
(*                                                                         *)
(* Every operation takes the store's mutex and runs in one SQLite          *)
(* transaction (sqlite/mod.rs:46-258), so every operation is one action.   *)
(* A request the store refuses leaves no trace, so only accepted requests  *)
(* are actions: a write that needs based_on_cursor is accepted exactly     *)
(* when that is the current cursor.                                        *)
(*                                                                         *)
(* A body state is its materialized text and the shape of the CRDT it is    *)
(* stored as.  How edits converge is left to constant operators, which     *)
(* BodyText gives the code's meaning: the store only asks what a text      *)
(* contains.                                                               *)
(***************************************************************************)
EXTENDS Naturals, FiniteSets

CONSTANTS
    Docs,            \* document ids; they sort as numbers
    Mounts, Paths,   \* bindable mounts; document paths, some maybe unbindable
    MountOf,         \* the mount part of a path
    Keys, Chain,     \* policy keys; a path's keys, nearest first
    Policies, DefaultPolicy,
    Actors,
    Edits, Bases,    \* the texts requests carry, as new and as base text
    Empty,           \* the empty text
    Flat(_), ApplyUpdate(_, _, _, _), Contains(_, _), Union(_, _, _),
    NoPath, NoBody, NoState, Unbound,   \* absent values
    AnyCursor,       \* may a rewind target a cursor inside another rewind?
    ReviveEmpty,     \* may a rewind revive a document with an empty text?
    MaxCursor        \* bound: no operation starts at this cursor

Policy == [revisions : Nat \ {0}, frequency : Nat \ {0}]

ASSUME PlacesAssumption ==
    /\ Docs \subseteq Nat /\ IsFiniteSet(Docs)
    /\ MountOf \in [Paths -> Mounts]
    /\ NoPath \notin Paths /\ NoBody \notin Edits
    /\ Unbound \notin SUBSET Mounts
    /\ AnyCursor \in BOOLEAN /\ ReviveEmpty \in BOOLEAN /\ MaxCursor \in Nat

ASSUME PolicyAssumption ==
    /\ Policies \subseteq Policy /\ DefaultPolicy \in Policy
    /\ \A p \in Paths : \A i \in DOMAIN Chain[p] : i \in Nat /\ Chain[p][i] \in Keys

VARIABLES
    mounts,      \* metadata.mounts of the workspace row, or Unbound
    path,        \* manifest entries: the path of every document ever created
    live,        \* ... and the documents whose entry is not deleted
    bodies,      \* snapshot.bodies
    canonical,   \* canonical_bodies rows
    cursor,      \* the workspace cursor
    events,      \* provenance event rows
    pathRevs,    \* path_revisions rows
    bodyRevs,    \* body_revisions rows
    policies,    \* history_compaction_policies rows
    past,        \* history variable: the live view at the end of each operation
    blurred      \* history variable: documents merged onto a state their
                 \* history no longer holds

vars == <<mounts, path, live, bodies, canonical, cursor, events, pathRevs,
          bodyRevs, policies, past, blurred>>

Kinds == {"created", "updated", "deleted", "moved"}
Checkpoint(text) == [text |-> text, shape |-> Flat(text)]

Known == {d \in Docs : path[d] # NoPath}

-----------------------------------------------------------------------------
(* Reading the history back.                                               *)

\* Of each document's revisions numbered up to c, the one with the highest number.
Newest(revs, c) ==
    {r \in revs : /\ r.seq <= c
                  /\ \A s \in revs : s.doc = r.doc /\ s.seq <= c => s.seq <= r.seq}

\* A bug: the revision written at c itself is left out.
LatestPathsBefore(c) == IF c = 0 THEN {} ELSE Newest(pathRevs, c - 1)

LatestPaths(c) == Newest(pathRevs, c)

HistoryPaths(c) == {<<r.doc, r.path>> : r \in {s \in LatestPaths(c) : s.live}}

DocRevs(d) == {r \in bodyRevs : r.doc = d}

LatestBody(d, c) == Newest(DocRevs(d), c)

HistoryLive(c) == {d \in Docs : \E p \in Paths : <<d, p>> \in HistoryPaths(c)}

HistoryBody(d, c) ==
    IF d \in HistoryLive(c) /\ LatestBody(d, c) # {}
    THEN (CHOOSE r \in LatestBody(d, c) : TRUE).replayed.text
    ELSE NoBody

LivePaths == {<<d, path[d]>> : d \in live}

-----------------------------------------------------------------------------
(* Retained body history and its compaction.                               *)

PolicyFor(p) ==
    LET set == {i \in DOMAIN Chain[p] : Chain[p][i] \in DOMAIN policies}
        nearest == CHOOSE i \in set : \A j \in set : i <= j
    IN  IF set = {} THEN DefaultPolicy ELSE policies[Chain[p][nearest]]

Index(r, revs) == Cardinality({s \in revs : s.seq < r.seq})

AsCheckpoint(r) ==
    [r EXCEPT !.own = r.replayed.text, !.replayed = Checkpoint(r.replayed.text)]

\* Bugs of the window: the oldest revisions kept instead of the newest, the
\* samples taken from the other end of the stride, the window one too short.
CompactNewest(revs, policy) ==
    IF Cardinality(revs) <= policy.revisions THEN revs
    ELSE {AsCheckpoint(r) : r \in {x \in revs : Index(x, revs) < policy.revisions}}

CompactOffStride(revs, policy) ==
    LET older == Cardinality(revs) - policy.revisions
        kept  == {r \in revs : \/ Index(r, revs) >= older
                               \/ (Index(r, revs) + 1) % policy.frequency = 0}
    IN  IF Cardinality(revs) <= policy.revisions THEN revs
        ELSE {AsCheckpoint(r) : r \in kept}

CompactOneMore(revs, policy) ==
    LET older == 1 + Cardinality(revs) - policy.revisions
        kept  == {r \in revs : \/ Index(r, revs) >= older
                               \/ Index(r, revs) % policy.frequency = 0}
    IN  IF Cardinality(revs) <= policy.revisions THEN revs
        ELSE {AsCheckpoint(r) : r \in kept}

Compact(revs, policy) ==
    LET older == Cardinality(revs) - policy.revisions
        kept  == {r \in revs : \/ Index(r, revs) >= older
                               \/ Index(r, revs) % policy.frequency = 0}
    IN  IF Cardinality(revs) <= policy.revisions THEN revs
        ELSE {AsCheckpoint(r) : r \in kept}

CheckpointRev(s, d, text) ==
    [seq |-> s, doc |-> d, own |-> text, replayed |-> Checkpoint(text)]

\* The history of r's document once r is appended while its entry is at p.
Appended(r, p) == Compact(DocRevs(r.doc) \cup {r}, PolicyFor(p))

AppendBody(r, p) ==
    bodyRevs' = (bodyRevs \ DocRevs(r.doc)) \cup Appended(r, p)

\* write_current_state, and the bug of never overwriting the canonical row.
WriteBodyOnce(d, state) ==
    /\ bodies' = [bodies EXCEPT ![d] = state.text]
    /\ canonical' = [canonical EXCEPT ![d] = IF @ = NoState THEN state ELSE @]

WriteBody(d, state) ==
    /\ bodies' = [bodies EXCEPT ![d] = state.text]
    /\ canonical' = [canonical EXCEPT ![d] = state]

AppendEvent(d, kind) ==
    /\ cursor' = cursor + 1
    /\ events' = events \cup {[seq |-> cursor + 1, doc |-> d, kind |-> kind]}

AppendPath(d, p, isLive) ==
    pathRevs' = pathRevs \cup {[seq |-> cursor + 1, doc |-> d, path |-> p, live |-> isLive]}

Remember ==
    past' = {v \in past : v.cursor # cursor'} \cup
              {[cursor |-> cursor', paths |-> LivePaths', bodies |-> bodies',
                blurred |-> blurred']}

\* A bug: only deleted entries hold their path.
PathTakenByDeleted(p, d) == \E e \in (Known \ live) \ {d} : path[e] = p

PathTaken(p, d) == \E e \in live \ {d} : path[e] = p

-----------------------------------------------------------------------------
Init ==
    /\ mounts = Unbound
    /\ path = [d \in Docs |-> NoPath]
    /\ live = {}
    /\ bodies = [d \in Docs |-> NoBody]
    /\ canonical = [d \in Docs |-> NoState]
    /\ cursor = 0
    /\ events = {} /\ pathRevs = {} /\ bodyRevs = {}
    /\ policies = [k \in {} |-> DefaultPolicy]
    /\ past = {[cursor |-> 0, paths |-> {}, bodies |-> [d \in Docs |-> NoBody],
                blurred |-> {}]}
    /\ blurred = {}

Open == mounts # Unbound /\ cursor < MaxCursor

\* A later bootstrap must name the same mounts and changes nothing modelled.
Bootstrap(ms) ==
    /\ mounts = Unbound
    /\ mounts' = ms
    /\ UNCHANGED <<path, live, bodies, canonical, cursor, events, pathRevs, bodyRevs,
                   policies, past, blurred>>

CreateDocument(d, p, text) ==
    /\ Open /\ d \notin Known
    /\ MountOf[p] \in mounts
    /\ ~PathTaken(p, d)
    /\ path' = [path EXCEPT ![d] = p]
    /\ live' = live \cup {d}
    /\ WriteBody(d, Checkpoint(text))
    /\ AppendEvent(d, "created")
    /\ AppendBody(CheckpointRev(cursor + 1, d, text), p)
    /\ AppendPath(d, p, TRUE)
    /\ UNCHANGED <<mounts, policies, blurred>>
    /\ Remember

\* YrsConvergenceBodyEngine.apply_update: an up-to-date edit replaces the text;
\* a concurrent one is merged by the CRDT if the result still contains both
\* texts, and otherwise by the deterministic union of the two.
Converged(a, base, text, state) ==
    LET candidate == ApplyUpdate(state, a, base, text)
    IN  IF state.text = base THEN [merge |-> FALSE, state |-> Checkpoint(text)]
        ELSE IF Contains(candidate.text, state.text) /\ Contains(candidate.text, text)
        THEN [merge |-> TRUE, state |-> candidate]
        ELSE [merge |-> FALSE, state |-> Checkpoint(Union(base, state.text, text))]

\* The state the newest retained revision of d replays to.
HeldState(d) == (CHOOSE r \in LatestBody(d, cursor) : TRUE).replayed

\* A merge is retained as the edit itself: alone it reads as the edited text,
\* replayed after the revision before it as that revision's state, merged.
\* A bug: the edit is replayed on nothing.
MergeRevAlone(s, d, a, base, text) ==
    [seq |-> s, doc |-> d, own |-> text, replayed |-> Checkpoint(text)]

MergeRev(s, d, a, base, text) ==
    [seq |-> s, doc |-> d, own |-> text,
     replayed |-> ApplyUpdate(HeldState(d), a, base, text)]

\* No cursor is asked of a body update: any base text is welcome.
UpdateDocument(d, a, base, text) ==
    LET result == Converged(a, base, text, canonical[d])
        rev == IF result.merge THEN MergeRev(cursor + 1, d, a, base, text)
               ELSE CheckpointRev(cursor + 1, d, result.state.text)
    IN  /\ Open /\ d \in live
        /\ WriteBody(d, result.state)
        /\ AppendEvent(d, "updated")
        /\ AppendBody(rev, path[d])
        /\ blurred' = IF ~result.merge THEN blurred \ {d}
                      ELSE IF HeldState(d) # canonical[d] THEN blurred \cup {d}
                      ELSE blurred
        /\ UNCHANGED <<mounts, path, live, pathRevs, policies>>
        /\ Remember

\* The canonical row stays behind when the snapshot body goes.
DeleteDocument(d) ==
    /\ Open /\ d \in live
    /\ live' = live \ {d}
    /\ bodies' = [bodies EXCEPT ![d] = NoBody]
    /\ AppendEvent(d, "deleted")
    /\ AppendPath(d, path[d], FALSE)
    /\ UNCHANGED <<mounts, path, canonical, bodyRevs, policies, blurred>>
    /\ Remember

MoveDocument(d, p) ==
    /\ Open /\ d \in live
    /\ MountOf[p] \in mounts
    /\ ~PathTaken(p, d)
    /\ path' = [path EXCEPT ![d] = p]
    /\ AppendEvent(d, "moved")
    /\ AppendPath(d, p, TRUE)
    /\ UNCHANGED <<mounts, live, bodies, canonical, bodyRevs, policies, blurred>>
    /\ Remember

\* Bring back the text of revision r, at path p. No cursor and no bound mount
\* is asked for. The text is the revision's own: its replay is used only when
\* it reads the same.
RestoreDocument(d, r, p) ==
    LET target  == IF r.replayed.text = r.own THEN r.replayed ELSE Checkpoint(r.own)
        placing == d \notin live \/ p # path[d]
    IN  /\ Open /\ d \in Known /\ r \in DocRevs(d)
        /\ placing => ~PathTaken(p, d)
        /\ path' = [path EXCEPT ![d] = p]
        /\ live' = live \cup {d}
        /\ WriteBody(d, target)
        /\ AppendEvent(d, "updated")
        /\ AppendBody(CheckpointRev(cursor + 1, d, r.own), p)
        /\ IF placing THEN AppendPath(d, p, TRUE) ELSE UNCHANGED pathRevs
        /\ blurred' = blurred \ {d}
        /\ UNCHANGED <<mounts, policies>>
        /\ Remember

-----------------------------------------------------------------------------
(* Rewinding the workspace to cursor c.  The plan compares the live         *)
(* snapshot with the one reconstructed at c; a document the history does    *)
(* not show live at c is deleted where it is.                               *)

\* A bug: a document that is live stays where it is.
RewoundPathIfGone(d, c) ==
    IF d \in HistoryLive(c) \ live THEN CHOOSE p \in Paths : <<d, p>> \in HistoryPaths(c) ELSE path[d]

RewoundPath(d, c) ==
    IF d \in HistoryLive(c) THEN CHOOSE p \in Paths : <<d, p>> \in HistoryPaths(c) ELSE path[d]

\* A document without a body compares as the empty text.
Comparable(body) == IF body = NoBody THEN Empty ELSE body

BodyChanged(d, c) == Comparable(bodies[d]) # Comparable(HistoryBody(d, c))

\* classify_restore_change: the event of d's change, if it changes at all.
\* Bugs: a mere move is no change; the summary code is used as the kind.
ChangeKindNoMove(d, c) ==
    CASE d \in live /\ d \notin HistoryLive(c) -> {"deleted"}
      [] d \notin live /\ d \in HistoryLive(c) -> {"created"}
      [] d \in live /\ d \in HistoryLive(c) /\ BodyChanged(d, c) -> {"updated"}
      [] OTHER -> {}

ChangeKindSummary(d, c) ==
    IF d \in HistoryLive(c) /\ d \notin live THEN {"workspace_restored"} ELSE ChangeKindNoMove(d, c)

ChangeKind(d, c) ==
    CASE d \in live /\ d \notin HistoryLive(c) -> {"deleted"}
      [] d \notin live /\ d \in HistoryLive(c) -> {"created"}
      [] d \in live /\ d \in HistoryLive(c) /\ RewoundPath(d, c) # path[d] -> {"moved"}
      [] d \in live /\ d \in HistoryLive(c) /\ RewoundPath(d, c) = path[d]
           /\ BodyChanged(d, c) -> {"updated"}
      [] OTHER -> {}

Changed(c) == {d \in Docs : ChangeKind(d, c) # {}}

\* Changes are numbered in document order; a bug: they share one number.
ChangeSeqShared(d, c) == cursor + Cardinality(Changed(c))

ChangeSeq(d, c) == cursor + Cardinality({e \in Changed(c) : e <= d})

Rewritten(c) == {d \in Changed(c) \cap HistoryLive(c) : BodyChanged(d, c)}

\* Compaction reads the workspace row, which is saved only after the loop:
\* it sees the entries as they were before the rewind.
RewoundRevs(d, c) ==
    LET text == Comparable(HistoryBody(d, c))
        rev == CheckpointRev(ChangeSeq(d, c), d, text)
    IN  IF d \notin Rewritten(c) THEN DocRevs(d)
        ELSE IF d \in live THEN Appended(rev, path[d])
        ELSE DocRevs(d) \cup {rev}

RestoreWorkspace(c) ==
    /\ Open /\ c \in 0..cursor
    /\ AnyCursor \/ \E v \in past : v.cursor = c
    /\ ReviveEmpty \/ \A d \in HistoryLive(c) \ live : HistoryBody(d, c) # Empty
    /\ path' = [d \in Docs |-> RewoundPath(d, c)]
    /\ live' = HistoryLive(c)
    /\ bodies' = [d \in Docs |-> HistoryBody(d, c)]
    /\ canonical' = [d \in Docs |-> IF HistoryBody(d, c) = NoBody THEN canonical[d]
                                    ELSE Checkpoint(HistoryBody(d, c))]
    /\ cursor' = cursor + Cardinality(Changed(c))
    /\ events' = events \cup
         UNION {{[seq |-> ChangeSeq(d, c), doc |-> d, kind |-> k] : k \in ChangeKind(d, c)} : d \in Docs}
    /\ pathRevs' = pathRevs \cup
         {[seq |-> ChangeSeq(d, c), doc |-> d, path |-> RewoundPath(d, c),
           live |-> d \in HistoryLive(c)] : d \in Changed(c)}
    /\ bodyRevs' = UNION {RewoundRevs(d, c) : d \in Docs}
    /\ blurred' = blurred \ Rewritten(c)
    /\ UNCHANGED <<mounts, policies>>
    /\ Remember

-----------------------------------------------------------------------------
\* Compaction policies: changing one compacts nothing by itself.
SetPolicy(k, policy) ==
    /\ Open
    /\ policies' = [x \in DOMAIN policies \cup {k} |-> IF x = k THEN policy ELSE policies[x]]
    /\ UNCHANGED <<mounts, path, live, bodies, canonical, cursor, events, pathRevs,
                   bodyRevs, past, blurred>>

ClearPolicy(k) ==
    /\ Open /\ k \in DOMAIN policies
    /\ policies' = [x \in DOMAIN policies \ {k} |-> policies[x]]
    /\ UNCHANGED <<mounts, path, live, bodies, canonical, cursor, events, pathRevs,
                   bodyRevs, past, blurred>>

Next ==
    \/ \E ms \in SUBSET Mounts : Bootstrap(ms)
    \/ \E d \in Docs, p \in Paths, t \in Edits : CreateDocument(d, p, t)
    \/ \E d \in Docs, a \in Actors, b \in Bases, t \in Edits : UpdateDocument(d, a, b, t)
    \/ \E d \in Docs : DeleteDocument(d)
    \/ \E d \in Docs, p \in Paths : MoveDocument(d, p)
    \/ \E d \in Docs : \E r \in DocRevs(d), p \in Paths : RestoreDocument(d, r, p)
    \/ \E c \in 0..cursor : RestoreWorkspace(c)
    \/ \E k \in Keys, policy \in Policies : SetPolicy(k, policy)
    \/ \E k \in Keys : ClearPolicy(k)

Spec == Init /\ [][Next]_vars

-----------------------------------------------------------------------------
(* Correctness.                                                            *)

\* Texts and shapes are opaque to the store.
BodyRevShaped(r) == DOMAIN r = {"seq", "doc", "own", "replayed"} /\ r.seq \in Nat /\ r.doc \in Docs
PathRev == [seq : Nat, doc : Docs, path : Paths, live : BOOLEAN]
ViewShaped(v) == v.cursor \in Nat /\ v.paths \subseteq Docs \X Paths /\ DOMAIN v.bodies = Docs
Event   == [seq : Nat, doc : Docs, kind : Kinds]

\* Every row has the shape its table gives it (sqlite/state.rs).
TypeOK ==
    /\ mounts \in (SUBSET Mounts) \cup {Unbound}
    /\ path \in [Docs -> Paths \cup {NoPath}]
    /\ live \in SUBSET Known
    /\ DOMAIN bodies = Docs /\ DOMAIN canonical = Docs
    /\ cursor \in Nat
    /\ \A e \in events : e \in Event
    /\ \A r \in pathRevs : r \in PathRev
    /\ \A r \in bodyRevs : BodyRevShaped(r)
    /\ DOMAIN policies \subseteq Keys /\ \A k \in DOMAIN policies : policies[k] \in Policies
    /\ \A v \in past : ViewShaped(v)
    /\ blurred \subseteq Docs

\* No two live documents are at one path.  Create, move and document restore
\* each refuse a taken path (path_taken); a rewind places many documents at
\* once and checks none of them.
LivePathsUnique == \A d, e \in live : path[d] = path[e] => d = e

\* The three stores of a body agree: a live document's snapshot text is what
\* its canonical row, which updates are merged onto, reads as, and only live
\* documents have one.
BodiesAgree ==
    \A d \in Docs : IF d \in live THEN canonical[d] # NoState /\ bodies[d] = canonical[d].text
                    ELSE bodies[d] = NoBody

\* The path history is a time machine: reconstructed at the cursor of any
\* finished operation it shows the documents that were live then, where they
\* were then, however much was moved, deleted, restored or rewound since.
PathsRemembered == \A v \in past : HistoryPaths(v.cursor) = v.paths

\* ... and, while nothing has been compacted, with the texts they had then.
BodiesRemembered ==
    \A v \in past : \A d \in Docs \ v.blurred : HistoryBody(d, v.cursor) = v.bodies[d]

\* Compaction or not, the newest retained revision of a live document replays
\* to its current text, unless an edit was merged onto a state the history
\* had flattened: then replaying the edit may place it elsewhere.
NewestRevisionIsCurrent ==
    \A d \in live \ blurred : HistoryBody(d, cursor) = bodies[d]

\* Compaction never leaves a version without text: a document that was live
\* at the end of an operation keeps a revision at or before it.
EveryVersionHasText ==
    \A v \in past : \A d \in HistoryLive(v.cursor) : LatestBody(d, v.cursor) # {}

\* The cursor numbers the events without gap or reuse, and each row of the
\* history belongs to the event of its own document with its number.
HistoryAnchored ==
    /\ {e.seq : e \in events} = 1..cursor
    /\ \A e, f \in events : e.seq = f.seq => e = f
    /\ \A r \in pathRevs \cup bodyRevs : \E e \in events : e.seq = r.seq /\ e.doc = r.doc

\* The store gives its clients the workspace they are written against: unique
\* paths, a cursor that advances with every change, and an event past the old
\* cursor for every document that appears, disappears, moves or changes text,
\* from which changes_since is answered.
Shared == INSTANCE SharedWorkspace WITH
    text <- bodies, NoText <- NoBody,
    stamp <- [d \in Docs |-> CHOOSE s \in 0..cursor :
                /\ s = 0 \/ \E e \in events : e.doc = d /\ e.seq = s
                /\ \A e \in events : e.doc = d => e.seq <= s]

ImplementsShared == Shared!SharedSpec

\* A rewind to the end of an operation puts exactly the documents that were
\* live then where they were then: as recorded then, not as the store
\* reconstructs it now ...
RewindPutsBack == [][\A v \in past : RestoreWorkspace(v.cursor) => LivePaths' = v.paths]_vars

\* ... and gives them the texts they had.
RewindRewrites ==
    [][\A v \in past : RestoreWorkspace(v.cursor) =>
         \A d \in Docs \ v.blurred : bodies'[d] = v.bodies[d]]_vars

\* A policy of N revisions keeps the N newest revisions of a document in its
\* history: an operation on other documents, or a later append to this one,
\* may rewrite them but not drop them.
RecentRevisionsKept ==
    [][\A d \in live \cap live' : path'[d] = path[d] =>
         \A r \in DocRevs(d) :
            Cardinality({s \in DocRevs(d)' : s.seq > r.seq}) < PolicyFor(path[d]).revisions
              => \E s \in DocRevs(d)' : s.seq = r.seq]_vars

\* History storage "enforces the effective path-scoped history compaction
\* policy during retained body-history writes" (specs/history.rs:93): a step
\* leaves a document the recent revisions the policy of its path asks for.  The
\* code does not: a rewind compacts by the policy of the path it moves it from.
WindowFollowsPath ==
    [][\A d \in live \cap live' : \A r \in DocRevs(d) :
         Cardinality({s \in DocRevs(d)' : s.seq > r.seq}) < PolicyFor(path[d])'.revisions
           => \E s \in DocRevs(d)' : s.seq = r.seq]_vars
=============================================================================
