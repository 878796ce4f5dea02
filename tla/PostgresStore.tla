--------------------------- MODULE PostgresStore ---------------------------
(***************************************************************************)
(* The Postgres workspace store of the projector server, for one           *)
(* workspace.  It promises what the SQLite store promises and keeps more:  *)
(* the body a client is served (document_body_snapshots.body_text), the    *)
(* state updates are merged onto (yjs_state and, after it, the rows of     *)
(* document_body_updates), and the retained revisions, which this module   *)
(* also purges and redacts.                                                *)
(*                                                                         *)
(* The server holds its one connection under a mutex and runs an operation *)
(* in one transaction (postgres_store.rs), so an operation is one action,  *)
(* and an operation that is refused or dies leaves nothing but a number    *)
(* drawn from the event sequence, which all workspaces share.  Event kinds *)
(* and summaries are left out, as are revision ids: they order rows as the *)
(* event numbers do.                                                       *)
(***************************************************************************)
EXTENDS Naturals, FiniteSets, Sequences

CONSTANTS
    Docs,            \* document ids; they sort as numbers
    Mounts, Paths,   \* mounts; document paths
    MountOf,         \* the mount part of a path
    Keys, Chain,     \* policy keys; a path's keys, nearest first
    Policies, DefaultPolicy,
    Actors, Editor,  \* clients; whom a redacted edit is ascribed to
    Edits, Bases,    \* the texts requests carry, as new and as base text
    Secrets,         \* the texts redactions name
    Empty,           \* the empty text
    Flat(_), ApplyUpdate(_, _, _, _), Contains(_, _), Union(_, _, _),
    Redacted(_, _),  \* str::replace of a secret by the redaction marker
    NoPath, NoBody, NoState,            \* absent values
    PurgeLogged,     \* may a document be purged while updates are logged?
    ReviveEmpty,     \* may a rewind revive a document with an empty text?
    MaxNumber        \* bound: no operation starts at this event number

Policy == [revisions : Nat \ {0}, frequency : Nat \ {0}]

ASSUME PlacesAssumption ==
    /\ Docs \subseteq Nat /\ IsFiniteSet(Docs)
    /\ MountOf \in [Paths -> Mounts]
    /\ NoPath \notin Paths /\ NoBody \notin Edits
    /\ PurgeLogged \in BOOLEAN /\ ReviveEmpty \in BOOLEAN /\ MaxNumber \in Nat

ASSUME PolicyAssumption ==
    /\ Policies \subseteq Policy /\ DefaultPolicy \in Policy
    /\ \A p \in Paths : \A i \in DOMAIN Chain[p] : i \in Nat /\ Chain[p][i] \in Keys

VARIABLES
    mounts,      \* workspace_mounts rows
    path,        \* document_paths: the path of every document ever created
    live,        \* ... and the documents whose row is not deleted
    served,      \* document_body_snapshots.body_text
    held,        \* document_body_snapshots.yjs_state
    log,         \* each document's document_body_updates rows
    number,      \* the last number drawn from provenance_events.seq
    events,      \* this workspace's provenance_events rows
    pathRevs,    \* document_path_history rows
    history,     \* each document's document_body_revisions rows
    policies,    \* history_compaction_policies rows
    past,        \* history variable: the live view at the end of each operation
    blurred      \* history variable: documents merged onto a state their
                 \* history no longer holds

bodyVars == <<served, held, log, history>>
vars == <<mounts, path, live, served, held, log, number, events, pathRevs,
          history, policies, past, blurred>>

Checkpoint(text) == [text |-> text, shape |-> Flat(text)]

Known == {d \in Docs : path[d] # NoPath}

-----------------------------------------------------------------------------
(* Bodies.                                                                 *)

\* load_current_state: the held state with the logged updates replayed on it.
LoadedFrom(state, updates) ==
    LET after[k \in 0..Len(updates)] ==
          IF k = 0 THEN state
          ELSE ApplyUpdate(after[k - 1], updates[k].actor, updates[k].base, updates[k].text)
    IN  after[Len(updates)]

Loaded(d) == LoadedFrom(held[d], log[d])

\* A live document's text as bootstrap and changes_since serve it.
Body(d) == IF d \in live THEN served[d].text ELSE NoBody

\* YrsConvergenceBodyEngine.apply_update, onto the loaded state.
Converged(a, base, text, state) ==
    LET candidate == ApplyUpdate(state, a, base, text)
    IN  IF state.text = base THEN [merge |-> FALSE, state |-> Checkpoint(text)]
        ELSE IF Contains(candidate.text, state.text) /\ Contains(candidate.text, text)
        THEN [merge |-> TRUE, state |-> candidate]
        ELSE [merge |-> FALSE, state |-> Checkpoint(Union(base, state.text, text))]

\* Deleting a base text and inserting a new one are an update each; only an
\* edit that is a single update is logged.
OneUpdate(base, text) == base = Empty \/ text = Empty

-----------------------------------------------------------------------------
(* Retained revisions.  A row holds the text it reads as on its own; an    *)
(* update row is replayed on the state before it, all others are not.      *)

CheckpointRow(at, base, text) ==
    [at |-> at, kind |-> "checkpoint", actor |-> Editor, base |-> base, text |-> text]

UpdateRow(at, a, base, text) ==
    [at |-> at, kind |-> "update", actor |-> a, base |-> base, text |-> text]

\* A bug: every row reads as it does on its own.
ReplayedAlone(rows) == Checkpoint(IF rows = <<>> THEN Empty ELSE rows[Len(rows)].text)

\* replay_body_revision_run, for the rows of one document.  An update row's
\* anchor is always the row before it, so the anchors are left out.
Replayed(rows) ==
    LET after[k \in 0..Len(rows)] ==
          IF k = 0 THEN Checkpoint(Empty)
          ELSE IF rows[k].kind = "update" /\ k > 1
          THEN ApplyUpdate(after[k - 1], rows[k].actor, rows[k].base, rows[k].text)
          ELSE Checkpoint(rows[k].text)
    IN  after[Len(rows)]

\* The i-th of some places in a sequence.
NthOf(S, i) == CHOOSE k \in S : Cardinality({j \in S : j <= k}) = i

RowsUpTo(d, c) ==
    LET upTo == {k \in DOMAIN history[d] : history[d][k].at <= c}
    IN  [i \in 1..Cardinality(upTo) |-> history[d][NthOf(upTo, i)]]

PolicyFor(p) ==
    LET set == {i \in DOMAIN Chain[p] : Chain[p][i] \in DOMAIN policies}
        nearest == CHOOSE i \in set : \A j \in set : i <= j
    IN  IF set = {} THEN DefaultPolicy ELSE policies[Chain[p][nearest]]

\* compact_document_body_revisions: the rows it keeps become checkpoints of
\* what they replayed to, each based on the row kept before it.
Compact(rows, policy) ==
    LET older == Len(rows) - policy.revisions
        kept == {k \in DOMAIN rows : k > older \/ (k - 1) % policy.frequency = 0}
        textAt(i) == Replayed(SubSeq(rows, 1, NthOf(kept, i))).text
    IN  IF Len(rows) <= policy.revisions THEN rows
        ELSE [i \in 1..Cardinality(kept) |->
                LET row == rows[NthOf(kept, i)]
                IN  CheckpointRow(row.at, IF i = 1 THEN row.base ELSE textAt(i - 1), textAt(i))]

\* A document's rows once r is appended while its path row says p.
Appended(d, r, p) == Compact(Append(history[d], r), PolicyFor(p))

\* The current reconstruction of the workspace at cursor c.
Newest(revs, c) ==
    {r \in revs : /\ r.at <= c
                  /\ \A s \in revs : s.doc = r.doc /\ s.at <= c => s.at <= r.at}

HistoryPaths(c) == {<<r.doc, r.path>> : r \in {s \in Newest(pathRevs, c) : s.live}}

HistoryLive(c) == {d \in Docs : \E p \in Paths : <<d, p>> \in HistoryPaths(c)}

HistoryBody(d, c) ==
    IF d \in HistoryLive(c) /\ RowsUpTo(d, c) # <<>> THEN Replayed(RowsUpTo(d, c)).text
    ELSE NoBody

-----------------------------------------------------------------------------
(* Numbers and events.                                                     *)

\* coalesce(max(seq), 0) over the workspace's events
Newer(S) == IF S = {} THEN 0 ELSE CHOOSE s \in S : \A t \in S : t <= s
Cursor == Newer({e.at : e \in events})

InsertEvent(d) ==
    /\ number' = number + 1
    /\ events' = events \cup {[at |-> number + 1, doc |-> d]}

InsertPath(d, p, isLive) ==
    pathRevs' = pathRevs \cup {[at |-> number + 1, doc |-> d, path |-> p, live |-> isLive]}

LivePaths == {<<d, path[d]>> : d \in live}

View == [cursor |-> Cursor, paths |-> LivePaths, bodies |-> [d \in Docs |-> Body(d)], lost |-> blurred]

\* The number of the newest of the rows up to c.  A view whose newest row of a
\* document is compacted away loses that document's text.
Tip(rows, c) == Newer({rows[k].at : k \in {j \in DOMAIN rows : rows[j].at <= c}})

Dropped(c) == {d \in Docs : Tip(history'[d], c) # Tip(history[d], c)}

Remember ==
    past' = {[v EXCEPT !.lost = @ \cup Dropped(v.cursor)] : v \in {w \in past : w.cursor # Cursor'}}
              \cup {View'}

PathTaken(p, d) == \E e \in live \ {d} : path[e] = p

\* A bug: the updates logged before the checkpoint stay in the log.
WriteCheckpointOnly(d, state, base, p) ==
    /\ served' = [served EXCEPT ![d] = state]
    /\ held' = [held EXCEPT ![d] = state]
    /\ log' = log
    /\ history' = [history EXCEPT ![d] = Appended(d, CheckpointRow(number + 1, base, state.text), p)]

\* write_current_state, then append_retained_history of a checkpoint, which
\* makes the served state the held one and drops the logged updates.
WriteCheckpoint(d, state, base, p) ==
    /\ served' = [served EXCEPT ![d] = state]
    /\ held' = [held EXCEPT ![d] = state]
    /\ log' = [log EXCEPT ![d] = <<>>]
    /\ history' = [history EXCEPT ![d] = Appended(d, CheckpointRow(number + 1, base, state.text), p)]

-----------------------------------------------------------------------------
Init ==
    /\ mounts = {}
    /\ path = [d \in Docs |-> NoPath]
    /\ live = {}
    /\ served = [d \in Docs |-> NoState]
    /\ held = [d \in Docs |-> NoState]
    /\ log = [d \in Docs |-> <<>>]
    /\ number = 0
    /\ events = {} /\ pathRevs = {}
    /\ history = [d \in Docs |-> <<>>]
    /\ policies = [k \in {} |-> DefaultPolicy]
    /\ blurred = {}
    /\ past = {View}

Open == number < MaxNumber

\* A workspace with mounts only accepts the mounts it has.
Bootstrap(ms) ==
    /\ mounts = {}
    /\ mounts' = ms
    /\ UNCHANGED <<path, live, bodyVars, number, events, pathRevs, policies, past, blurred>>

\* An event of another workspace, or a transaction rolled back after it drew.
DrawNumber ==
    /\ Open
    /\ number' = number + 1
    /\ UNCHANGED <<mounts, path, live, bodyVars, events, pathRevs, policies, past, blurred>>

CreateDocument(d, p, text) ==
    /\ Open /\ d \notin Known
    /\ MountOf[p] \in mounts
    /\ ~PathTaken(p, d)
    /\ path' = [path EXCEPT ![d] = p]
    /\ live' = live \cup {d}
    /\ WriteCheckpoint(d, Checkpoint(text), Empty, p)
    /\ InsertEvent(d)
    /\ InsertPath(d, p, TRUE)
    /\ UNCHANGED <<mounts, policies, blurred>>
    /\ Remember

\* An edit that was merged is retained as itself; if it is one update it is
\* also logged, and otherwise the merged state becomes the held one.
UpdateDocument(d, a, base, text) ==
    LET current == Loaded(d)
        result == Converged(a, base, text, current)
        row == IF result.merge THEN UpdateRow(number + 1, a, base, text)
               ELSE CheckpointRow(number + 1, base, result.state.text)
        logs == result.merge /\ OneUpdate(base, text)
    IN  /\ Open /\ d \in live
        /\ served' = [served EXCEPT ![d] = result.state]
        /\ held' = IF logs THEN held ELSE [held EXCEPT ![d] = result.state]
        /\ log' = [log EXCEPT ![d] =
                     IF logs THEN Append(@, [actor |-> a, base |-> base, text |-> text]) ELSE <<>>]
        /\ history' = [history EXCEPT ![d] = Appended(d, row, path[d])]
        /\ InsertEvent(d)
        /\ blurred' = IF ~result.merge THEN blurred \ {d}
                      ELSE IF Replayed(history[d]) # current THEN blurred \cup {d}
                      ELSE blurred
        /\ UNCHANGED <<mounts, path, live, pathRevs, policies>>
        /\ Remember

\* Only the path row changes: the bodies and the logged updates stay.
DeleteDocument(d) ==
    /\ Open /\ d \in live
    /\ live' = live \ {d}
    /\ InsertEvent(d)
    /\ InsertPath(d, path[d], FALSE)
    /\ UNCHANGED <<mounts, path, bodyVars, policies, blurred>>
    /\ Remember

MoveDocument(d, p) ==
    /\ Open /\ d \in live
    /\ MountOf[p] \in mounts
    /\ ~PathTaken(p, d)
    /\ path' = [path EXCEPT ![d] = p]
    /\ InsertEvent(d)
    /\ InsertPath(d, p, TRUE)
    /\ UNCHANGED <<mounts, live, bodyVars, policies, blurred>>
    /\ Remember

\* Bring back the text of the k-th retained revision, at path p: its replay if
\* that reads as the revision does on its own.  No cursor is asked for.
RestoreDocument(d, k, p) ==
    LET own == history[d][k].text
        replay == Replayed(SubSeq(history[d], 1, k))
        target == IF replay.text = own THEN replay ELSE Checkpoint(own)
        placing == d \notin live \/ p # path[d]
    IN  /\ Open /\ d \in Known
        /\ placing => ~PathTaken(p, d)
        /\ path' = [path EXCEPT ![d] = p]
        /\ live' = live \cup {d}
        /\ WriteCheckpoint(d, target, Loaded(d).text, p)
        /\ InsertEvent(d)
        /\ IF placing THEN InsertPath(d, p, TRUE) ELSE UNCHANGED pathRevs
        /\ blurred' = blurred \ {d}
        /\ UNCHANGED <<mounts, policies>>
        /\ Remember

-----------------------------------------------------------------------------
(* Rewinding the workspace to cursor c.                                    *)

RewoundPath(d, c) ==
    IF d \in HistoryLive(c) THEN CHOOSE p \in Paths : <<d, p>> \in HistoryPaths(c) ELSE path[d]

\* A document without a body compares as the empty text.
Comparable(body) == IF body = NoBody THEN Empty ELSE body

BodyChanged(d, c) == Comparable(Body(d)) # Comparable(HistoryBody(d, c))

\* A bug: a mere move is no change.
ChangedNoMove(c) ==
    {d \in Docs : \/ (d \in live) # (d \in HistoryLive(c))
                  \/ d \in live /\ BodyChanged(d, c)}

\* diff_workspace_restore_changes, in the order of document ids.
Changed(c) ==
    {d \in Docs : \/ (d \in live) # (d \in HistoryLive(c))
                  \/ d \in live /\ (RewoundPath(d, c) # path[d] \/ BodyChanged(d, c))}

\* A bug: counting starts from the number after the next.
ChangeNumberLate(d, c) == number + 1 + Cardinality({e \in Changed(c) : e <= d})

ChangeNumber(d, c) == number + Cardinality({e \in Changed(c) : e <= d})

Rewritten(c) == {d \in Changed(c) \cap HistoryLive(c) : BodyChanged(d, c)}

RewoundRow(d, c) == CheckpointRow(ChangeNumber(d, c), Comparable(Body(d)), HistoryBody(d, c))

\* Every document live at c has its served text written; only where that
\* changes the text a revision is appended and the held state follows.  The
\* unique index on live paths aborts a rewind that would put two on one path.
RestoreWorkspace(c) ==
    /\ Open /\ c <= Cursor
    /\ \A d, e \in HistoryLive(c) : RewoundPath(d, c) = RewoundPath(e, c) => d = e
    /\ ReviveEmpty \/ \A d \in HistoryLive(c) \ live : HistoryBody(d, c) # Empty
    /\ path' = [d \in Docs |-> RewoundPath(d, c)]
    /\ live' = HistoryLive(c)
    /\ served' = [d \in Docs |-> IF d \in HistoryLive(c) THEN Checkpoint(HistoryBody(d, c)) ELSE served[d]]
    /\ held' = [d \in Docs |-> IF d \in Rewritten(c) THEN Checkpoint(HistoryBody(d, c)) ELSE held[d]]
    /\ log' = [d \in Docs |-> IF d \in Rewritten(c) THEN <<>> ELSE log[d]]
    /\ history' = [d \in Docs |-> IF d \in Rewritten(c)
                                  THEN Appended(d, RewoundRow(d, c), RewoundPath(d, c))
                                  ELSE history[d]]
    /\ number' = number + Cardinality(Changed(c))
    /\ events' = events \cup {[at |-> ChangeNumber(d, c), doc |-> d] : d \in Changed(c)}
    /\ pathRevs' = pathRevs \cup
         {[at |-> ChangeNumber(d, c), doc |-> d, path |-> RewoundPath(d, c),
           live |-> d \in HistoryLive(c)] : d \in Changed(c)}
    /\ blurred' = blurred \ Rewritten(c)
    /\ UNCHANGED <<mounts, policies>>
    /\ Remember

-----------------------------------------------------------------------------
(* History surgery.  A request may carry the row numbers its preview saw   *)
(* and is then refused if they changed; an accepted one does the same.     *)

Blank(r) == [r EXCEPT !.kind = "purged", !.base = Empty, !.text = Empty]

\* The views of d from before lose their text: that is what was asked for.
Forget(d) ==
    past' = {[v EXCEPT !.lost = @ \cup {d}] : v \in {w \in past : w.cursor # Cursor'}} \cup {View'}

\* The rows stay, blank; the logged updates go, and nothing else changes.
PurgeHistory(d) ==
    /\ Open
    /\ \E k \in DOMAIN history[d] : history[d][k].kind # "purged"
    /\ PurgeLogged \/ log[d] = <<>>
    /\ history' = [history EXCEPT ![d] = [k \in DOMAIN @ |-> Blank(@[k])]]
    /\ log' = [log EXCEPT ![d] = <<>>]
    /\ InsertEvent(d)
    /\ blurred' = blurred \cup {d}
    /\ UNCHANGED <<mounts, path, live, served, held, pathRevs, policies>>
    /\ Forget(d)

Matches(r, secret) == Contains(r.base, secret) \/ Contains(r.text, secret)

\* A bug: an update's payload is left as it is.
RedactedCheckpoint(r, secret) ==
    IF ~Matches(r, secret) THEN r
    ELSE [r EXCEPT !.base = Redacted(@, secret),
                   !.text = IF r.kind = "update" THEN @ ELSE Redacted(@, secret)]

\* An update is built anew from the redacted texts; snapshot, held state and
\* log keep theirs.
RedactedRow(r, secret) ==
    IF ~Matches(r, secret) THEN r
    ELSE [r EXCEPT !.base = Redacted(@, secret), !.text = Redacted(@, secret), !.actor = Editor]

RedactHistory(d, secret) ==
    /\ Open
    /\ \E k \in DOMAIN history[d] : Matches(history[d][k], secret)
    /\ history' = [history EXCEPT ![d] = [k \in DOMAIN @ |-> RedactedRow(@[k], secret)]]
    /\ InsertEvent(d)
    /\ blurred' = blurred \cup {d}
    /\ UNCHANGED <<mounts, path, live, served, held, log, pathRevs, policies>>
    /\ Forget(d)

-----------------------------------------------------------------------------
\* Changing a policy compacts nothing by itself.
SetPolicy(k, policy) ==
    /\ Open
    /\ policies' = [x \in DOMAIN policies \cup {k} |-> IF x = k THEN policy ELSE policies[x]]
    /\ UNCHANGED <<mounts, path, live, bodyVars, number, events, pathRevs, past, blurred>>

ClearPolicy(k) ==
    /\ Open /\ k \in DOMAIN policies
    /\ policies' = [x \in DOMAIN policies \ {k} |-> policies[x]]
    /\ UNCHANGED <<mounts, path, live, bodyVars, number, events, pathRevs, past, blurred>>

Next ==
    \/ \E ms \in SUBSET Mounts : Bootstrap(ms)
    \/ DrawNumber
    \/ \E d \in Docs, p \in Paths, t \in Edits : CreateDocument(d, p, t)
    \/ \E d \in Docs, a \in Actors, b \in Bases, t \in Edits : UpdateDocument(d, a, b, t)
    \/ \E d \in Docs : DeleteDocument(d)
    \/ \E d \in Docs, p \in Paths : MoveDocument(d, p)
    \/ \E d \in Docs, p \in Paths : \E k \in DOMAIN history[d] : RestoreDocument(d, k, p)
    \/ \E c \in 0..number : RestoreWorkspace(c)
    \/ \E d \in Docs : PurgeHistory(d)
    \/ \E d \in Docs, x \in Secrets : RedactHistory(d, x)
    \/ \E k \in Keys, policy \in Policies : SetPolicy(k, policy)
    \/ \E k \in Keys : ClearPolicy(k)

Spec == Init /\ [][Next]_vars

-----------------------------------------------------------------------------
(* Correctness.                                                            *)

RowShaped(r) == r.at \in 1..number /\ r.kind \in {"checkpoint", "update", "purged"}

\* Every table holds rows of its columns' types (migrations/0001_init.sql),
\* numbered by events already drawn.
TypeOK ==
    /\ mounts \subseteq Mounts
    /\ path \in [Docs -> Paths \cup {NoPath}]
    /\ live \subseteq Known
    /\ DOMAIN served = Docs /\ DOMAIN held = Docs /\ DOMAIN log = Docs /\ DOMAIN history = Docs
    /\ number \in Nat
    /\ events \subseteq [at : 1..number, doc : Docs]
    /\ pathRevs \subseteq [at : 1..number, doc : Docs, path : Paths, live : BOOLEAN]
    /\ \A d \in Docs : \A k \in DOMAIN history[d] : RowShaped(history[d][k])
    /\ DOMAIN policies \subseteq Keys /\ \A k \in DOMAIN policies : policies[k] \in Policies
    /\ \A v \in past : v.cursor \in 0..number /\ v.paths \subseteq Docs \X Paths /\ DOMAIN v.bodies = Docs
    /\ blurred \subseteq Docs

\* The text a live document is served with is the text the next update is
\* merged onto: writing the served text, the held state and the update log in
\* different statements never lets them say different things.
ServedIsMerged == \A d \in live : served[d].text = Loaded(d).text

\* The history is a time machine: reconstructed at the cursor of any finished
\* operation it shows the documents then live, where they were and, unless
\* their history was purged or redacted since, with the texts they had.
HistoryRemembers ==
    \A v \in past : /\ HistoryPaths(v.cursor) = v.paths
                    /\ \A d \in Docs \ v.lost : HistoryBody(d, v.cursor) = v.bodies[d]

\* After a redaction no version of the document shows the secret, neither
\* replayed nor, as a restore may take it, alone; and a version that is not a
\* merge replayed on earlier ones reads as before but for the secret.
RedactionHides ==
    [][\A d \in Docs, x \in Secrets : RedactHistory(d, x) =>
         \A k \in DOMAIN history[d] :
           LET before == Replayed(SubSeq(history[d], 1, k)).text
               after == Replayed(SubSeq(history'[d], 1, k)).text
           IN  /\ ~Contains(after, x) /\ ~Contains(history'[d][k].text, x)
               /\ history[d][k].kind # "update" => after = Redacted(before, x)]_vars

\* Clients are given the shared workspace they are written against, though
\* the numbers of its events have gaps: its cursor and stamps count them.
Shared == INSTANCE SharedWorkspace WITH
    text <- [d \in Docs |-> Body(d)], NoText <- NoBody,
    cursor <- Cardinality(events),
    stamp <- [d \in Docs |->
                LET latest == Newer({e.at : e \in {f \in events : f.doc = d}})
                IN  Cardinality({e \in events : e.at <= latest})]

ImplementsShared == Shared!SharedSpec
=============================================================================
