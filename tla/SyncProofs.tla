----------------------------- MODULE SyncProofs -----------------------------
(***************************************************************************)
(* Theorems about CheckoutSync and WatchSync, for every number of checkouts *)
(* and of watching ones, documents, paths and texts, every way edits may    *)
(* converge and every disturbance.  Texts is any set the texts in play      *)
(* belong to.  The first part is about one run after another, the second    *)
(* builds on its invariant, which the loop's steps keep as well.            *)
(***************************************************************************)
EXTENDS WatchSync, TLAPS

\* Texts holds the first text, what users write, what edits converge to and
\* what a write cut short leaves; NoText is none of them.
Closed(Texts) ==
    /\ NoText \notin Texts /\ Blank \in Texts /\ Seeds \subseteq Texts \cup {NoText}
    /\ \A t \in Texts \cup {NoText}, n \in Nat : Edited(t, n) \subseteq Texts
    /\ \A base, current, incoming \in Texts : Converge(base, current, incoming) \in Texts

-----------------------------------------------------------------------------
(* The inductive invariant: every variable is well-typed, a snapshot shows  *)
(* live documents with a path and a text and is current up to its cursor,   *)
(* and what is left to delete or update is live in the run's snapshot.      *)

Snapshots(Texts) ==
    [Docs -> [path : Paths \cup {NoPath}, live : BOOLEAN, text : Texts \cup {NoText}]]

Sound(Texts, snap) ==
    /\ snap \in Snapshots(Texts)
    /\ \A d \in Docs : snap[d].live => snap[d].path \in Paths /\ snap[d].text \in Texts

Runs(Texts) ==
    [phase : Phases, todo : SUBSET (Docs \cup Paths \cup (Docs \X Paths)), cur : Nat, based : Nat,
     pushed : BOOLEAN, alone : BOOLEAN, snap : Snapshots(Texts)]

\* Up to cursor cur the snapshot shows every document as it is now.
Current(snap, cur) == \A d \in Docs : stamp[d] <= cur => snap[d] = View[d]

GoodRun(Texts, r) ==
    /\ r \in Runs(Texts) /\ r.cur <= cursor
    /\ Sound(Texts, r.snap)
    /\ r.phase # "idle" => Current(r.snap, r.cur)
    /\ r.phase \in {"deleting", "updating"} => r.todo \subseteq LiveIn(r.snap)

SharedTyped(Texts) ==
    /\ path \in [Docs -> Paths \cup {NoPath}] /\ live \subseteq Created
    /\ text \in [Docs -> Texts \cup {NoText}] /\ \A d \in live : text[d] \in Texts
    /\ cursor \in Nat /\ stamp \in [Docs -> 0..cursor]

DiskTyped(Texts) ==
    /\ files \in [Clients -> [Paths -> Texts \cup {NoText}]]
    /\ applied \in [Clients -> [Paths -> Texts \cup {NoText}]]
    /\ rooted \subseteq Clients
    /\ savedPaths \in [Clients -> SUBSET Paths]
    /\ savedBodies \in [Clients -> [Docs -> Texts \cup {NoText}]]
    /\ acts \in 0..MaxActs

RunsGood(Texts) ==
    /\ DOMAIN run = Clients /\ run = [c \in Clients |-> run[c]]
    /\ \A c \in Clients : GoodRun(Texts, run[c])

IInv(Texts) == SharedTyped(Texts) /\ DiskTyped(Texts) /\ RunsGood(Texts)

\* The invariant is at least as strong as the two invariants of the runs.
LEMMA InvariantSuffices ==
    ASSUME NEW Texts, IInv(Texts)
    PROVE  TypeOK /\ SnapshotsCurrent
<1>1. \A c \in Clients : /\ run[c].phase \in Phases /\ run[c].cur \in 0..cursor
                         /\ run[c].pushed \in BOOLEAN /\ DOMAIN run[c].snap = Docs
  BY DEF IInv, SharedTyped, RunsGood, GoodRun, Runs, Snapshots
<1>2. TypeOK
  BY <1>1 DEF IInv, SharedTyped, DiskTyped, TypeOK
<1>3. SnapshotsCurrent
  BY DEF IInv, RunsGood, GoodRun, Current, SnapshotsCurrent
<1> QED BY <1>2, <1>3

-----------------------------------------------------------------------------
(* Snapshots.                                                              *)

LEMMA ViewSound ==
    ASSUME NEW Texts, SharedTyped(Texts)
    PROVE  Sound(Texts, View) /\ Current(View, cursor)
<1>1. \A d \in Docs : /\ View[d].path = path[d] /\ View[d].text = text[d]
                      /\ View[d].live = (d \in live)
  BY DEF View
<1>2. View \in Snapshots(Texts)
  BY DEF View, Snapshots, SharedTyped
<1>3. \A d \in Docs : View[d].live => View[d].path \in Paths /\ View[d].text \in Texts
  <2> SUFFICES ASSUME NEW d \in Docs, View[d].live PROVE View[d].path \in Paths /\ View[d].text \in Texts
    OBVIOUS
  <2>1. d \in live
    BY <1>1
  <2> QED BY <2>1, <1>1 DEF SharedTyped, Created
<1> QED BY <1>2, <1>3 DEF Sound, Current

\* A delta asked for from the snapshot's own cursor makes it current.
LEMMA MergedSound ==
    ASSUME NEW Texts, SharedTyped(Texts), NEW snap, NEW cur \in Nat,
           Sound(Texts, snap), Current(snap, cur)
    PROVE  Sound(Texts, Merged(snap, cur)) /\ Current(Merged(snap, cur), cursor)
<1>1. Sound(Texts, View)
  BY ViewSound
<1>2. \A d \in Docs : Merged(snap, cur)[d] = IF stamp[d] > cur THEN View[d] ELSE snap[d]
  BY DEF Merged
<1>3. Merged(snap, cur) \in Snapshots(Texts)
  BY <1>1 DEF Merged, Sound, Snapshots
<1>4. \A d \in Docs : stamp[d] > cur \/ stamp[d] <= cur
  BY DEF SharedTyped
<1>5. \A d \in Docs : Merged(snap, cur)[d] = View[d]
  BY <1>2, <1>4 DEF Current
<1> QED BY <1>1, <1>3, <1>5 DEF Sound, Current

LEMMA RefreshedGood ==
    ASSUME NEW Texts, SharedTyped(Texts), NEW c \in Clients, GoodRun(Texts, run[c]),
           run[c].phase # "idle"
    PROVE  /\ Refreshed(c) \in Runs(Texts) /\ Refreshed(c).cur <= cursor
           /\ Sound(Texts, Refreshed(c).snap) /\ Current(Refreshed(c).snap, Refreshed(c).cur)
<1>1. /\ run[c] \in Runs(Texts) /\ run[c].cur \in Nat /\ cursor \in Nat
      /\ Sound(Texts, run[c].snap) /\ Current(run[c].snap, run[c].cur)
  BY DEF GoodRun, Runs, SharedTyped
<1>2. CASE run[c].pushed
  <2>1. Sound(Texts, Merged(run[c].snap, run[c].cur)) /\ Current(Merged(run[c].snap, run[c].cur), cursor)
    BY <1>1, MergedSound
  <2>2. Refreshed(c) = [run[c] EXCEPT !.snap = Merged(run[c].snap, run[c].cur), !.cur = cursor,
                                      !.based = cursor, !.pushed = FALSE]
    BY <1>2 DEF Refreshed
  <2>3. Merged(run[c].snap, run[c].cur) \in Snapshots(Texts)
    BY <2>1 DEF Sound
  <2>4. Refreshed(c) \in Runs(Texts)
    BY <2>2, <2>3, <1>1 DEF Runs
  <2>5. Refreshed(c).snap = Merged(run[c].snap, run[c].cur) /\ Refreshed(c).cur = cursor
    BY <2>2, <1>1 DEF Runs
  <2> QED BY <2>1, <2>4, <2>5, <1>1
<1>3. CASE ~run[c].pushed
  BY <1>1, <1>3 DEF Refreshed, GoodRun
<1> QED BY <1>2, <1>3

-----------------------------------------------------------------------------
(* What a request changes.                                                 *)

\* The next cursor stamps one document; all others are as they were.
Stamped(Texts) ==
    /\ SharedTyped(Texts)' /\ cursor' = cursor + 1
    /\ \A d \in Docs : \/ stamp'[d] = cursor'
                       \/ stamp'[d] = stamp[d] /\ View'[d] = View[d]

LEMMA RequestStamps ==
    ASSUME NEW Texts, SharedTyped(Texts), NEW d \in Docs, NEW p \in Paths, NEW t \in Texts,
           NoPath \notin Paths,
           Place(d, p, t) \/ Rewrite(d, t) \/ Delete(d) \/ Move(d, p)
    PROVE  Stamped(Texts)
<1>1. cursor' = cursor + 1 /\ stamp' = [stamp EXCEPT ![d] = cursor + 1]
  BY DEF Place, Rewrite, Delete, Move, Stamp
<1>2. stamp' \in [Docs -> 0..cursor'] /\ cursor' \in Nat
  BY <1>1 DEF SharedTyped
<1>3. /\ \A e \in Docs \ {d} : path'[e] = path[e] /\ text'[e] = text[e] /\ (e \in live' <=> e \in live)
      /\ path' \in [Docs -> Paths \cup {NoPath}]
      /\ live' \subseteq Docs /\ \A e \in live' : path'[e] # NoPath
  <2>1. CASE Place(d, p, t)
    BY <2>1 DEF Place, SharedTyped, Created
  <2>2. CASE Rewrite(d, t)
    BY <2>2 DEF Rewrite, SharedTyped, Created
  <2>3. CASE Delete(d)
    BY <2>3 DEF Delete, SharedTyped, Created
  <2>4. CASE Move(d, p)
    BY <2>4 DEF Move, SharedTyped, Created
  <2> QED BY <2>1, <2>2, <2>3, <2>4
<1>4. text' \in [Docs -> Texts \cup {NoText}] /\ \A e \in live' : text'[e] \in Texts
  <2>1. CASE Place(d, p, t)
    BY <2>1 DEF Place, SharedTyped
  <2>2. CASE Rewrite(d, t)
    BY <2>2 DEF Rewrite, SharedTyped
  <2>3. CASE Delete(d)
    BY <2>3 DEF Delete, SharedTyped, Created
  <2>4. CASE Move(d, p)
    BY <2>4 DEF Move, SharedTyped
  <2> QED BY <2>1, <2>2, <2>3, <2>4
<1>5. SharedTyped(Texts)'
  BY <1>2, <1>3, <1>4 DEF SharedTyped, Created
<1>6. \A e \in Docs \ {d} : stamp'[e] = stamp[e] /\ View'[e] = View[e]
  BY <1>1, <1>3 DEF View, SharedTyped
<1>7. stamp'[d] = cursor'
  BY <1>1 DEF SharedTyped
<1> QED BY <1>1, <1>5, <1>6, <1>7 DEF Stamped

\* A run's snapshot stays current when others write: what changes is stamped
\* past the run's cursor.
LEMMA StampedKeeps ==
    ASSUME NEW Texts, SharedTyped(Texts), Stamped(Texts), NEW snap, NEW cur \in Nat, cur <= cursor,
           Current(snap, cur)
    PROVE  Current(snap, cur)'
<1>1. cursor \in Nat /\ \A d \in Docs : stamp[d] \in Nat
  BY DEF SharedTyped
<1>2. ASSUME NEW d \in Docs, stamp'[d] <= cur PROVE snap[d] = View'[d]
  BY <1>1, <1>2 DEF Stamped, Current
<1> QED BY <1>2 DEF Current

LEMMA SharedFrame ==
    ASSUME NEW Texts, SharedTyped(Texts), UNCHANGED shared
    PROVE  SharedTyped(Texts)' /\ View' = View /\ cursor' = cursor /\ stamp' = stamp
  BY DEF SharedTyped, Created, View, shared

\* What the server does meanwhile leaves a good run good.
LEMMA GoodRunKept ==
    ASSUME NEW Texts, SharedTyped(Texts), Stamped(Texts) \/ UNCHANGED shared,
           NEW r, GoodRun(Texts, r)
    PROVE  GoodRun(Texts, r)'
<1>1. r.cur \in Nat /\ r.cur <= cursor /\ cursor \in Nat
  BY DEF GoodRun, Runs, SharedTyped
<1>2. r.cur <= cursor' /\ (Current(r.snap, r.cur) => Current(r.snap, r.cur)')
  <2>1. CASE Stamped(Texts)
    BY <1>1, <2>1, StampedKeeps DEF Stamped
  <2>2. CASE UNCHANGED shared
    BY <1>1, <2>2, SharedFrame DEF Current
  <2> QED BY <2>1, <2>2
<1>3. Sound(Texts, r.snap)' /\ (LiveIn(r.snap))' = LiveIn(r.snap)
  BY DEF GoodRun, Sound, Snapshots, LiveIn
<1> QED BY <1>2, <1>3 DEF GoodRun, Runs, Phases, Snapshots

LEMMA RunsGoodKept ==
    ASSUME NEW Texts, IInv(Texts), Stamped(Texts) \/ UNCHANGED shared,
           run' = [c \in Clients |-> run'[c]], \A c \in Clients : GoodRun(Texts, run'[c])
    PROVE  RunsGood(Texts)'
<1>1. \A c \in Clients : GoodRun(Texts, run[c])'
  BY GoodRunKept DEF IInv
<1> QED BY <1>1 DEF RunsGood

\* A step of c's run alone.
LEMMA OneRunKept ==
    ASSUME NEW Texts, IInv(Texts), UNCHANGED shared, NEW c \in Clients,
           NEW r, GoodRun(Texts, r), run' = [run EXCEPT ![c] = r]
    PROVE  RunsGood(Texts)'
<1>1. run' = [x \in Clients |-> run'[x]] /\ \A x \in Clients : GoodRun(Texts, run'[x])
  BY DEF IInv, RunsGood
<1> QED BY <1>1, RunsGoodKept

-----------------------------------------------------------------------------
(* Good runs.                                                              *)

LEMMA NoRunGood ==
    ASSUME NEW Texts, SharedTyped(Texts)
    PROVE  GoodRun(Texts, NoRun)
<1>1. NoRun.snap \in Snapshots(Texts) /\ \A d \in Docs : NoRun.snap[d].live = FALSE
  BY DEF NoRun, Snapshots
<1>2. NoRun \in Runs(Texts)
  BY <1>1 DEF NoRun, Runs, Phases
<1>3. NoRun.cur = 0 /\ NoRun.phase = "idle" /\ cursor \in Nat
  BY DEF NoRun, SharedTyped
<1> QED BY <1>1, <1>2, <1>3 DEF GoodRun, Sound

\* Entering a phase with a list that fits it.
LEMMA EnteredGood ==
    ASSUME NEW Texts, NEW r, r \in Runs(Texts), r.cur <= cursor,
           Sound(Texts, r.snap), Current(r.snap, r.cur),
           NEW ph \in Phases, NEW todo \in SUBSET (Docs \cup Paths \cup (Docs \X Paths)),
           ph \in {"deleting", "updating"} => todo \subseteq LiveIn(r.snap)
    PROVE  GoodRun(Texts, [r EXCEPT !.phase = ph, !.todo = todo])
<1> DEFINE s == [r EXCEPT !.phase = ph, !.todo = todo]
<1>1. s \in Runs(Texts)
  BY DEF Runs
<1>2. s.phase = ph /\ s.todo = todo /\ s.snap = r.snap /\ s.cur = r.cur
  BY DEF Runs
<1> HIDE DEF s
<1>3. GoodRun(Texts, s)
  BY <1>1, <1>2 DEF GoodRun
<1> QED BY <1>3 DEF s

\* A run with an item pushed or skipped, and one the user or another run is
\* at work beside.
PushedItem(r, i) == [r EXCEPT !.todo = @ \ {i}, !.pushed = TRUE, !.based = @ + 1]
SkippedItem(r, i) == [r EXCEPT !.todo = @ \ {i}]
NotAlone(r) == [r EXCEPT !.alone = FALSE]

LEMMA AdvancedGood ==
    ASSUME NEW Texts, NEW r, GoodRun(Texts, r), NEW i
    PROVE  /\ GoodRun(Texts, PushedItem(r, i))
           /\ GoodRun(Texts, SkippedItem(r, i))
           /\ GoodRun(Texts, NotAlone(r))
<1>1. r \in Runs(Texts)
  BY DEF GoodRun
<1>2. ASSUME NEW s \in Runs(Texts), s.phase = r.phase, s.snap = r.snap, s.cur = r.cur, s.todo \subseteq r.todo
      PROVE  GoodRun(Texts, s)
  BY <1>2 DEF GoodRun
<1> DEFINE s1 == PushedItem(r, i)
           s2 == SkippedItem(r, i)
           s3 == NotAlone(r)
<1>3. s1 \in Runs(Texts) /\ s2 \in Runs(Texts) /\ s3 \in Runs(Texts)
  <2>1. r.todo \ {i} \in SUBSET (Docs \cup Paths \cup (Docs \X Paths)) /\ r.based + 1 \in Nat
    BY <1>1 DEF Runs
  <2>2. s1 \in Runs(Texts)
    BY <1>1, <2>1 DEF Runs, PushedItem, SkippedItem
  <2>3. s2 \in Runs(Texts)
    BY <1>1, <2>1 DEF Runs, PushedItem, SkippedItem
  <2>4. s3 \in Runs(Texts)
    BY <1>1 DEF Runs, NotAlone
  <2> QED BY <2>2, <2>3, <2>4
<1>4. /\ s1.phase = r.phase /\ s1.snap = r.snap /\ s1.cur = r.cur /\ s1.todo = r.todo \ {i}
      /\ s2.phase = r.phase /\ s2.snap = r.snap /\ s2.cur = r.cur /\ s2.todo = r.todo \ {i}
      /\ s3.phase = r.phase /\ s3.snap = r.snap /\ s3.cur = r.cur /\ s3.todo = r.todo
  BY <1>1 DEF Runs, PushedItem, SkippedItem, NotAlone
<1> QED BY <1>2, <1>3, <1>4

LEMMA AcceptedKept ==
    ASSUME NEW Texts, IInv(Texts), Stamped(Texts), NEW c \in Clients, NEW i, Accepted(c, i)
    PROVE  RunsGood(Texts)' /\ DiskTyped(Texts)'
<1>1. \A x \in Clients : run'[x] = IF x = c THEN PushedItem(run[c], i) ELSE NotAlone(run[x])
  BY DEF Accepted, PushedItem, NotAlone
<1>2. run' = [x \in Clients |-> run'[x]]
  BY DEF Accepted
<1>3. ASSUME NEW x \in Clients PROVE GoodRun(Texts, run'[x])
  <2>1. GoodRun(Texts, run[x])
    BY DEF IInv, RunsGood
  <2>2. CASE x = c
    BY <1>1, <2>1, <2>2, AdvancedGood
  <2>3. CASE x # c
    BY <1>1, <2>1, <2>3, AdvancedGood
  <2> QED BY <2>2, <2>3
<1>4. DiskTyped(Texts)'
  BY DEF Accepted, disk, IInv, DiskTyped
<1> QED BY <1>2, <1>3, <1>4, RunsGoodKept

-----------------------------------------------------------------------------
(* Every step keeps the invariant.                                         *)

LEMMA StartKeeps ==
    ASSUME NEW Texts, IInv(Texts), NEW c \in Clients, Start(c)
    PROVE  IInv(Texts)'
<1>1. PICK plan \in SUBSET Matches(c, View) :
         run' = [run EXCEPT ![c] = [phase |-> "moving", todo |-> plan, cur |-> cursor,
                                    based |-> cursor, pushed |-> FALSE, alone |-> TRUE, snap |-> View]]
  BY DEF Start
<1>2. plan \subseteq Docs \X Paths
  BY DEF Matches, Missing, New, LiveIn
<1> DEFINE r == [phase |-> "moving", todo |-> plan, cur |-> cursor,
                 based |-> cursor, pushed |-> FALSE, alone |-> TRUE, snap |-> View]
<1>3. Sound(Texts, View) /\ Current(View, cursor)
  BY ViewSound DEF IInv
<1>4. r \in Runs(Texts)
  BY <1>2, <1>3 DEF Runs, Phases, Sound, IInv, SharedTyped
<1>5. GoodRun(Texts, r)
  BY <1>3, <1>4 DEF GoodRun, IInv, SharedTyped
<1>6. UNCHANGED <<shared, disk, acts>>
  BY DEF Start
<1>7. RunsGood(Texts)'
  BY <1>1, <1>5, <1>6, OneRunKept
<1> QED BY <1>6, <1>7, SharedFrame DEF IInv, DiskTyped, disk

LEMMA PushMoveKeeps ==
    ASSUME NEW Texts, Closed(Texts), IInv(Texts), NEW c \in Clients, NEW d \in Docs, NEW p \in Paths,
           PushMove(c, d, p)
    PROVE  IInv(Texts)'
<1>1. Stamped(Texts)
  BY RequestStamps, SyncAssumption DEF PushMove, IInv, Closed
<1>2. RunsGood(Texts)' /\ DiskTyped(Texts)'
  BY <1>1, AcceptedKept DEF PushMove
<1> QED BY <1>1, <1>2 DEF IInv, Stamped

LEMMA PushCreateKeeps ==
    ASSUME NEW Texts, Closed(Texts), IInv(Texts), NEW c \in Clients, NEW p \in Paths,
           PushCreate(c, p)
    PROVE  IInv(Texts)'
<1>1. files[c][p] \in Texts
  BY DEF PushCreate, Present, IInv, DiskTyped
<1>2. PICK d \in Docs \ Created : Place(d, p, files[c][p])
  BY DEF PushCreate
<1>3. Stamped(Texts)
  BY <1>1, <1>2, RequestStamps, SyncAssumption DEF IInv
<1>4. RunsGood(Texts)' /\ DiskTyped(Texts)'
  BY <1>3, AcceptedKept DEF PushCreate
<1> QED BY <1>3, <1>4 DEF IInv, Stamped

LEMMA PushDeleteKeeps ==
    ASSUME NEW Texts, Closed(Texts), IInv(Texts), NEW c \in Clients, NEW d \in Docs, PushDelete(c, d)
    PROVE  IInv(Texts)'
<1>1. Stamped(Texts)
  BY RequestStamps, SyncAssumption DEF PushDelete, IInv, Closed
<1>2. RunsGood(Texts)' /\ DiskTyped(Texts)'
  BY <1>1, AcceptedKept DEF PushDelete
<1> QED BY <1>1, <1>2 DEF IInv, Stamped

LEMMA PushUpdateKeeps ==
    ASSUME NEW Texts, Closed(Texts), IInv(Texts), NEW c \in Clients, NEW d \in Docs, PushUpdate(c, d)
    PROVE  IInv(Texts)'
<1> DEFINE p == run[c].snap[d].path
           merged == Converge(Base(c, d), text[d], files[c][p])
<1>1. GoodRun(Texts, run[c]) /\ run[c].phase = "updating" /\ d \in run[c].todo
  BY DEF IInv, RunsGood, PushUpdate, Turn
<1>2. run[c].snap[d].live
  BY <1>1 DEF GoodRun, LiveIn
<1>3. p \in Paths /\ run[c].snap[d].text \in Texts
  BY <1>1, <1>2 DEF GoodRun, Sound
<1>4. files[c][p] \in Texts
  BY <1>3 DEF PushUpdate, Present, IInv, DiskTyped
<1>5. Base(c, d) \in Texts
  BY <1>3 DEF Base, IInv, DiskTyped
<1>6. text[d] \in Texts
  BY DEF PushUpdate, Rewrite, IInv, SharedTyped
<1>7. merged \in Texts
  BY <1>4, <1>5, <1>6 DEF Closed
<1>8. Stamped(Texts)
  BY <1>3, <1>7, RequestStamps, SyncAssumption DEF PushUpdate, IInv
<1>9. RunsGood(Texts)' /\ DiskTyped(Texts)'
  BY <1>8, AcceptedKept DEF PushUpdate
<1> QED BY <1>8, <1>9 DEF IInv, Stamped

LEMMA SkipKeeps ==
    ASSUME NEW Texts, IInv(Texts), NEW c \in Clients, NEW d \in Docs, Skip(c, d)
    PROVE  IInv(Texts)'
<1>1. UNCHANGED <<shared, disk, acts>>
  BY DEF Skip
<1>2. run' = [run EXCEPT ![c] = SkippedItem(run[c], d)]
  BY DEF Skip, SkippedItem
<1>3. GoodRun(Texts, SkippedItem(run[c], d))
  BY AdvancedGood DEF IInv, RunsGood
<1>4. RunsGood(Texts)'
  BY <1>1, <1>2, <1>3, OneRunKept
<1> QED BY <1>1, <1>4, SharedFrame DEF IInv, DiskTyped, disk

\* A run that ends before it touches the disk.
LEMMA EndKeeps ==
    ASSUME NEW Texts, IInv(Texts), NEW c \in Clients, run' = [run EXCEPT ![c] = NoRun],
           UNCHANGED <<shared, disk>>, acts' \in 0..MaxActs
    PROVE  IInv(Texts)'
<1>1. RunsGood(Texts)'
  BY NoRunGood, OneRunKept DEF IInv
<1> QED BY <1>1, SharedFrame DEF IInv, DiskTyped, disk

LEMMA AdvanceKeeps ==
    ASSUME NEW Texts, IInv(Texts), NEW c \in Clients, Advance(c)
    PROVE  IInv(Texts)'
<1> DEFINE r == Refreshed(c)
           Moved(ph, todo) == [r EXCEPT !.phase = ph, !.todo = todo]
<1>1. UNCHANGED <<shared, disk, acts>> /\ run[c].phase # "idle"
  BY DEF Advance, Enter
<1>2. /\ r \in Runs(Texts) /\ r.cur <= cursor
      /\ Sound(Texts, r.snap) /\ Current(r.snap, r.cur)
  BY <1>1, RefreshedGood DEF IInv, RunsGood
<1>3. /\ New(c, r.snap) \subseteq Paths
      /\ ToDelete(c, r.snap) \subseteq LiveIn(r.snap) /\ ToUpdate(c, r.snap) \subseteq LiveIn(r.snap)
      /\ LiveIn(r.snap) \subseteq Docs
  BY DEF New, ToDelete, Missing, ToUpdate, LiveIn
<1>4. \/ run' = [run EXCEPT ![c] = Moved("creating", New(c, r.snap))]
      \/ run' = [run EXCEPT ![c] = Moved("deleting", ToDelete(c, r.snap))]
      \/ run' = [run EXCEPT ![c] = Moved("updating", ToUpdate(c, r.snap))]
  BY DEF Advance, Enter
<1> HIDE DEF r
<1>5. /\ GoodRun(Texts, Moved("creating", New(c, r.snap)))
      /\ GoodRun(Texts, Moved("deleting", ToDelete(c, r.snap)))
      /\ GoodRun(Texts, Moved("updating", ToUpdate(c, r.snap)))
  BY <1>2, <1>3, EnteredGood DEF Phases
<1> HIDE DEF Moved
<1>6. RunsGood(Texts)'
  BY <1>1, <1>4, <1>5, OneRunKept
<1> QED BY <1>1, <1>6, SharedFrame DEF IInv, DiskTyped, disk

\* A sound snapshot writes texts at live paths and nothing elsewhere.
LEMMA FilesTyped ==
    ASSUME NEW Texts, NEW snap, Sound(Texts, snap)
    PROVE  /\ LivePathsIn(snap) \subseteq Paths
           /\ \A p \in Paths : IF p \in LivePathsIn(snap) THEN FilesOf(snap)[p] \in Texts
                               ELSE FilesOf(snap)[p] = NoText
           /\ FilesOf(snap) \in [Paths -> Texts \cup {NoText}]
<1>1. LivePathsIn(snap) \subseteq Paths
  BY DEF LivePathsIn, LiveIn, Sound
<1>2. ASSUME NEW p \in Paths, p \in LivePathsIn(snap) PROVE FilesOf(snap)[p] \in Texts
  <2> DEFINE d == CHOOSE e \in LiveIn(snap) : snap[e].path = p
  <2>1. d \in LiveIn(snap)
    BY <1>2 DEF LivePathsIn
  <2>2. FilesOf(snap)[p] = snap[d].text
    BY <1>2 DEF FilesOf
  <2> QED BY <2>1, <2>2 DEF LiveIn, Sound
<1>3. ASSUME NEW p \in Paths, p \notin LivePathsIn(snap) PROVE FilesOf(snap)[p] = NoText
  BY <1>3 DEF FilesOf
<1>4. FilesOf(snap) = [p \in Paths |-> FilesOf(snap)[p]]
  BY DEF FilesOf
<1> QED BY <1>1, <1>2, <1>3, <1>4

LEMMA MaterializedTyped ==
    ASSUME NEW Texts, NEW snap, Sound(Texts, snap), DiskTyped(Texts), NEW c \in Clients
    PROVE  Materialized(c, snap) \in [Paths -> Texts \cup {NoText}]
<1>1. files[c] \in [Paths -> Texts \cup {NoText}]
  BY DEF DiskTyped
<1> QED BY <1>1, FilesTyped DEF Materialized

\* The saved checkpoints are well-typed.
LEMMA SavedTyped ==
    ASSUME NEW Texts, NEW snap, Sound(Texts, snap), DiskTyped(Texts), NEW c \in Clients
    PROVE  /\ SavePaths(c, snap) => savedPaths' \in [Clients -> SUBSET Paths]
           /\ SaveBodies(c, snap) => savedBodies' \in [Clients -> [Docs -> Texts \cup {NoText}]]
<1>1. LivePathsIn(snap) \subseteq Paths
  BY FilesTyped
<1>2. [d \in Docs |-> IF snap[d].live THEN snap[d].text ELSE NoText] \in [Docs -> Texts \cup {NoText}]
  BY DEF Sound
<1> QED BY <1>1, <1>2 DEF DiskTyped, SavePaths, SaveBodies

LEMMA FinishKeeps ==
    ASSUME NEW Texts, IInv(Texts), NEW c \in Clients, Finish(c)
    PROVE  IInv(Texts)'
<1> DEFINE snap == Refreshed(c).snap
<1>1. run[c].phase # "idle" /\ UNCHANGED <<shared, acts>> /\ run' = [run EXCEPT ![c] = NoRun]
  BY DEF Finish, Done
<1>2. Sound(Texts, snap)
  BY <1>1, RefreshedGood DEF IInv, RunsGood
<1>3. /\ savedPaths' \in [Clients -> SUBSET Paths]
      /\ savedBodies' \in [Clients -> [Docs -> Texts \cup {NoText}]]
  BY <1>2, SavedTyped DEF Finish, IInv
<1>4. /\ files' \in [Clients -> [Paths -> Texts \cup {NoText}]]
      /\ applied' \in [Clients -> [Paths -> Texts \cup {NoText}]]
      /\ rooted' \subseteq Clients
  <2>1. CASE Held(c)
    BY <2>1 DEF Finish, IInv, DiskTyped
  <2>2. CASE ~Held(c)
    <3>1. Materialized(c, snap) \in [Paths -> Texts \cup {NoText}]
      BY <1>2, MaterializedTyped DEF IInv
    <3>2. /\ files' = [files EXCEPT ![c] = Materialized(c, snap)]
          /\ applied' = [applied EXCEPT ![c] = Materialized(c, snap)]
          /\ rooted' = rooted \cup {c}
      BY <2>2 DEF Finish
    <3> QED BY <3>1, <3>2 DEF IInv, DiskTyped
  <2> QED BY <2>1, <2>2
<1>5. DiskTyped(Texts)'
  BY <1>1, <1>3, <1>4 DEF IInv, DiskTyped
<1>6. RunsGood(Texts)'
  BY <1>1, NoRunGood, OneRunKept DEF IInv
<1> QED BY <1>1, <1>5, <1>6, SharedFrame DEF IInv

LEMMA CrashApplyingKeeps ==
    ASSUME NEW Texts, Closed(Texts), IInv(Texts), NEW c \in Clients, CrashApplying(c)
    PROVE  IInv(Texts)'
<1> DEFINE snap == Refreshed(c).snap
           writes == LivePathsIn(snap)
<1>1. /\ run[c].phase # "idle" /\ UNCHANGED shared /\ run' = [run EXCEPT ![c] = NoRun]
      /\ rooted' = rooted \cup {c} /\ applied' = [applied EXCEPT ![c] = files'[c]]
      /\ acts < MaxActs /\ acts' = acts + 1
  BY DEF CrashApplying, Done, Act
<1>2. Sound(Texts, snap)
  BY <1>1, RefreshedGood DEF IInv, RunsGood
<1>3. Materialized(c, snap) \in [Paths -> Texts \cup {NoText}]
  BY <1>2, MaterializedTyped DEF IInv
<1>4. PICK done \in SUBSET Paths, torn \in SUBSET writes, gone \in SUBSET writes :
        files' = [files EXCEPT ![c] = HalfWritten(c, snap, done, torn, gone)]
  BY DEF CrashApplying
<1>4a. \/ UNCHANGED <<savedPaths, savedBodies>>
       \/ \E kept \in SUBSET writes :
            savedPaths' = [savedPaths EXCEPT ![c] = kept] /\ UNCHANGED savedBodies
       \/ /\ SavePaths(c, snap)
          /\ savedBodies' = [savedBodies EXCEPT ![c] = [d \in Docs |-> NoText]]
  BY Zenon DEF CrashApplying
<1> DEFINE left == HalfWritten(c, snap, done, torn, gone)
<1>5. files[c] \in [Paths -> Texts \cup {NoText}]
  BY DEF IInv, DiskTyped
<1>6. left \in [Paths -> Texts \cup {NoText}]
  BY <1>3, <1>5 DEF Closed, HalfWritten
<1>7. files' = [files EXCEPT ![c] = left]
  BY <1>4
<1> HIDE DEF left
<1>8. /\ files' \in [Clients -> [Paths -> Texts \cup {NoText}]]
      /\ applied' \in [Clients -> [Paths -> Texts \cup {NoText}]]
  BY <1>1, <1>6, <1>7 DEF IInv, DiskTyped
<1>9. writes \subseteq Paths
  BY <1>2, FilesTyped
<1>10. /\ savedPaths' \in [Clients -> SUBSET Paths]
       /\ savedBodies' \in [Clients -> [Docs -> Texts \cup {NoText}]]
  <2>1. SavePaths(c, snap) => savedPaths' \in [Clients -> SUBSET Paths]
    BY <1>2, SavedTyped DEF IInv
  <2> HIDE DEF snap
  <2>2. CASE UNCHANGED <<savedPaths, savedBodies>>
    BY <2>2 DEF IInv, DiskTyped
  <2>3. CASE \E kept \in SUBSET writes :
               savedPaths' = [savedPaths EXCEPT ![c] = kept] /\ UNCHANGED savedBodies
    BY <2>3, <1>9 DEF IInv, DiskTyped
  <2>4. CASE /\ SavePaths(c, snap)
             /\ savedBodies' = [savedBodies EXCEPT ![c] = [d \in Docs |-> NoText]]
    BY <2>1, <2>4 DEF IInv, DiskTyped
  <2> QED BY <1>4a, <2>2, <2>3, <2>4
<1>11. DiskTyped(Texts)'
  BY <1>1, <1>8, <1>10, SyncAssumption DEF IInv, DiskTyped
<1>12. RunsGood(Texts)'
  BY <1>1, NoRunGood, OneRunKept DEF IInv
<1> QED BY <1>1, <1>11, <1>12, SharedFrame DEF IInv

LEMMA ActTyped ==
    ASSUME NEW Texts, DiskTyped(Texts), Act
    PROVE  acts' \in 0..MaxActs /\ acts + 1 \in Nat
  BY SyncAssumption DEF DiskTyped, Act

LEMMA SiblingKeeps ==
    ASSUME NEW Texts, IInv(Texts), NEW c \in Clients, Sibling(c)
    PROVE  IInv(Texts)'
<1>1. UNCHANGED <<shared, files, rooted, savedPaths, applied, run>> /\ Act
  BY DEF Sibling
<1>2. savedBodies' \in [Clients -> [Docs -> Texts \cup {NoText}]]
  BY DEF Sibling, IInv, DiskTyped
<1>3. DiskTyped(Texts)'
  BY <1>1, <1>2, ActTyped DEF IInv, DiskTyped
<1>4. RunsGood(Texts)'
  BY <1>1, RunsGoodKept DEF IInv, RunsGood
<1> QED BY <1>1, <1>3, <1>4, SharedFrame DEF IInv

\* Whatever the user does to the files.
LEMMA UserKeeps ==
    ASSUME NEW Texts, IInv(Texts), NEW c \in Clients, UserActs(c),
           files' \in [Clients -> [Paths -> Texts \cup {NoText}]], rooted' \subseteq Clients
    PROVE  IInv(Texts)'
<1>1. UNCHANGED <<shared, savedPaths, savedBodies, applied>> /\ Act
      /\ run' = [run EXCEPT ![c] = NotAlone(run[c])]
  BY DEF UserActs, NotAlone
<1>2. DiskTyped(Texts)'
  BY <1>1, ActTyped DEF IInv, DiskTyped
<1>3. GoodRun(Texts, NotAlone(run[c]))
  BY AdvancedGood DEF IInv, RunsGood
<1>4. RunsGood(Texts)'
  BY <1>1, <1>3, OneRunKept
<1> QED BY <1>1, <1>2, <1>4, SharedFrame DEF IInv

LEMMA UserStepKeeps ==
    ASSUME NEW Texts, Closed(Texts), IInv(Texts), NEW c \in Clients, User(c)
    PROVE  IInv(Texts)'
<1>1. ASSUME NEW p \in Paths, NEW t \in Edited(files[c][p], acts + 1), Write(c, p, t) PROVE IInv(Texts)'
  <2>1. files[c][p] \in Texts \cup {NoText} /\ acts + 1 \in Nat
    BY <1>1, ActTyped DEF IInv, DiskTyped, Write, UserActs
  <2>2. t \in Texts
    BY <2>1 DEF Closed
  <2>3. files' \in [Clients -> [Paths -> Texts \cup {NoText}]] /\ rooted' \subseteq Clients
    BY <1>1, <2>2 DEF Write, IInv, DiskTyped
  <2> QED BY <1>1, <2>3, UserKeeps DEF Write
<1>2. ASSUME NEW p \in Paths, Remove(c, p) PROVE IInv(Texts)'
  <2>1. files' \in [Clients -> [Paths -> Texts \cup {NoText}]] /\ rooted' \subseteq Clients
    BY <1>2 DEF Remove, IInv, DiskTyped
  <2> QED BY <1>2, <2>1, UserKeeps DEF Remove
<1>3. ASSUME NEW p \in Paths, NEW q \in Paths, Rename(c, p, q) PROVE IInv(Texts)'
  <2>1. files[c] \in [Paths -> Texts \cup {NoText}]
    BY DEF IInv, DiskTyped
  <2>2. files' = [files EXCEPT ![c] = [files[c] EXCEPT ![p] = NoText, ![q] = files[c][p]]]
    BY <1>3 DEF Rename, IInv, DiskTyped
  <2>3. [files[c] EXCEPT ![p] = NoText, ![q] = files[c][p]] \in [Paths -> Texts \cup {NoText}]
    BY <2>1
  <2>4. files' \in [Clients -> [Paths -> Texts \cup {NoText}]] /\ rooted' \subseteq Clients
    BY <1>3, <2>2, <2>3 DEF Rename, IInv, DiskTyped
  <2> QED BY <1>3, <2>4, UserKeeps DEF Rename
<1>4. ASSUME MoveRoot(c) PROVE IInv(Texts)'
  <2>1. files' \in [Clients -> [Paths -> Texts \cup {NoText}]] /\ rooted' \subseteq Clients
    BY <1>4 DEF MoveRoot, IInv, DiskTyped
  <2> QED BY <1>4, <2>1, UserKeeps DEF MoveRoot
<1> QED BY <1>1, <1>2, <1>3, <1>4 DEF User

LEMMA InitHolds ==
    ASSUME NEW Texts, Closed(Texts), Init
    PROVE  IInv(Texts)
<1>1. PICK t \in Seeds : IF t = NoText THEN SharedInit ELSE Seeded(t)
  BY DEF Init
<1>2. SharedTyped(Texts)
  <2>1. CASE t = NoText
    BY <1>1, <2>1 DEF SharedInit, SharedTyped, Created
  <2>2. CASE t # NoText
    <3>1. t \in Texts
      BY <2>2 DEF Closed
    <3> QED BY <1>1, <2>2, <3>1, SyncAssumption DEF Seeded, SharedTyped, Created
  <2> QED BY <2>1, <2>2
<1>3. FilesOf(View) \in [Paths -> Texts \cup {NoText}] /\ LivePathsIn(View) \subseteq Paths
  BY <1>2, ViewSound, FilesTyped
<1>4. text \in [Docs -> Texts \cup {NoText}]
  BY <1>2 DEF SharedTyped
<1>5. DiskTyped(Texts)
  BY <1>3, <1>4, SyncAssumption DEF Init, DiskTyped
<1>6. RunsGood(Texts)
  BY <1>2, NoRunGood DEF Init, RunsGood
<1> QED BY <1>2, <1>5, <1>6 DEF IInv

LEMMA NextKeeps ==
    ASSUME NEW Texts, Closed(Texts), IInv(Texts), [Next]_vars
    PROVE  IInv(Texts)'
<1>1. ASSUME NEW c \in Clients, Sync(c) PROVE IInv(Texts)'
  <2>1. CASE Refused(c)
    BY <2>1, EndKeeps DEF Refused, IInv, DiskTyped
  <2> QED BY <1>1, <2>1, StartKeeps, PushMoveKeeps, PushCreateKeeps, PushDeleteKeeps, PushUpdateKeeps,
             SkipKeeps, AdvanceKeeps, FinishKeeps DEF Sync
<1>2. ASSUME NEW c \in Clients, Crash(c) PROVE IInv(Texts)'
  BY <1>2, EndKeeps, ActTyped DEF Crash, IInv
<1>3. CASE UNCHANGED vars
  <2>1. RunsGood(Texts)'
    BY <1>3, RunsGoodKept DEF vars, IInv, RunsGood
  <2> QED BY <1>3, <2>1, SharedFrame DEF vars, IInv, DiskTyped
<1> QED BY <1>1, <1>2, <1>3, UserStepKeeps, CrashApplyingKeeps, SiblingKeeps DEF Next

\* Every variable keeps the type the code gives it, whatever happens to the
\* runs, the files and the checkpoints.
THEOREM TypeCorrect ==
    ASSUME NEW Texts, Closed(Texts)
    PROVE  Spec => []TypeOK
<1>1. Init => IInv(Texts)
  BY InitHolds
<1>2. IInv(Texts) /\ [Next]_vars => IInv(Texts)'
  BY NextKeeps
<1>3. IInv(Texts) => TypeOK
  BY InvariantSuffices
<1> QED BY <1>1, <1>2, <1>3, PTL DEF Spec

\* The snapshot of every run is current up to the run's cursor: merge_snapshots
\* and changes_since never leave an outdated entry in it.
THEOREM SnapshotsStayCurrent ==
    ASSUME NEW Texts, Closed(Texts)
    PROVE  Spec => []SnapshotsCurrent
<1>1. Init => IInv(Texts)
  BY InitHolds
<1>2. IInv(Texts) /\ [Next]_vars => IInv(Texts)'
  BY NextKeeps
<1>3. IInv(Texts) => SnapshotsCurrent
  BY InvariantSuffices
<1> QED BY <1>1, <1>2, <1>3, PTL DEF Spec

-----------------------------------------------------------------------------
(* Deletions, when runs finish or fail whole and mounts stay in place.      *)

\* A path counts as saved only if the last run put a file there, and only such
\* documents are deleted.
SavedWasApplied ==
    /\ rooted = Clients
    /\ \A c \in Clients :
         /\ \A p \in savedPaths[c] : applied[c][p] # NoText
         /\ run[c].phase = "deleting" => \A d \in run[c].todo : run[c].snap[d].path \in savedPaths[c]

LEMMA DeletesSaved ==
    ASSUME SavedWasApplied, NEW c \in Clients, NEW d \in Docs, PushDelete(c, d)
    PROVE  ~Passive(c)
<1> DEFINE p == run[c].snap[d].path
<1>1. p \in savedPaths[c] /\ files[c][p] = NoText
  BY DEF PushDelete, Turn, Present, SavedWasApplied
<1>2. applied[c][p] # NoText
  BY <1>1 DEF SavedWasApplied
<1> QED BY <1>1, <1>2 DEF Passive

\* It holds on while the checkpoints stay and every deletion left to do was
\* left to do on a saved path.
LEMMA SavedKept ==
    ASSUME SavedWasApplied, UNCHANGED <<rooted, savedPaths, applied>>,
           \A c \in Clients : run'[c].phase = "deleting" =>
              \A d \in run'[c].todo : run'[c].snap[d].path \in savedPaths[c]
    PROVE  SavedWasApplied'
  BY DEF SavedWasApplied

LEMMA PhaseAlike ==
    ASSUME NEW Texts, NEW r \in Runs(Texts), NEW i
    PROVE  /\ PushedItem(r, i).phase = r.phase /\ PushedItem(r, i).snap = r.snap
           /\ PushedItem(r, i).todo \subseteq r.todo
           /\ SkippedItem(r, i).phase = r.phase /\ SkippedItem(r, i).snap = r.snap
           /\ SkippedItem(r, i).todo \subseteq r.todo
           /\ NotAlone(r).phase = r.phase /\ NotAlone(r).snap = r.snap /\ NotAlone(r).todo = r.todo
  BY DEF Runs, PushedItem, SkippedItem, NotAlone

LEMMA FinishSaves ==
    ASSUME NEW Texts, Closed(Texts), IInv(Texts), SavedWasApplied, NEW c \in Clients, Finish(c)
    PROVE  SavedWasApplied'
<1> DEFINE snap == Refreshed(c).snap
<1>1. /\ rooted' = Clients /\ applied' = [applied EXCEPT ![c] = Materialized(c, snap)]
      /\ savedPaths' = [savedPaths EXCEPT ![c] = LivePathsIn(snap)]
      /\ run' = [run EXCEPT ![c] = NoRun] /\ run[c].phase # "idle"
  BY DEF Finish, Held, SavedWasApplied, SavePaths, Done
<1>2. Sound(Texts, snap)
  BY <1>1, RefreshedGood DEF IInv, RunsGood
<1>3. ASSUME NEW p \in LivePathsIn(snap) PROVE Materialized(c, snap)[p] # NoText
  <2>1. p \in Paths /\ FilesOf(snap)[p] # NoText
    BY <1>2, FilesTyped DEF Closed
  <2> QED BY <2>1 DEF Materialized
<1>4. NoRun.phase = "idle"
  BY DEF NoRun
<1> HIDE DEF snap
<1> QED BY <1>1, <1>3, <1>4 DEF SavedWasApplied, IInv, DiskTyped, RunsGood

\* A step of c's run that writes nothing to disk.
LEMMA RunStepSaves ==
    ASSUME NEW Texts, IInv(Texts), SavedWasApplied, NEW c \in Clients, NEW r,
           UNCHANGED <<rooted, savedPaths, applied>>, run' = [run EXCEPT ![c] = r],
           r.phase = "deleting" => \A d \in r.todo : r.snap[d].path \in savedPaths[c]
    PROVE  SavedWasApplied'
<1>1. ASSUME NEW x \in Clients, run'[x].phase = "deleting"
      PROVE  \A d \in run'[x].todo : run'[x].snap[d].path \in savedPaths[x]
  <2>1. CASE x = c
    BY <1>1, <2>1 DEF IInv, RunsGood
  <2>2. CASE x # c
    BY <1>1, <2>2 DEF IInv, RunsGood, SavedWasApplied
  <2> QED BY <2>1, <2>2
<1> QED BY <1>1, SavedKept

LEMMA AcceptedSaves ==
    ASSUME NEW Texts, IInv(Texts), SavedWasApplied, NEW c \in Clients, NEW i, Accepted(c, i)
    PROVE  SavedWasApplied'
<1>1. UNCHANGED <<rooted, savedPaths, applied>>
  BY DEF Accepted, disk
<1>2. \A x \in Clients : run'[x] = IF x = c THEN PushedItem(run[c], i) ELSE NotAlone(run[x])
  BY DEF Accepted, PushedItem, NotAlone
<1>3. ASSUME NEW x \in Clients
      PROVE  run'[x].phase = run[x].phase /\ run'[x].snap = run[x].snap /\ run'[x].todo \subseteq run[x].todo
  <2>1. run[x] \in Runs(Texts)
    BY DEF IInv, RunsGood, GoodRun
  <2>2. CASE x = c
    BY <1>2, <2>1, <2>2, PhaseAlike
  <2>3. CASE x # c
    BY <1>2, <2>1, <2>3, PhaseAlike
  <2> QED BY <2>2, <2>3
<1> QED BY <1>1, <1>3, SavedKept DEF SavedWasApplied

LEMMA AdvanceSaves ==
    ASSUME NEW Texts, IInv(Texts), SavedWasApplied, NEW c \in Clients, Advance(c)
    PROVE  SavedWasApplied'
<1> DEFINE r == Refreshed(c)
           Moved(ph, todo) == [r EXCEPT !.phase = ph, !.todo = todo]
<1>1. UNCHANGED <<rooted, savedPaths, applied>> /\ run[c].phase # "idle"
  BY DEF Advance, Enter, disk
<1>2. r \in Runs(Texts)
  BY <1>1, RefreshedGood DEF IInv, RunsGood
<1>3. \A ph, todo : Moved(ph, todo).phase = ph /\ Moved(ph, todo).todo = todo /\ Moved(ph, todo).snap = r.snap
  BY <1>2 DEF Runs
<1>4. \/ run' = [run EXCEPT ![c] = Moved("creating", New(c, r.snap))]
      \/ run' = [run EXCEPT ![c] = Moved("deleting", ToDelete(c, r.snap))]
      \/ run' = [run EXCEPT ![c] = Moved("updating", ToUpdate(c, r.snap))]
  BY DEF Advance, Enter
<1>5. \A d \in ToDelete(c, r.snap) : r.snap[d].path \in savedPaths[c]
  BY DEF ToDelete, Missing
<1> HIDE DEF r, Moved
<1>6. ASSUME NEW s, run' = [run EXCEPT ![c] = s],
             s.phase = "deleting" => s.todo = ToDelete(c, r.snap) /\ s.snap = r.snap
      PROVE  SavedWasApplied'
  BY <1>1, <1>5, <1>6, RunStepSaves
<1>7. CASE run' = [run EXCEPT ![c] = Moved("creating", New(c, r.snap))]
  <2> DEFINE s == Moved("creating", New(c, r.snap))
  <2>1. s.phase = "creating"
    BY <1>3
  <2> HIDE DEF s
  <2>2. run' = [run EXCEPT ![c] = s]
    BY <1>7 DEF s
  <2> QED BY <2>1, <2>2, <1>6
<1>8. CASE run' = [run EXCEPT ![c] = Moved("deleting", ToDelete(c, r.snap))]
  <2> DEFINE s == Moved("deleting", ToDelete(c, r.snap))
  <2>1. s.todo = ToDelete(c, r.snap) /\ s.snap = r.snap
    BY <1>3
  <2> HIDE DEF s
  <2>2. run' = [run EXCEPT ![c] = s]
    BY <1>8 DEF s
  <2> QED BY <2>1, <2>2, <1>6
<1>9. CASE run' = [run EXCEPT ![c] = Moved("updating", ToUpdate(c, r.snap))]
  <2> DEFINE s == Moved("updating", ToUpdate(c, r.snap))
  <2>1. s.phase = "updating"
    BY <1>3
  <2> HIDE DEF s
  <2>2. run' = [run EXCEPT ![c] = s]
    BY <1>9 DEF s
  <2> QED BY <2>1, <2>2, <1>6
<1> QED BY <1>4, <1>7, <1>8, <1>9

LEMMA SyncSaves ==
    ASSUME NEW Texts, Closed(Texts), IInv(Texts), SavedWasApplied, NEW c \in Clients, Sync(c)
    PROVE  SavedWasApplied'
<1>1. CASE Start(c)
  <2>1. PICK plan : run' = [run EXCEPT ![c] = [phase |-> "moving", todo |-> plan, cur |-> cursor,
                              based |-> cursor, pushed |-> FALSE, alone |-> TRUE, snap |-> View]]
    BY <1>1 DEF Start
  <2>2. UNCHANGED <<rooted, savedPaths, applied>>
    BY <1>1 DEF Start, disk
  <2> QED BY <2>1, <2>2, RunStepSaves
<1>2. ASSUME NEW i, Accepted(c, i) PROVE SavedWasApplied'
  BY <1>2, AcceptedSaves
<1>3. ASSUME NEW d \in Docs, Skip(c, d) PROVE SavedWasApplied'
  <2>1. UNCHANGED <<rooted, savedPaths, applied>> /\ run' = [run EXCEPT ![c] = SkippedItem(run[c], d)]
    BY <1>3 DEF Skip, disk, SkippedItem
  <2>2. run[c] \in Runs(Texts)
    BY DEF IInv, RunsGood, GoodRun
  <2>3. /\ SkippedItem(run[c], d).phase = run[c].phase /\ SkippedItem(run[c], d).snap = run[c].snap
        /\ SkippedItem(run[c], d).todo \subseteq run[c].todo
    BY <2>2, PhaseAlike
  <2>4. SkippedItem(run[c], d).phase = "deleting" =>
           \A e \in SkippedItem(run[c], d).todo : SkippedItem(run[c], d).snap[e].path \in savedPaths[c]
    BY <2>3 DEF SavedWasApplied
  <2> QED BY <2>1, <2>4, RunStepSaves
<1>4. CASE Refused(c)
  <2>1. UNCHANGED <<rooted, savedPaths, applied>> /\ run' = [run EXCEPT ![c] = NoRun] /\ NoRun.phase = "idle"
    BY <1>4 DEF Refused, disk, NoRun
  <2> QED BY <2>1, RunStepSaves
<1> QED BY <1>1, <1>2, <1>3, <1>4, AdvanceSaves, FinishSaves
        DEF Sync, PushMove, PushCreate, PushDelete, PushUpdate

LEMMA OthersSave ==
    ASSUME NEW Texts, IInv(Texts), SavedWasApplied, ~Crashes, ~RootMoves, NEW c \in Clients,
           User(c) \/ Crash(c) \/ CrashApplying(c) \/ Sibling(c)
    PROVE  SavedWasApplied'
<1>1. ASSUME User(c) PROVE SavedWasApplied'
  <2>1. UserActs(c) /\ rooted' = rooted
    BY <1>1 DEF User, Write, Remove, Rename, MoveRoot
  <2>2. UNCHANGED <<rooted, savedPaths, applied>> /\ run' = [run EXCEPT ![c] = NotAlone(run[c])]
    BY <2>1 DEF UserActs, NotAlone
  <2>3. run[c] \in Runs(Texts)
    BY DEF IInv, RunsGood, GoodRun
  <2>4. /\ NotAlone(run[c]).phase = run[c].phase /\ NotAlone(run[c]).snap = run[c].snap
        /\ NotAlone(run[c]).todo = run[c].todo
    BY <2>3, PhaseAlike
  <2>5. NotAlone(run[c]).phase = "deleting" =>
           \A d \in NotAlone(run[c]).todo : NotAlone(run[c]).snap[d].path \in savedPaths[c]
    BY <2>4 DEF SavedWasApplied
  <2> QED BY <2>2, <2>5, RunStepSaves
<1>2. CASE Sibling(c)
  BY <1>2 DEF Sibling, SavedWasApplied
<1> QED BY <1>1, <1>2 DEF Crash, CrashApplying

LEMMA NextSaves ==
    ASSUME NEW Texts, Closed(Texts), IInv(Texts), SavedWasApplied, ~Crashes, ~RootMoves, [Next]_vars
    PROVE  SavedWasApplied'
<1>1. CASE UNCHANGED vars
  BY <1>1 DEF vars, SavedWasApplied
<1> QED BY <1>1, SyncSaves, OthersSave DEF Next

\* While no run is cut off in the middle of writing and no mount directory is
\* moved away, a checkout its user has not touched never deletes a document.
THEOREM UntouchedNeverDeletes ==
    ASSUME NEW Texts, Closed(Texts), ~Crashes, ~RootMoves
    PROVE  Spec => PassiveNeverDeletes
<1> DEFINE I == IInv(Texts) /\ SavedWasApplied
<1>1. Init => I
  <2> SUFFICES ASSUME Init PROVE I
    OBVIOUS
  <2>1. IInv(Texts)
    BY InitHolds
  <2>2. \A p \in LivePathsIn(View) : FilesOf(View)[p] # NoText
    BY <2>1, ViewSound, FilesTyped DEF IInv, Closed
  <2>3. NoRun.phase = "idle" /\ LivePathsIn(View) \subseteq Paths
    BY <2>1, ViewSound, FilesTyped DEF NoRun, IInv
  <2> QED BY <2>1, <2>2, <2>3 DEF Init, SavedWasApplied
<1>2. I /\ [Next]_vars => I'
  BY NextKeeps, NextSaves
<1>3. I /\ [Next]_vars => [\A c \in Clients, d \in Docs : PushDelete(c, d) => ~Passive(c)]_vars
  BY DeletesSaved
<1> HIDE DEF I
<1> QED BY <1>1, <1>2, <1>3, PTL DEF Spec, PassiveNeverDeletes

-----------------------------------------------------------------------------
(* What the server has recorded.                                           *)

\* The server recorded every line a snapshot's live documents have.
Known(snap) == \A d \in Docs : snap[d].live => LinesOf(snap[d].text) \subseteq recorded

TextsKnown == \A d \in live : LinesOf(text[d]) \subseteq recorded

SavedKnown ==
    \A c \in Clients : \A d \in Docs :
       savedBodies[c][d] # NoText => LinesOf(savedBodies[c][d]) \subseteq recorded

RunsKnown == \A c \in Clients : run[c].phase # "idle" => Known(run[c].snap)

Records == TextsKnown /\ SavedKnown /\ RunsKnown

\* An edit converges to a text that has every line the edit added.
KeepsAdditions(Texts) ==
    \A base, current, incoming \in Texts :
       LinesOf(incoming) \ LinesOf(base) \subseteq LinesOf(Converge(base, current, incoming))

LEMMA KnownKept ==
    ASSUME NEW snap, Known(snap), recorded \subseteq recorded'
    PROVE  Known(snap)'
  BY DEF Known

LEMMA ViewKnown ==
    ASSUME TextsKnown
    PROVE  Known(View)
  BY DEF Known, TextsKnown, View

LEMMA MergedKnown ==
    ASSUME NEW snap, NEW cur, Known(snap), TextsKnown
    PROVE  Known(Merged(snap, cur))
<1>1. ASSUME NEW d \in Docs, Merged(snap, cur)[d].live
      PROVE  LinesOf(Merged(snap, cur)[d].text) \subseteq recorded
  <2>1. CASE stamp[d] > cur
    <3>1. Merged(snap, cur)[d] = View[d]
      BY <2>1 DEF Merged
    <3>2. View[d].live
      BY <1>1, <3>1
    <3> QED BY <3>1, <3>2, ViewKnown DEF Known
  <2>2. CASE ~(stamp[d] > cur)
    BY <1>1, <2>2 DEF Merged, Known
  <2> QED BY <2>1, <2>2
<1> QED BY <1>1 DEF Known

LEMMA FilesKnown ==
    ASSUME NEW snap, Known(snap), NEW p \in Paths, FilesOf(snap)[p] # NoText
    PROVE  LinesOf(FilesOf(snap)[p]) \subseteq recorded
<1>1. p \in LivePathsIn(snap)
  BY DEF FilesOf
<1>2. \E d \in LiveIn(snap) : snap[d].path = p
  BY <1>1 DEF LivePathsIn
<1>3. PICK d : d = CHOOSE e \in LiveIn(snap) : snap[e].path = p
  OBVIOUS
<1>4. d \in LiveIn(snap) /\ snap[d].path = p
  BY <1>2, <1>3
<1>5. FilesOf(snap)[p] = snap[d].text
  BY <1>1, <1>3 DEF FilesOf
<1> QED BY <1>4, <1>5 DEF Known, LiveIn

LEMMA RefreshedKnown ==
    ASSUME NEW Texts, IInv(Texts), TextsKnown, RunsKnown, NEW c \in Clients, run[c].phase # "idle"
    PROVE  Known(Refreshed(c).snap)
<1>1. run[c] \in Runs(Texts) /\ Known(run[c].snap)
  BY DEF IInv, RunsGood, GoodRun, RunsKnown
<1>2. CASE run[c].pushed
  <2>1. Refreshed(c).snap = Merged(run[c].snap, run[c].cur)
    BY <1>1, <1>2 DEF Refreshed, Runs
  <2>2. Known(Merged(run[c].snap, run[c].cur))
    BY <1>1, MergedKnown
  <2> QED BY <2>1, <2>2
<1>3. CASE ~run[c].pushed
  BY <1>1, <1>3 DEF Refreshed
<1> QED BY <1>2, <1>3

\* A request records the text it leaves the document with.
LEMMA RequestRecords ==
    ASSUME NEW Texts, IInv(Texts), TextsKnown, NEW d \in Docs, recorded \subseteq recorded',
           \/ \E p, t : Place(d, p, t) /\ LinesOf(t) \subseteq recorded'
           \/ \E t : Rewrite(d, t) /\ LinesOf(t) \subseteq recorded'
           \/ Delete(d)
           \/ \E p : Move(d, p)
    PROVE  TextsKnown'
<1>1. text \in [Docs -> Texts \cup {NoText}] /\ live \subseteq Docs
  BY DEF IInv, SharedTyped, Created
<1>2. ASSUME NEW t, NEW p, Place(d, p, t), LinesOf(t) \subseteq recorded' PROVE TextsKnown'
  BY <1>1, <1>2 DEF Place, TextsKnown
<1>3. ASSUME NEW t, Rewrite(d, t), LinesOf(t) \subseteq recorded' PROVE TextsKnown'
  BY <1>1, <1>3 DEF Rewrite, TextsKnown
<1>4. CASE Delete(d)
  BY <1>1, <1>4 DEF Delete, TextsKnown
<1>5. ASSUME NEW p, Move(d, p) PROVE TextsKnown'
  BY <1>5 DEF Move, TextsKnown
<1> QED BY <1>2, <1>3, <1>4, <1>5

\* Runs whose phase and snapshot stay, and one that takes a step.
LEMMA RunsKnownKept ==
    ASSUME RunsKnown, recorded \subseteq recorded',
           \A x \in Clients : run'[x].phase # "idle" =>
              \/ run[x].phase # "idle" /\ run'[x].snap = run[x].snap
              \/ \A d \in Docs : run'[x].snap[d].live => LinesOf(run'[x].snap[d].text) \subseteq recorded'
    PROVE  RunsKnown'
<1>1. ASSUME NEW x \in Clients, run'[x].phase # "idle", NEW d \in Docs, run'[x].snap[d].live
      PROVE  LinesOf(run'[x].snap[d].text) \subseteq recorded'
  BY <1>1 DEF RunsKnown, Known
<1> QED BY <1>1 DEF RunsKnown, Known

LEMMA AcceptedKnown ==
    ASSUME NEW Texts, IInv(Texts), RunsKnown, NEW c \in Clients, NEW i, Accepted(c, i),
           recorded \subseteq recorded'
    PROVE  RunsKnown'
<1>1. \A x \in Clients : run'[x] = IF x = c THEN PushedItem(run[c], i) ELSE NotAlone(run[x])
  BY DEF Accepted, PushedItem, NotAlone
<1>2. ASSUME NEW x \in Clients PROVE run'[x].phase = run[x].phase /\ run'[x].snap = run[x].snap
  <2>1. run[x] \in Runs(Texts)
    BY DEF IInv, RunsGood, GoodRun
  <2>2. CASE x = c
    BY <1>1, <2>1, <2>2, PhaseAlike
  <2>3. CASE x # c
    BY <1>1, <2>1, <2>3, PhaseAlike
  <2> QED BY <2>2, <2>3
<1> QED BY <1>2, RunsKnownKept

\* One run alone.
LEMMA OneRunKnown ==
    ASSUME NEW Texts, IInv(Texts), RunsKnown, NEW c \in Clients, NEW r, run' = [run EXCEPT ![c] = r],
           recorded' = recorded, r.phase # "idle" => Known(r.snap)
    PROVE  RunsKnown'
<1>1. run'[c] = r /\ \A x \in Clients \ {c} : run'[x] = run[x]
  BY DEF IInv, RunsGood
<1> QED BY <1>1 DEF RunsKnown, Known

\* Checkpoints written from a known snapshot.
LEMMA SavedKnownKept ==
    ASSUME NEW Texts, IInv(Texts), SavedKnown, NEW c \in Clients, NEW snap, Known(snap),
           recorded' = recorded,
           UNCHANGED savedBodies \/ SaveBodies(c, snap)
    PROVE  SavedKnown'
<1>1. CASE UNCHANGED savedBodies
  BY <1>1 DEF SavedKnown
<1>2. CASE SaveBodies(c, snap)
  <2>1. PICK b : b = [d \in Docs |-> IF snap[d].live THEN snap[d].text ELSE NoText]
    OBVIOUS
  <2>2. savedBodies' = [savedBodies EXCEPT ![c] = b] /\ savedBodies \in [Clients -> [Docs -> Texts \cup {NoText}]]
    BY <1>2, <2>1 DEF SaveBodies, IInv, DiskTyped
  <2>3. \A d \in Docs : b[d] # NoText => LinesOf(b[d]) \subseteq recorded
    BY <2>1 DEF Known
  <2> QED BY <2>2, <2>3 DEF SavedKnown
<1> QED BY <1>1, <1>2

\* What a run pushes is recorded; until its last step it writes nothing to disk.
LEMMA PushesRecord ==
    ASSUME NEW Texts, IInv(Texts), Records, NEW c \in Clients, Sync(c), ~Finish(c)
    PROVE  UNCHANGED <<files, rooted, savedBodies>> /\ recorded \subseteq recorded' /\ Records'
<1>1. UNCHANGED <<files, rooted, savedBodies>> /\ recorded \subseteq recorded'
  BY DEF Sync, Refused, Start, PushMove, PushCreate, PushDelete, PushUpdate, Skip, Advance, Enter, Accepted, disk
<1>2. TextsKnown'
  <2>1. ASSUME NEW d \in Docs, NEW p \in Paths, PushMove(c, d, p) PROVE TextsKnown'
    BY <1>1, <2>1, RequestRecords DEF Records, PushMove
  <2>2. ASSUME NEW p \in Paths, PushCreate(c, p) PROVE TextsKnown'
    <3>1. PICK t : t = files[c][p]
      OBVIOUS
    <3>2. PICK d \in Docs \ Created : Place(d, p, t)
      BY <2>2, <3>1 DEF PushCreate
    <3>3. LinesOf(t) \subseteq recorded'
      BY <2>2, <3>1 DEF PushCreate
    <3> QED BY <1>1, <3>2, <3>3, RequestRecords DEF Records
  <2>3. ASSUME NEW d \in Docs, PushDelete(c, d) PROVE TextsKnown'
    BY <1>1, <2>3, RequestRecords DEF Records, PushDelete
  <2>4. ASSUME NEW d \in Docs, PushUpdate(c, d) PROVE TextsKnown'
    <3>1. PICK t : t = Converge(Base(c, d), text[d], files[c][run[c].snap[d].path])
      OBVIOUS
    <3>2. Rewrite(d, t) /\ LinesOf(t) \subseteq recorded'
      BY <2>4, <3>1 DEF PushUpdate
    <3> QED BY <1>1, <3>2, RequestRecords DEF Records
  <2>5. ASSUME Start(c) \/ Refused(c) \/ Advance(c) \/ \E d \in Docs : Skip(c, d) PROVE TextsKnown'
    <3>1. UNCHANGED shared
      BY <2>5 DEF Start, Refused, Advance, Enter, Skip
    <3> QED BY <1>1, <3>1 DEF Records, TextsKnown, shared
  <2> QED BY <2>1, <2>2, <2>3, <2>4, <2>5 DEF Sync
<1>3. SavedKnown'
  BY <1>1 DEF Records, SavedKnown
<1>4. RunsKnown'
  <2>1. ASSUME NEW i, Accepted(c, i) PROVE RunsKnown'
    BY <1>1, <2>1, AcceptedKnown DEF Records
  <2>2. CASE Start(c)
    <3>1. PICK plan : run' = [run EXCEPT ![c] = [phase |-> "moving", todo |-> plan, cur |-> cursor,
                                based |-> cursor, pushed |-> FALSE, alone |-> TRUE, snap |-> View]]
      BY <2>2 DEF Start
    <3>2. PICK r : r = [phase |-> "moving", todo |-> plan, cur |-> cursor,
                        based |-> cursor, pushed |-> FALSE, alone |-> TRUE, snap |-> View]
      OBVIOUS
    <3>3. run' = [run EXCEPT ![c] = r] /\ recorded' = recorded /\ Known(r.snap)
      BY <2>2, <3>1, <3>2, ViewKnown DEF Start, Records
    <3> QED BY <3>3, OneRunKnown DEF Records
  <2>3. ASSUME NEW d \in Docs, Skip(c, d) PROVE RunsKnown'
    <3>1. PICK r : r = SkippedItem(run[c], d)
      OBVIOUS
    <3>2. run[c] \in Runs(Texts)
      BY DEF Records, IInv, RunsGood, GoodRun
    <3>3. r.phase = run[c].phase /\ r.snap = run[c].snap
      BY <3>1, <3>2, PhaseAlike
    <3>4. run' = [run EXCEPT ![c] = r] /\ recorded' = recorded
      BY <2>3, <3>1 DEF Skip, SkippedItem
    <3> QED BY <3>3, <3>4, OneRunKnown DEF Records, RunsKnown
  <2>4. CASE Advance(c)
    <3>1. PICK ph, todo : run' = [run EXCEPT ![c] = [Refreshed(c) EXCEPT !.phase = ph, !.todo = todo]]
      BY <2>4 DEF Advance, Enter
    <3>2. PICK q : q = Refreshed(c)
      OBVIOUS
    <3>3. PICK r : r = [q EXCEPT !.phase = ph, !.todo = todo]
      OBVIOUS
    <3>4. run[c].phase # "idle" /\ recorded' = recorded
      BY <2>4 DEF Advance, Enter
    <3>5. q \in Runs(Texts)
      BY <3>2, <3>4, RefreshedGood DEF Records, IInv, RunsGood
    <3>6. r.snap = q.snap
      BY <3>3, <3>5 DEF Runs
    <3>7. Known(q.snap)
      BY <3>2, <3>4, RefreshedKnown DEF Records
    <3>8. run' = [run EXCEPT ![c] = r]
      BY <3>1, <3>2, <3>3
    <3> QED BY <3>4, <3>6, <3>7, <3>8, OneRunKnown DEF Records
  <2>5. CASE Refused(c)
    <3>1. PICK r : r = NoRun
      OBVIOUS
    <3>2. run' = [run EXCEPT ![c] = r] /\ recorded' = recorded /\ r.phase = "idle"
      BY <2>5, <3>1 DEF Refused, NoRun
    <3> QED BY <3>2, OneRunKnown DEF Records
  <2> QED BY <2>1, <2>2, <2>3, <2>4, <2>5 DEF Sync, PushMove, PushCreate, PushDelete, PushUpdate
<1> QED BY <1>1, <1>2, <1>3, <1>4 DEF Records

\* Whatever else happens to runs, files and checkpoints.
LEMMA NextRecords ==
    ASSUME NEW Texts, IInv(Texts), Records, [Next]_vars
    PROVE  recorded \subseteq recorded' /\ Records'
<1>1. ASSUME UNCHANGED <<shared, recorded>>, NEW c \in Clients, NEW r, run' = [run EXCEPT ![c] = r],
             r.phase # "idle" => Known(r.snap), SavedKnown'
      PROVE  Records'
  <2>1. TextsKnown'
    BY <1>1 DEF Records, TextsKnown, shared
  <2> QED BY <1>1, <2>1, OneRunKnown DEF Records
<1>2. NoRun.phase = "idle"
  BY DEF NoRun
<1>3. ASSUME NEW c \in Clients, Finish(c) PROVE Records'
  <2>1. UNCHANGED <<shared, recorded>> /\ run' = [run EXCEPT ![c] = NoRun] /\ run[c].phase # "idle"
    BY <1>3 DEF Finish, Done
  <2>2. PICK snap : snap = Refreshed(c).snap
    OBVIOUS
  <2>3. Known(snap) /\ SaveBodies(c, snap)
    BY <1>3, <2>1, <2>2, RefreshedKnown DEF Records, Finish
  <2>4. SavedKnown'
    BY <2>1, <2>3, SavedKnownKept DEF Records
  <2>5. PICK r : r = NoRun
    OBVIOUS
  <2> QED BY <1>1, <1>2, <2>1, <2>4, <2>5
<1>4. ASSUME NEW c \in Clients, Crash(c) PROVE Records'
  <2>1. UNCHANGED <<shared, recorded, savedBodies>> /\ run' = [run EXCEPT ![c] = NoRun]
    BY <1>4 DEF Crash, disk
  <2>2. SavedKnown'
    BY <2>1 DEF Records, SavedKnown
  <2>3. PICK r : r = NoRun
    OBVIOUS
  <2> QED BY <1>1, <1>2, <2>1, <2>2, <2>3
<1>5. ASSUME NEW c \in Clients, savedBodies' = [savedBodies EXCEPT ![c] = [d \in Docs |-> NoText]],
             recorded' = recorded
      PROVE  SavedKnown'
  <2>1. savedBodies \in [Clients -> [Docs -> Texts \cup {NoText}]]
    BY DEF IInv, DiskTyped
  <2> QED BY <1>5, <2>1 DEF Records, SavedKnown
<1>6. ASSUME NEW c \in Clients, CrashApplying(c) PROVE Records'
  <2>1. UNCHANGED <<shared, recorded>> /\ run' = [run EXCEPT ![c] = NoRun]
    BY <1>6 DEF CrashApplying
  <2>2. UNCHANGED savedBodies \/ savedBodies' = [savedBodies EXCEPT ![c] = [d \in Docs |-> NoText]]
    BY <1>6, Zenon DEF CrashApplying
  <2>3. SavedKnown'
    BY <1>5, <2>1, <2>2 DEF Records, SavedKnown
  <2>4. PICK r : r = NoRun
    OBVIOUS
  <2> QED BY <1>1, <1>2, <2>1, <2>3, <2>4
<1>7. ASSUME NEW c \in Clients, Sibling(c) PROVE Records'
  <2>1. UNCHANGED <<shared, recorded, run>> /\ SavedKnown'
    BY <1>5, <1>7 DEF Sibling
  <2> QED BY <2>1 DEF Records, TextsKnown, RunsKnown, Known, shared
<1>8. ASSUME NEW c \in Clients, User(c) PROVE Records'
  <2>1. UserActs(c)
    BY <1>8 DEF User, Write, Remove, Rename, MoveRoot
  <2>2. UNCHANGED <<shared, recorded, savedBodies>> /\ run' = [run EXCEPT ![c] = NotAlone(run[c])]
    BY <2>1 DEF UserActs, NotAlone
  <2>3. run[c] \in Runs(Texts)
    BY DEF IInv, RunsGood, GoodRun
  <2>4. PICK r : r = NotAlone(run[c])
    OBVIOUS
  <2>5. r.phase # "idle" => Known(r.snap)
    BY <2>3, <2>4, PhaseAlike DEF Records, RunsKnown
  <2>6. SavedKnown'
    BY <2>2 DEF Records, SavedKnown
  <2> QED BY <1>1, <2>2, <2>4, <2>5, <2>6
<1>9. CASE UNCHANGED vars
  BY <1>9 DEF vars, shared, Records, TextsKnown, SavedKnown, RunsKnown, Known
<1>10. ASSUME NEW c \in Clients, Sync(c), ~Finish(c) PROVE recorded \subseteq recorded' /\ Records'
  BY <1>10, PushesRecord
<1>11. CASE \E c \in Clients : Sync(c) /\ ~Finish(c)
  BY <1>10, <1>11
<1>12. CASE ~ \E c \in Clients : Sync(c) /\ ~Finish(c)
  <2>1. recorded' = recorded
    BY <1>12 DEF Next, Finish, User, Write, Remove, Rename, MoveRoot, UserActs, Crash, CrashApplying,
                 Sibling, vars
  <2> QED BY <1>3, <1>4, <1>6, <1>7, <1>8, <1>9, <1>12, <2>1 DEF Next
<1> QED BY <1>11, <1>12

LEMMA InitRecords ==
    ASSUME NEW Texts, IInv(Texts), Closed(Texts), Init
    PROVE  Records
<1>1. PICK t \in Seeds : /\ IF t = NoText THEN SharedInit ELSE Seeded(t)
                         /\ recorded = IF t = NoText THEN {} ELSE LinesOf(t)
  BY DEF Init
<1>2. \A d \in Docs : text[d] # NoText => LinesOf(text[d]) \subseteq recorded
  BY <1>1 DEF SharedInit, Seeded
<1>3. TextsKnown
  BY <1>2 DEF TextsKnown, IInv, SharedTyped, Created, Closed
<1>4. SavedKnown
  BY <1>2 DEF SavedKnown, Init
<1>5. RunsKnown
  BY DEF RunsKnown, Init, NoRun
<1> QED BY <1>3, <1>4, <1>5 DEF Records

-----------------------------------------------------------------------------
(* Runs that nobody interferes with.                                       *)

Served(p) == \E d \in live : path[d] = p

\* What is pending on the server is the run's own, every new file is created
\* before anything is deleted, and no deletion takes a present file's document.
Follows(c) ==
    /\ ~run[c].pushed => run[c].cur = cursor
    /\ run[c].phase = "creating" => \A p \in Paths : Present(c, p) => Served(p) \/ p \in run[c].todo
    /\ run[c].phase \in {"deleting", "updating"} => \A p \in Paths : Present(c, p) => Served(p)
    /\ run[c].phase = "deleting" => \A d \in Docs : run[c].snap[d].path = path[d]

Undisturbed == \A c \in Clients : run[c].alone => Follows(c)

LEMMA ViewPaths ==
    ASSUME NEW Texts, SharedTyped(Texts)
    PROVE  /\ \A p : p \in LivePathsIn(View) <=> Served(p)
           /\ LiveIn(View) = live
<1>1. \A d \in Docs : View[d].live = (d \in live) /\ View[d].path = path[d]
  BY DEF View
<1>2. LiveIn(View) = live
  BY <1>1 DEF LiveIn, SharedTyped, Created
<1> QED BY <1>1, <1>2 DEF LivePathsIn, Served, SharedTyped, Created

LEMMA CurrentIsView ==
    ASSUME NEW Texts, SharedTyped(Texts), NEW snap \in Snapshots(Texts), Current(snap, cursor)
    PROVE  snap = View
<1>1. \A d \in Docs : stamp[d] <= cursor
  BY DEF SharedTyped
<1>2. \A d \in Docs : snap[d] = View[d]
  BY <1>1 DEF Current
<1> QED BY <1>2 DEF Snapshots, View

\* An undisturbed run sees at the end of a phase what the server has.
LEMMA AloneSees ==
    ASSUME NEW Texts, IInv(Texts), NEW c \in Clients, Follows(c), run[c].phase # "idle"
    PROVE  Refreshed(c).snap = View /\ Refreshed(c).cur = cursor /\ ~Refreshed(c).pushed
<1>1. /\ SharedTyped(Texts) /\ run[c] \in Runs(Texts) /\ run[c].cur \in Nat
      /\ Sound(Texts, run[c].snap) /\ Current(run[c].snap, run[c].cur)
  BY DEF IInv, RunsGood, GoodRun, Runs
<1>2. CASE run[c].pushed
  <2>1. /\ Refreshed(c).snap = Merged(run[c].snap, run[c].cur) /\ Refreshed(c).cur = cursor
        /\ Refreshed(c).pushed = FALSE
    BY <1>1, <1>2 DEF Refreshed, Runs
  <2>2. PICK snap : snap = Merged(run[c].snap, run[c].cur)
    OBVIOUS
  <2>3. snap \in Snapshots(Texts) /\ Current(snap, cursor)
    BY <1>1, <2>2, MergedSound DEF Sound
  <2> QED BY <1>1, <2>1, <2>2, <2>3, CurrentIsView
<1>3. CASE ~run[c].pushed
  <2>1. Refreshed(c) = run[c] /\ run[c].cur = cursor
    BY <1>3 DEF Refreshed, Follows
  <2>2. PICK snap : snap = run[c].snap
    OBVIOUS
  <2>3. snap \in Snapshots(Texts) /\ Current(snap, cursor)
    BY <1>1, <2>1, <2>2 DEF Sound
  <2> QED BY <1>1, <1>3, <2>1, <2>2, <2>3, CurrentIsView
<1> QED BY <1>2, <1>3

\* Of another run's request nothing undisturbed is left.
LEMMA AcceptedFollows ==
    ASSUME NEW Texts, IInv(Texts), NEW c \in Clients, NEW i, Accepted(c, i),
           run[c].alone => Follows(c)'
    PROVE  Undisturbed'
<1>1. ASSUME NEW x \in Clients, x # c, run'[x].alone PROVE FALSE
  <2>1. run'[x] = [run[x] EXCEPT !.alone = FALSE]
    BY <1>1 DEF Accepted
  <2>2. run'[x].alone = FALSE
    BY <1>1, <2>1
  <2> QED BY <1>1, <2>2
<1>2. run'[c].alone = run[c].alone
  BY DEF Accepted, IInv, RunsGood, GoodRun, Runs
<1> QED BY <1>1, <1>2 DEF Undisturbed

LEMMA PushFollows ==
    ASSUME NEW Texts, IInv(Texts), NEW c \in Clients, Follows(c),
           \/ \E d \in Docs, p \in Paths : PushMove(c, d, p)
           \/ \E p \in Paths : PushCreate(c, p)
           \/ \E d \in Docs : PushDelete(c, d)
           \/ \E d \in Docs : PushUpdate(c, d)
    PROVE  Follows(c)'
<1>1. /\ run[c] \in Runs(Texts) /\ live \subseteq Created /\ Created \subseteq Docs
      /\ path \in [Docs -> Paths \cup {NoPath}]
  BY DEF IInv, RunsGood, GoodRun, SharedTyped, Created
<1>2. ASSUME NEW i, Accepted(c, i)
      PROVE  /\ run'[c].phase = run[c].phase /\ run'[c].snap = run[c].snap /\ run'[c].pushed
             /\ run'[c].todo = run[c].todo \ {i}
             /\ \A p : Present(c, p)' = Present(c, p)
  BY <1>1, <1>2 DEF Accepted, Runs, disk, Present
<1>3. ASSUME NEW d \in Docs, NEW p \in Paths, PushMove(c, d, p) PROVE Follows(c)'
  <2>1. Accepted(c, <<d, p>>) /\ run[c].phase = "moving"
    BY <1>3 DEF PushMove, Turn
  <2> QED BY <1>2, <2>1 DEF Follows
<1>4. ASSUME NEW p \in Paths, PushCreate(c, p) PROVE Follows(c)'
  <2>1. Accepted(c, p) /\ run[c].phase = "creating"
    BY <1>4 DEF PushCreate, Turn
  <2>2. PICK d \in Docs \ Created : Place(d, p, files[c][p])
    BY <1>4 DEF PushCreate
  <2>3. live' = live \cup {d} /\ path' = [path EXCEPT ![d] = p] /\ d \notin live
    BY <1>1, <2>2 DEF Place
  <2>4. \A e \in live : path'[e] = path[e]
    BY <1>1, <2>3 DEF Created
  <2>5. path'[d] = p
    BY <1>1, <2>2, <2>3
  <2>6. \A q \in Paths : Served(q) \/ q = p => Served(q)'
    BY <2>3, <2>4, <2>5 DEF Served
  <2>7. \A q \in Paths : Present(c, q)' => Served(q)' \/ q \in run'[c].todo
    BY <1>2, <2>1, <2>6 DEF Follows
  <2> QED BY <1>2, <2>1, <2>7 DEF Follows
<1>5. ASSUME NEW d \in Docs, PushDelete(c, d) PROVE Follows(c)'
  <2>1. /\ Accepted(c, d) /\ run[c].phase = "deleting" /\ ~Present(c, run[c].snap[d].path)
        /\ live' = live \ {d} /\ path' = path
    BY <1>5 DEF PushDelete, Turn, Delete
  <2>2. run[c].snap[d].path = path[d]
    BY <2>1 DEF Follows
  <2>3. \A q \in Paths : Present(c, q) => Served(q)'
    BY <2>1, <2>2 DEF Follows, Served
  <2>4. \A e \in Docs : run'[c].snap[e].path = path'[e]
    BY <1>2, <2>1 DEF Follows
  <2> QED BY <1>2, <2>1, <2>3, <2>4 DEF Follows
<1>6. ASSUME NEW d \in Docs, PushUpdate(c, d) PROVE Follows(c)'
  <2>1. Accepted(c, d) /\ run[c].phase = "updating" /\ live' = live /\ path' = path
    BY <1>6 DEF PushUpdate, Turn, Rewrite
  <2>2. \A q \in Paths : Present(c, q) => Served(q)'
    BY <2>1 DEF Follows, Served
  <2> QED BY <1>2, <2>1, <2>2 DEF Follows
<1> QED BY <1>3, <1>4, <1>5, <1>6

\* A run alone takes a step, the server, its disk and the other runs rest.
LEMMA InnerFollows ==
    ASSUME NEW Texts, IInv(Texts), Undisturbed, UNCHANGED shared, NEW c \in Clients,
           NEW r, run' = [run EXCEPT ![c] = r],
           \A x \in Clients \ {c} : files'[x] = files[x] /\ (x \in rooted' <=> x \in rooted),
           r.alone => Follows(c)'
    PROVE  Undisturbed'
<1>1. run'[c] = r /\ \A x \in Clients \ {c} : run'[x] = run[x]
  BY DEF IInv, RunsGood
<1>2. ASSUME NEW x \in Clients, x # c, run'[x].alone PROVE Follows(x)'
  <2>1. Follows(x)
    BY <1>1, <1>2 DEF Undisturbed
  <2>2. UNCHANGED <<live, path, cursor>> /\ run'[x] = run[x] /\ \A p : Present(x, p)' = Present(x, p)
    BY <1>1, <1>2 DEF shared, Present
  <2> QED BY <2>1, <2>2 DEF Follows, Served
<1> QED BY <1>1, <1>2 DEF Undisturbed

LEMMA AdvanceFollows ==
    ASSUME NEW Texts, IInv(Texts), Undisturbed, NEW c \in Clients, Advance(c)
    PROVE  Undisturbed'
<1>1. PICK q : q = Refreshed(c)
  OBVIOUS
<1>2. /\ UNCHANGED <<shared, disk>> /\ run[c].phase \in {"moving", "creating", "deleting"}
      /\ run[c].todo = {}
  BY DEF Advance, Enter
<1>3. q \in Runs(Texts) /\ SharedTyped(Texts) /\ run[c] \in Runs(Texts)
  BY <1>1, <1>2, RefreshedGood DEF IInv, RunsGood, GoodRun
<1>4. q.alone = run[c].alone
  BY <1>1, <1>3 DEF Refreshed, Runs
<1>5. PICK ph, todo : /\ run' = [run EXCEPT ![c] = [q EXCEPT !.phase = ph, !.todo = todo]]
                      /\ \/ ph = "creating" /\ todo = New(c, q.snap) /\ run[c].phase = "moving"
                         \/ ph = "deleting" /\ run[c].phase = "creating"
                         \/ ph = "updating" /\ run[c].phase = "deleting"
  BY <1>1 DEF Advance, Enter
<1>6. PICK r : r = [q EXCEPT !.phase = ph, !.todo = todo]
  OBVIOUS
<1>7. r.phase = ph /\ r.todo = todo /\ r.snap = q.snap /\ r.cur = q.cur /\ r.pushed = q.pushed /\ r.alone = q.alone
  BY <1>3, <1>6 DEF Runs
<1>8. run' = [run EXCEPT ![c] = r] /\ run'[c] = r
  BY <1>5, <1>6 DEF IInv, RunsGood
<1>9. ASSUME r.alone PROVE Follows(c)'
  <2>1. Follows(c)
    BY <1>4, <1>7, <1>9 DEF Undisturbed
  <2>2. q.snap = View /\ q.cur = cursor /\ ~q.pushed
    BY <1>1, <1>2, <2>1, AloneSees
  <2>3. /\ \A p : Served(p)' = Served(p) /\ Present(c, p)' = Present(c, p)
        /\ cursor' = cursor /\ path' = path
    BY <1>2 DEF shared, disk, Served, Present
  <2>4. \A p : p \in LivePathsIn(View) <=> Served(p)
    BY <1>3, ViewPaths
  <2>5. CASE ph = "creating"
    <3>1. \A p \in Paths : Present(c, p) => Served(p) \/ p \in todo
      BY <1>5, <2>2, <2>4, <2>5 DEF New
    <3> QED BY <1>7, <1>8, <2>2, <2>3, <2>5, <3>1 DEF Follows
  <2>6. CASE ph = "deleting"
    <3>1. \A p \in Paths : Present(c, p) => Served(p)
      BY <1>2, <1>5, <2>1, <2>6 DEF Follows
    <3>2. \A d \in Docs : r.snap[d].path = path[d]
      <4>1. \A d \in Docs : View[d].path = path[d]
        BY DEF View
      <4> QED BY <1>7, <2>2, <4>1
    <3> QED BY <1>7, <1>8, <2>2, <2>3, <2>6, <3>1, <3>2 DEF Follows
  <2>7. CASE ph = "updating"
    <3>1. \A p \in Paths : Present(c, p) => Served(p)
      BY <1>5, <2>1, <2>7 DEF Follows
    <3> QED BY <1>7, <1>8, <2>2, <2>3, <2>7, <3>1 DEF Follows
  <2> QED BY <1>5, <2>5, <2>6, <2>7
<1>10. \A x \in Clients \ {c} : files'[x] = files[x] /\ (x \in rooted' <=> x \in rooted)
  BY <1>2 DEF disk
<1>11. UNCHANGED shared
  BY <1>2
<1> QED BY <1>8, <1>9, <1>10, <1>11, InnerFollows

LEMMA NextFollows ==
    ASSUME NEW Texts, IInv(Texts), Undisturbed, [Next]_vars
    PROVE  Undisturbed'
<1>1. NoRun.alone = FALSE
  BY DEF NoRun
<1>2. ASSUME NEW c \in Clients, Start(c) PROVE Undisturbed'
  <2>1. PICK plan : run' = [run EXCEPT ![c] = [phase |-> "moving", todo |-> plan, cur |-> cursor,
                              based |-> cursor, pushed |-> FALSE, alone |-> TRUE, snap |-> View]]
    BY <1>2 DEF Start
  <2>2. PICK r : r = [phase |-> "moving", todo |-> plan, cur |-> cursor,
                      based |-> cursor, pushed |-> FALSE, alone |-> TRUE, snap |-> View]
    OBVIOUS
  <2>3. run' = [run EXCEPT ![c] = r] /\ run'[c] = r /\ r.phase = "moving" /\ r.cur = cursor
    BY <2>1, <2>2 DEF IInv, RunsGood
  <2>4. UNCHANGED shared /\ UNCHANGED disk
    BY <1>2 DEF Start
  <2>5. Follows(c)'
    BY <2>3, <2>4 DEF Follows, shared
  <2>6. \A x \in Clients \ {c} : files'[x] = files[x] /\ (x \in rooted' <=> x \in rooted)
    BY <2>4 DEF disk
  <2> QED BY <2>3, <2>4, <2>5, <2>6, InnerFollows
<1>3. ASSUME NEW c \in Clients, \/ \E d \in Docs, p \in Paths : PushMove(c, d, p)
                                \/ \E p \in Paths : PushCreate(c, p)
                                \/ \E d \in Docs : PushDelete(c, d)
                                \/ \E d \in Docs : PushUpdate(c, d)
      PROVE  Undisturbed'
  <2>1. PICK i : Accepted(c, i)
    BY <1>3 DEF PushMove, PushCreate, PushDelete, PushUpdate
  <2>2. run[c].alone => Follows(c)'
    BY <1>3, PushFollows DEF Undisturbed
  <2> QED BY <2>1, <2>2, AcceptedFollows
<1>4. ASSUME NEW c \in Clients, NEW d \in Docs, Skip(c, d) PROVE Undisturbed'
  <2>1. PICK r : r = SkippedItem(run[c], d)
    OBVIOUS
  <2>2. UNCHANGED shared /\ UNCHANGED disk /\ run' = [run EXCEPT ![c] = r]
    BY <1>4, <2>1 DEF Skip, SkippedItem
  <2>3. /\ r.phase = run[c].phase /\ r.cur = run[c].cur /\ r.snap = run[c].snap
        /\ r.pushed = run[c].pushed /\ r.alone = run[c].alone
    BY <2>1 DEF SkippedItem, IInv, RunsGood, GoodRun, Runs
  <2>4. run'[c] = r /\ run[c].phase # "creating"
    BY <1>4, <2>2 DEF IInv, RunsGood, Skip, Turn
  <2>5. ASSUME r.alone PROVE Follows(c)'
    <3>1. Follows(c)
      BY <2>3, <2>5 DEF Undisturbed
    <3> QED BY <2>2, <2>3, <2>4, <3>1 DEF Follows, Served, Present, shared, disk
  <2>6. \A x \in Clients \ {c} : files'[x] = files[x] /\ (x \in rooted' <=> x \in rooted)
    BY <2>2 DEF disk
  <2> QED BY <2>2, <2>5, <2>6, InnerFollows
<1>5. ASSUME NEW c \in Clients, UNCHANGED shared, run' = [run EXCEPT ![c] = NoRun],
             \A x \in Clients \ {c} : files'[x] = files[x] /\ (x \in rooted' <=> x \in rooted)
      PROVE  Undisturbed'
  <2>1. PICK r : r = NoRun
    OBVIOUS
  <2>2. r.alone = FALSE /\ run' = [run EXCEPT ![c] = r]
    BY <1>1, <1>5, <2>1
  <2> QED BY <1>5, <2>2, InnerFollows
<1>6. ASSUME NEW c \in Clients, Refused(c) \/ Crash(c) PROVE Undisturbed'
  BY <1>5, <1>6 DEF Refused, Crash, disk
<1>7. ASSUME NEW c \in Clients, Finish(c) \/ CrashApplying(c) PROVE Undisturbed'
  <2>1. UNCHANGED shared /\ run' = [run EXCEPT ![c] = NoRun] /\ rooted' \in {rooted, rooted \cup {c}}
    BY <1>7 DEF Finish, CrashApplying
  <2>2. files' = files \/ \E f : files' = [files EXCEPT ![c] = f]
    BY <1>7 DEF Finish, CrashApplying
  <2>3. \A x \in Clients \ {c} : files'[x] = files[x] /\ (x \in rooted' <=> x \in rooted)
    BY <2>1, <2>2 DEF IInv, DiskTyped
  <2> QED BY <1>5, <2>1, <2>3
<1>8. ASSUME NEW c \in Clients, User(c) PROVE Undisturbed'
  <2>1. UserActs(c)
    BY <1>8 DEF User, Write, Remove, Rename, MoveRoot
  <2>2. PICK r : r = NotAlone(run[c])
    OBVIOUS
  <2>3. UNCHANGED shared /\ run' = [run EXCEPT ![c] = r]
    BY <2>1, <2>2 DEF UserActs, NotAlone
  <2>4. r.alone = FALSE
    BY <2>2 DEF NotAlone, IInv, RunsGood, GoodRun, Runs
  <2>5. \A x \in Clients \ {c} : files'[x] = files[x]
    BY <1>8 DEF User, Write, Remove, Rename, MoveRoot, IInv, DiskTyped
  <2>6. \A x \in Clients \ {c} : x \in rooted' <=> x \in rooted
    BY <1>8 DEF User, Write, Remove, Rename, MoveRoot
  <2> QED BY <2>3, <2>4, <2>5, <2>6, InnerFollows
<1>9. ASSUME UNCHANGED <<shared, files, rooted, run>> PROVE Undisturbed'
  BY <1>9 DEF Undisturbed, Follows, Served, Present, shared
<1>10. ASSUME NEW c \in Clients, Sibling(c) PROVE Undisturbed'
  BY <1>9, <1>10 DEF Sibling
<1>11. CASE UNCHANGED vars
  BY <1>9, <1>11 DEF vars
<1> QED BY <1>2, <1>3, <1>4, <1>6, <1>7, <1>8, <1>10, <1>11, AdvanceFollows DEF Next, Sync

\* Of a file in place an undisturbed run has had every line recorded, or has the
\* document still to update.
Listed(c) ==
    run[c].phase = "updating" =>
       \A p \in Paths : Present(c, p) =>
          LinesOf(files[c][p]) \subseteq recorded \/ \E d \in run[c].todo : run[c].snap[d].path = p

AllListed == \A c \in Clients : run[c].alone => Listed(c)

LEMMA InnerListed ==
    ASSUME NEW Texts, IInv(Texts), AllListed, recorded \subseteq recorded', NEW c \in Clients,
           NEW r, run' = [run EXCEPT ![c] = r],
           \A x \in Clients \ {c} : files'[x] = files[x] /\ (x \in rooted' <=> x \in rooted),
           r.alone => Listed(c)'
    PROVE  AllListed'
<1>1. run'[c] = r /\ \A x \in Clients \ {c} : run'[x] = run[x]
  BY DEF IInv, RunsGood
<1>2. ASSUME NEW x \in Clients, x # c, run'[x].alone PROVE Listed(x)'
  <2>1. Listed(x)
    BY <1>1, <1>2 DEF AllListed
  <2>2. run'[x] = run[x] /\ files'[x] = files[x] /\ \A p : Present(x, p)' = Present(x, p)
    BY <1>1, <1>2 DEF Present
  <2> QED BY <2>1, <2>2 DEF Listed
<1> QED BY <1>1, <1>2 DEF AllListed

LEMMA PushListed ==
    ASSUME NEW Texts, IInv(Texts), KeepsAdditions(Texts), Records, AllListed, recorded \subseteq recorded',
           NEW c \in Clients, NEW i, Accepted(c, i),
           run[c].phase = "updating" => i \in Docs /\ PushUpdate(c, i)
    PROVE  AllListed'
<1>1. run[c] \in Runs(Texts) /\ GoodRun(Texts, run[c])
  BY DEF IInv, RunsGood, GoodRun
<1>2. ASSUME NEW x \in Clients, x # c, run'[x].alone PROVE FALSE
  <2>1. run'[x] = [run[x] EXCEPT !.alone = FALSE]
    BY <1>2 DEF Accepted
  <2>2. run'[x].alone = FALSE
    BY <2>1 DEF IInv, RunsGood, GoodRun, Runs
  <2> QED BY <1>2, <2>2
<1>3. /\ run'[c].phase = run[c].phase /\ run'[c].snap = run[c].snap
      /\ run'[c].todo = run[c].todo \ {i} /\ run'[c].alone = run[c].alone
      /\ files' = files /\ \A p : Present(c, p)' = Present(c, p)
  BY <1>1 DEF Accepted, Runs, disk, Present
<1>4. ASSUME run[c].alone, run[c].phase = "updating" PROVE Listed(c)'
  <2>1. i \in Docs /\ PushUpdate(c, i) /\ i \in run[c].todo
    BY <1>4 DEF PushUpdate, Turn
  <2>2. PICK p : p = run[c].snap[i].path
    OBVIOUS
  <2>3. PICK merged : merged = Converge(Base(c, i), text[i], files[c][p])
    OBVIOUS
  <2>4. run[c].snap[i].live
    BY <1>1, <1>4, <2>1 DEF GoodRun, LiveIn
  <2>5. p \in Paths /\ run[c].snap[i].text \in Texts
    BY <1>1, <2>1, <2>2, <2>4 DEF GoodRun, Sound
  <2>6. files[c][p] \in Texts
    BY <2>1, <2>2, <2>5 DEF PushUpdate, Present, IInv, DiskTyped
  <2>7. text[i] \in Texts
    BY <2>1 DEF PushUpdate, Rewrite, IInv, SharedTyped
  <2>8. Base(c, i) \in Texts /\ LinesOf(Base(c, i)) \subseteq recorded
    <3>1. CASE savedBodies[c][i] # NoText
      <4>1. Base(c, i) = savedBodies[c][i]
        BY <3>1 DEF Base
      <4>2. savedBodies[c][i] \in Texts
        BY <2>1, <3>1 DEF IInv, DiskTyped
      <4> QED BY <2>1, <3>1, <4>1, <4>2 DEF Records, SavedKnown
    <3>2. CASE savedBodies[c][i] = NoText
      <4>1. Base(c, i) = run[c].snap[i].text
        BY <3>2 DEF Base
      <4>2. LinesOf(run[c].snap[i].text) \subseteq recorded
        BY <1>4, <2>1, <2>4 DEF Records, RunsKnown, Known
      <4> QED BY <2>5, <4>1, <4>2
    <3> QED BY <3>1, <3>2
  <2>9. LinesOf(files[c][p]) \ LinesOf(Base(c, i)) \subseteq LinesOf(merged)
    BY <2>3, <2>6, <2>7, <2>8 DEF KeepsAdditions
  <2>10. recorded' = recorded \cup LinesOf(merged)
    BY <2>1, <2>2, <2>3 DEF PushUpdate
  <2>11. LinesOf(files[c][p]) \subseteq recorded'
    BY <2>8, <2>9, <2>10
  <2>12. ASSUME NEW q \in Paths, Present(c, q)
         PROVE  LinesOf(files[c][q]) \subseteq recorded' \/ \E d \in run'[c].todo : run'[c].snap[d].path = q
    BY <1>3, <1>4, <2>2, <2>11, <2>12 DEF AllListed, Listed
  <2> QED BY <1>3, <2>12 DEF Listed
<1>5. run[c].alone => Listed(c)'
  BY <1>3, <1>4 DEF Listed
<1> QED BY <1>2, <1>3, <1>5 DEF AllListed

LEMMA AdvanceListed ==
    ASSUME NEW Texts, IInv(Texts), Records, Undisturbed, AllListed, NEW c \in Clients, Advance(c)
    PROVE  AllListed'
<1>1. PICK q : q = Refreshed(c)
  OBVIOUS
<1>2. /\ UNCHANGED <<shared, disk, recorded>> /\ run[c].phase # "idle"
  BY DEF Advance, Enter
<1>3. q \in Runs(Texts) /\ SharedTyped(Texts) /\ run[c] \in Runs(Texts)
  BY <1>1, <1>2, RefreshedGood DEF IInv, RunsGood, GoodRun
<1>4. q.alone = run[c].alone
  BY <1>1, <1>3 DEF Refreshed, Runs
<1>5. PICK ph, todo : /\ run' = [run EXCEPT ![c] = [q EXCEPT !.phase = ph, !.todo = todo]]
                      /\ \/ ph \in {"creating", "deleting"}
                         \/ ph = "updating" /\ todo = ToUpdate(c, q.snap) /\ run[c].phase = "deleting"
  BY <1>1 DEF Advance, Enter
<1>6. PICK r : r = [q EXCEPT !.phase = ph, !.todo = todo]
  OBVIOUS
<1>7. r.phase = ph /\ r.todo = todo /\ r.snap = q.snap /\ r.alone = q.alone
  BY <1>3, <1>6 DEF Runs
<1>8. run' = [run EXCEPT ![c] = r] /\ run'[c] = r
  BY <1>5, <1>6 DEF IInv, RunsGood
<1>9. ASSUME r.alone, ph = "updating" PROVE Listed(c)'
  <2>1. Follows(c)
    BY <1>4, <1>7, <1>9 DEF Undisturbed
  <2>2. q.snap = View
    BY <1>1, <1>2, <2>1, AloneSees
  <2>3. LiveIn(View) = live
    BY <1>3, ViewPaths
  <2>4. \A d \in Docs : View[d].path = path[d] /\ View[d].text = text[d]
    BY DEF View
  <2>5. live \subseteq Docs
    BY <1>3 DEF SharedTyped, Created
  <2>6. ASSUME NEW p \in Paths, Present(c, p)
        PROVE  LinesOf(files[c][p]) \subseteq recorded \/ \E d \in todo : View[d].path = p
    <3>1. PICK d \in live : path[d] = p
      BY <1>5, <1>9, <2>1, <2>6 DEF Follows, Served
    <3>2. CASE files[c][p] = text[d]
      BY <3>1, <3>2 DEF Records, TextsKnown
    <3>3. CASE files[c][p] # text[d]
      <4>1. d \in ToUpdate(c, View)
        BY <2>3, <2>4, <2>5, <2>6, <3>1, <3>3 DEF ToUpdate
      <4> QED BY <1>5, <1>9, <2>2, <2>4, <2>5, <3>1, <4>1
    <3> QED BY <3>2, <3>3
  <2>7. files' = files /\ recorded' = recorded /\ \A p : Present(c, p)' = Present(c, p)
    BY <1>2 DEF disk, Present
  <2> QED BY <1>7, <1>8, <2>2, <2>6, <2>7 DEF Listed
<1>10. r.alone => Listed(c)'
  BY <1>5, <1>7, <1>8, <1>9 DEF Listed
<1>11. recorded' = recorded /\ \A x \in Clients \ {c} : files'[x] = files[x] /\ (x \in rooted' <=> x \in rooted)
  BY <1>2 DEF disk
<1> QED BY <1>8, <1>10, <1>11, InnerListed

LEMMA NextListed ==
    ASSUME NEW Texts, IInv(Texts), KeepsAdditions(Texts), Records, Undisturbed, AllListed, [Next]_vars
    PROVE  AllListed'
<1>1. recorded \subseteq recorded'
  BY NextRecords
<1>2. ASSUME NEW c \in Clients, Start(c) PROVE AllListed'
  <2>1. PICK plan : run' = [run EXCEPT ![c] = [phase |-> "moving", todo |-> plan, cur |-> cursor,
                              based |-> cursor, pushed |-> FALSE, alone |-> TRUE, snap |-> View]]
    BY <1>2 DEF Start
  <2>2. PICK r : r = [phase |-> "moving", todo |-> plan, cur |-> cursor,
                      based |-> cursor, pushed |-> FALSE, alone |-> TRUE, snap |-> View]
    OBVIOUS
  <2>3. run' = [run EXCEPT ![c] = r] /\ run'[c] = r /\ r.phase = "moving"
    BY <2>1, <2>2 DEF IInv, RunsGood
  <2>4. Listed(c)'
    BY <2>3 DEF Listed
  <2>5. \A x \in Clients \ {c} : files'[x] = files[x] /\ (x \in rooted' <=> x \in rooted)
    BY <1>2 DEF Start, disk
  <2> QED BY <1>1, <2>3, <2>4, <2>5, InnerListed
<1>3. ASSUME NEW c \in Clients, NEW d \in Docs, PushUpdate(c, d) PROVE AllListed'
  <2>1. Accepted(c, d)
    BY <1>3 DEF PushUpdate
  <2> QED BY <1>1, <1>3, <2>1, PushListed
<1>4. ASSUME NEW c \in Clients, \/ \E d \in Docs, p \in Paths : PushMove(c, d, p)
                                \/ \E p \in Paths : PushCreate(c, p)
                                \/ \E d \in Docs : PushDelete(c, d)
      PROVE  AllListed'
  <2>1. PICK i : Accepted(c, i)
    BY <1>4 DEF PushMove, PushCreate, PushDelete
  <2>2. run[c].phase # "updating"
    BY <1>4 DEF PushMove, PushCreate, PushDelete, Turn
  <2> QED BY <1>1, <2>1, <2>2, PushListed
<1>5. ASSUME NEW c \in Clients, NEW d \in Docs, Skip(c, d) PROVE AllListed'
  <2>1. PICK r : r = SkippedItem(run[c], d)
    OBVIOUS
  <2>2. UNCHANGED disk /\ recorded' = recorded /\ run' = [run EXCEPT ![c] = r]
    BY <1>5, <2>1 DEF Skip, SkippedItem
  <2>3. /\ r.phase = run[c].phase /\ r.snap = run[c].snap /\ r.alone = run[c].alone
        /\ r.todo = run[c].todo \ {d}
    BY <2>1 DEF SkippedItem, IInv, RunsGood, GoodRun, Runs
  <2>4. run'[c] = r
    BY <2>2 DEF IInv, RunsGood
  <2>5. ASSUME r.alone, r.phase = "updating", NEW p \in Paths, Present(c, p)
        PROVE  LinesOf(files[c][p]) \subseteq recorded \/ \E e \in r.todo : r.snap[e].path = p
    <3>1. LinesOf(files[c][p]) \subseteq recorded \/ \E e \in run[c].todo : run[c].snap[e].path = p
      BY <2>3, <2>5 DEF AllListed, Listed
    <3>2. CASE run[c].snap[d].path # p
      BY <2>3, <3>1, <3>2
    <3>3. CASE run[c].snap[d].path = p
      <4>1. d \in run[c].todo /\ files[c][p] = run[c].snap[d].text
        BY <1>5, <2>3, <2>5, <3>3 DEF Skip, Turn
      <4>2. run[c].snap[d].live
        BY <2>3, <2>5, <4>1 DEF IInv, RunsGood, GoodRun, LiveIn
      <4> QED BY <2>3, <2>5, <4>1, <4>2 DEF Records, RunsKnown, Known
    <3> QED BY <3>2, <3>3
  <2>6. r.alone => Listed(c)'
    BY <2>2, <2>4, <2>5 DEF Listed, Present, disk
  <2>7. \A x \in Clients \ {c} : files'[x] = files[x] /\ (x \in rooted' <=> x \in rooted)
    BY <2>2 DEF disk
  <2> QED BY <1>1, <2>2, <2>6, <2>7, InnerListed
<1>6. ASSUME NEW c \in Clients, run' = [run EXCEPT ![c] = NoRun],
             \A x \in Clients \ {c} : files'[x] = files[x] /\ (x \in rooted' <=> x \in rooted)
      PROVE  AllListed'
  <2>1. PICK r : r = NoRun
    OBVIOUS
  <2>2. r.alone = FALSE /\ run' = [run EXCEPT ![c] = r]
    BY <1>6, <2>1 DEF NoRun
  <2> QED BY <1>1, <1>6, <2>2, InnerListed
<1>7. ASSUME NEW c \in Clients, Refused(c) \/ Crash(c) PROVE AllListed'
  BY <1>6, <1>7 DEF Refused, Crash, disk
<1>8. ASSUME NEW c \in Clients, Finish(c) \/ CrashApplying(c) PROVE AllListed'
  <2>1. run' = [run EXCEPT ![c] = NoRun] /\ rooted' \in {rooted, rooted \cup {c}}
    BY <1>8 DEF Finish, CrashApplying
  <2>2. files' = files \/ \E f : files' = [files EXCEPT ![c] = f]
    BY <1>8 DEF Finish, CrashApplying
  <2>3. \A x \in Clients \ {c} : files'[x] = files[x] /\ (x \in rooted' <=> x \in rooted)
    BY <2>1, <2>2 DEF IInv, DiskTyped
  <2> QED BY <1>6, <2>1, <2>3
<1>9. ASSUME NEW c \in Clients, User(c) PROVE AllListed'
  <2>1. UserActs(c)
    BY <1>9 DEF User, Write, Remove, Rename, MoveRoot
  <2>2. PICK r : r = NotAlone(run[c])
    OBVIOUS
  <2>3. run' = [run EXCEPT ![c] = r]
    BY <2>1, <2>2 DEF UserActs, NotAlone
  <2>4. r.alone = FALSE
    BY <2>2 DEF NotAlone, IInv, RunsGood, GoodRun, Runs
  <2>5. \A x \in Clients \ {c} : files'[x] = files[x]
    BY <1>9 DEF User, Write, Remove, Rename, MoveRoot, IInv, DiskTyped
  <2>6. \A x \in Clients \ {c} : x \in rooted' <=> x \in rooted
    BY <1>9 DEF User, Write, Remove, Rename, MoveRoot
  <2> QED BY <1>1, <2>3, <2>4, <2>5, <2>6, InnerListed
<1>10. ASSUME UNCHANGED <<files, rooted, run, recorded>> PROVE AllListed'
  BY <1>10 DEF AllListed, Listed, Present
<1>11. ASSUME NEW c \in Clients, Sibling(c) PROVE AllListed'
  BY <1>10, <1>11 DEF Sibling
<1>12. CASE UNCHANGED vars
  BY <1>10, <1>12 DEF vars
<1> QED BY <1>2, <1>3, <1>4, <1>5, <1>7, <1>8, <1>9, <1>11, <1>12, AdvanceListed DEF Next, Sync

\* At the end of a run that nobody interfered with the checkout shows exactly
\* the server's live documents: everything found was pushed or is overwritten,
\* and no file is left that the server does not know.
THEOREM QuietRunsMirror ==
    ASSUME NEW Texts, Closed(Texts)
    PROVE  Spec => QuietRunMirrors
<1> DEFINE I == IInv(Texts) /\ Undisturbed
<1>1. Init => I
  BY InitHolds DEF Init, Undisturbed, NoRun
<1>2. I /\ [Next]_vars => I'
  BY NextKeeps, NextFollows
<1>3. ASSUME I, NEW c \in Clients, Finish(c), run[c].alone, ~Held(c)
      PROVE  files'[c] = FilesOf(View)
  <2>1. Refreshed(c).snap = View /\ run[c].phase = "updating" /\ Follows(c)
    BY <1>3, AloneSees DEF Finish, Done, Undisturbed
  <2>2. files' = [files EXCEPT ![c] = Materialized(c, View)] /\ files'[c] = Materialized(c, View)
    BY <1>3, <2>1 DEF Finish, IInv, DiskTyped
  <2>3. \A p : p \in LivePathsIn(View) <=> Served(p)
    BY <1>3, ViewPaths DEF IInv
  <2>4. ASSUME NEW p \in Paths PROVE Materialized(c, View)[p] = FilesOf(View)[p]
    <3>1. CASE p \in LivePathsIn(View) \cup DeletedPathsIn(View) \cup savedPaths[c] \/ c \notin rooted
      BY <3>1 DEF Materialized
    <3>2. CASE ~(p \in LivePathsIn(View) \cup DeletedPathsIn(View) \cup savedPaths[c] \/ c \notin rooted)
      <4>1. Materialized(c, View)[p] = files[c][p] /\ FilesOf(View)[p] = NoText
        BY <3>2 DEF Materialized, FilesOf
      <4>2. files[c][p] = NoText
        BY <2>1, <2>3, <3>2 DEF Follows, Present
      <4> QED BY <4>1, <4>2
    <3> QED BY <3>1, <3>2
  <2>5. Materialized(c, View) = FilesOf(View)
    BY <2>4 DEF Materialized, FilesOf
  <2> QED BY <2>2, <2>5
<1>4. I /\ [Next]_vars => [\A c \in Clients : Finish(c) /\ run[c].alone /\ ~Held(c) =>
                             files'[c] = FilesOf(View)]_vars
  BY <1>3
<1> HIDE DEF I
<1> QED BY <1>1, <1>2, <1>4, PTL DEF Spec, QuietRunMirrors

\* Such a run drops no line from disk that the server has not recorded, whatever
\* crashes, lost checkpoints and other entries went before it.  What this rests
\* on of the server's convergence is KeepsAdditions alone.
THEOREM QuietRunsKeep ==
    ASSUME NEW Texts, Closed(Texts), KeepsAdditions(Texts)
    PROVE  Spec => QuietRunKeeps
<1> DEFINE I == IInv(Texts) /\ Records /\ Undisturbed /\ AllListed
<1>1. Init => I
  <2> SUFFICES ASSUME Init PROVE I
    OBVIOUS
  <2>1. IInv(Texts) /\ Records
    BY InitHolds, InitRecords
  <2> QED BY <2>1 DEF Init, Undisturbed, AllListed, NoRun
<1>2. I /\ [Next]_vars => I'
  BY NextKeeps, NextRecords, NextFollows, NextListed
<1>3. ASSUME I, NEW c \in Clients, Finish(c), run[c].alone PROVE LinesOnDisk(c) \subseteq recorded
  <2>1. run[c].phase = "updating" /\ run[c].todo = {} /\ Listed(c)
    BY <1>3 DEF Finish, Done, AllListed
  <2>2. \A p \in Paths : Present(c, p) => LinesOf(files[c][p]) \subseteq recorded
    BY <2>1 DEF Listed
  <2> QED BY <2>2 DEF LinesOnDisk
<1>4. I /\ [Next]_vars => [\A c \in Clients : Finish(c) /\ run[c].alone =>
                             LinesOnDisk(c) \subseteq recorded \cup LinesOnDisk(c)']_vars
  BY <1>3
<1> HIDE DEF I
<1> QED BY <1>1, <1>2, <1>4, PTL DEF Spec, QuietRunKeeps

-----------------------------------------------------------------------------
(* The invariant: the loop's variables have their types, and its snapshot   *)
(* is, as a run's is, sound and current up to its cursor.                   *)

Looping(c) == watch[c].mode \in {"arming", "watching", "batch"}

Loops(Texts) ==
    [mode : Modes, snap : Snapshots(Texts), cur : Nat, based : Nat,
     moves : SUBSET (Docs \X Paths), todo : SUBSET Paths]

Statuses == [running : BOOLEAN, issue : Issues, recoveries : Nat]

LoopTyped(Texts) ==
    /\ watch \in [Clients -> Loops(Texts)]
    /\ touched \in [Clients -> SUBSET Paths] /\ unseen \in [Clients -> SUBSET Paths]
    /\ status \in [Clients -> Statuses]
    /\ tries \in [Clients -> [soon : Nat, again : BOOLEAN]]

SnapsGood(Texts) ==
    \A c \in Clients : Looping(c) =>
        /\ watch[c].cur <= cursor
        /\ Sound(Texts, watch[c].snap) /\ Current(watch[c].snap, watch[c].cur)

WInv(Texts) == IInv(Texts) /\ LoopTyped(Texts) /\ SnapsGood(Texts) /\ StatusTellsTheTruth

\* The server moves on by stamping one document, or stays.
Moves(Texts) == Stamped(Texts) \/ UNCHANGED shared

LEMMA RequestMoves ==
    ASSUME NEW Texts, SharedTyped(Texts), SharedTyped(Texts)', NEW d \in Docs,
           \/ \E p, t : Place(d, p, t)
           \/ \E t : Rewrite(d, t)
           \/ Delete(d)
           \/ \E p : Move(d, p)
    PROVE  Stamped(Texts)
<1>1. cursor' = cursor + 1 /\ stamp' = [stamp EXCEPT ![d] = cursor + 1]
  BY DEF Place, Rewrite, Delete, Move, Stamp
<1>2. \A e \in Docs \ {d} : path'[e] = path[e] /\ text'[e] = text[e] /\ (e \in live' <=> e \in live)
  BY DEF Place, Rewrite, Delete, Move, SharedTyped
<1>3. \A e \in Docs \ {d} : stamp'[e] = stamp[e] /\ View'[e] = View[e]
  BY <1>1, <1>2 DEF View, SharedTyped
<1>4. stamp'[d] = cursor'
  BY <1>1 DEF SharedTyped
<1> QED BY <1>1, <1>3, <1>4 DEF Stamped

LEMMA SyncMoves ==
    ASSUME NEW Texts, Closed(Texts), IInv(Texts), NEW c \in Clients, Sync(c) \/ User(c)
    PROVE  IInv(Texts)' /\ Moves(Texts)
<1>1. IInv(Texts)'
  BY NextKeeps DEF Next
<1>2. SharedTyped(Texts) /\ SharedTyped(Texts)'
  BY <1>1 DEF IInv
<1>3. ASSUME NEW d \in Docs, NEW p \in Paths, PushMove(c, d, p) PROVE Stamped(Texts)
  BY <1>2, <1>3, RequestMoves DEF PushMove
<1>4. ASSUME NEW p \in Paths, PushCreate(c, p) PROVE Stamped(Texts)
  BY <1>2, <1>4, RequestMoves DEF PushCreate
<1>5. ASSUME NEW d \in Docs, PushDelete(c, d) PROVE Stamped(Texts)
  BY <1>2, <1>5, RequestMoves DEF PushDelete
<1>6. ASSUME NEW d \in Docs, PushUpdate(c, d) PROVE Stamped(Texts)
  BY <1>2, <1>6, RequestMoves DEF PushUpdate
<1>7. ASSUME \/ Start(c) \/ Refused(c) \/ Advance(c) \/ Finish(c) \/ User(c)
             \/ \E d \in Docs : Skip(c, d)
      PROVE  UNCHANGED shared
  BY <1>7 DEF Start, Refused, Advance, Enter, Finish, User, Skip, Write, Remove, Rename, MoveRoot, UserActs
<1> QED BY <1>1, <1>3, <1>4, <1>5, <1>6, <1>7 DEF Sync, Moves

\* What is current up to a cursor stays so.
LEMMA SnapKept ==
    ASSUME NEW Texts, SharedTyped(Texts), Moves(Texts), NEW snap, NEW cur \in Nat, cur <= cursor,
           Current(snap, cur)
    PROVE  cur <= cursor' /\ Current(snap, cur)'
<1>1. Current(snap, cur)'
  <2>1. CASE Stamped(Texts)
    BY <2>1, StampedKeeps
  <2>2. CASE UNCHANGED shared
    BY <2>2, SharedFrame DEF Current
  <2> QED BY <2>1, <2>2 DEF Moves
<1>2. cur <= cursor'
  BY DEF Moves, Stamped, SharedTyped, shared
<1> QED BY <1>1, <1>2

\* What StatusTellsTheTruth says of one checkout.
Truthful(w, saved, t) ==
    /\ (w.mode = "off") <=> (saved.issue # "none")
    /\ w.mode = "off" => ~saved.running
    /\ w.mode \in {"watching", "batch"} => saved.running
    /\ saved.recoveries = Recoveries(t)

\* One loop's step, with what the server and the disks do meanwhile.
LEMMA LoopSteps ==
    ASSUME NEW Texts, WInv(Texts), IInv(Texts)', Moves(Texts), NEW c \in Clients,
           NEW w \in Loops(Texts), NEW saved \in Statuses, NEW t \in [soon : Nat, again : BOOLEAN],
           watch' = [watch EXCEPT ![c] = w], status' = [status EXCEPT ![c] = saved],
           tries' = [tries EXCEPT ![c] = t],
           touched' \in [Clients -> SUBSET Paths], unseen' \in [Clients -> SUBSET Paths],
           Truthful(w, saved, t),
           w.mode \in {"arming", "watching", "batch"} =>
             w.cur <= cursor' /\ Sound(Texts, w.snap) /\ Current(w.snap, w.cur)'
    PROVE  WInv(Texts)'
<1>1. LoopTyped(Texts) /\ SharedTyped(Texts) /\ SnapsGood(Texts) /\ StatusTellsTheTruth
  BY DEF WInv, IInv
<1>2. LoopTyped(Texts)'
  BY <1>1 DEF LoopTyped, Loops, Snapshots
<1>3. /\ watch'[c] = w /\ status'[c] = saved /\ tries'[c] = t
      /\ \A x \in Clients \ {c} : watch'[x] = watch[x] /\ status'[x] = status[x] /\ tries'[x] = tries[x]
  BY <1>1 DEF LoopTyped
<1>4. \A x \in Clients : watch'[x].mode \in Modes /\ status'[x].issue \in Issues
  BY <1>2 DEF LoopTyped, Loops, Statuses
<1>5. \A x \in Clients : Truthful(watch'[x], status'[x], tries'[x])
  BY <1>1, <1>3 DEF StatusTellsTheTruth, Truthful
<1>6. StatusTellsTheTruth'
  BY <1>4, <1>5 DEF StatusTellsTheTruth, Truthful, Recoveries
<1>7. ASSUME NEW x \in Clients, Looping(x)'
      PROVE  (/\ watch[x].cur <= cursor
              /\ Sound(Texts, watch[x].snap) /\ Current(watch[x].snap, watch[x].cur))'
  <2>1. CASE x = c
    BY <1>3, <1>7, <2>1 DEF Looping, Current, Sound, Snapshots
  <2>2. CASE x # c
    <3>1. PICK snap : snap = watch[x].snap
      OBVIOUS
    <3>2. PICK cur : cur = watch[x].cur
      OBVIOUS
    <3>3. /\ cur \in Nat /\ cur <= cursor /\ Sound(Texts, snap) /\ Current(snap, cur)
          /\ watch'[x].snap = snap /\ watch'[x].cur = cur
      BY <1>1, <1>3, <1>7, <2>2, <3>1, <3>2 DEF SnapsGood, LoopTyped, Loops, Looping
    <3>4. cur <= cursor' /\ Current(snap, cur)'
      BY <1>1, <3>3, SnapKept
    <3> QED BY <3>3, <3>4 DEF Current, Sound, Snapshots
  <2> QED BY <2>1, <2>2
<1>8. SnapsGood(Texts)'
  BY <1>7 DEF SnapsGood
<1> QED BY <1>2, <1>6, <1>8 DEF WInv

\* A step that keeps the snapshot, if the loop still has one.
LEMMA LoopGoesOn ==
    ASSUME NEW Texts, WInv(Texts), IInv(Texts)', Moves(Texts), NEW c \in Clients,
           NEW w \in Loops(Texts), NEW saved \in Statuses, NEW t \in [soon : Nat, again : BOOLEAN],
           watch' = [watch EXCEPT ![c] = w], status' = [status EXCEPT ![c] = saved],
           tries' = [tries EXCEPT ![c] = t],
           touched' \in [Clients -> SUBSET Paths], unseen' \in [Clients -> SUBSET Paths],
           Truthful(w, saved, t),
           w.mode \in {"arming", "watching", "batch"} =>
             Looping(c) /\ w.snap = watch[c].snap /\ w.cur = watch[c].cur
    PROVE  WInv(Texts)'
<1>1. w.mode \in {"arming", "watching", "batch"} =>
        w.cur <= cursor' /\ Sound(Texts, w.snap) /\ Current(w.snap, w.cur)'
  <2> SUFFICES ASSUME w.mode \in {"arming", "watching", "batch"}
               PROVE  w.cur <= cursor' /\ Sound(Texts, w.snap) /\ Current(w.snap, w.cur)'
    OBVIOUS
  <2>1. w.cur \in Nat /\ w.cur <= cursor /\ Sound(Texts, w.snap) /\ Current(w.snap, w.cur)
    BY DEF WInv, SnapsGood, Loops
  <2>2. w.cur <= cursor' /\ Current(w.snap, w.cur)'
    BY <2>1, SnapKept DEF WInv, IInv
  <2> QED BY <2>1, <2>2
<1> QED BY <1>1, LoopSteps

\* The loops rest; the server moves on or stays.
LEMMA LoopsRest ==
    ASSUME NEW Texts, WInv(Texts), IInv(Texts)', Moves(Texts), UNCHANGED <<watch, status, tries>>,
           touched' \in [Clients -> SUBSET Paths], unseen' \in [Clients -> SUBSET Paths]
    PROVE  WInv(Texts)'
<1>1. LoopTyped(Texts) /\ SharedTyped(Texts) /\ SnapsGood(Texts) /\ StatusTellsTheTruth
  BY DEF WInv, IInv
<1>2. LoopTyped(Texts)' /\ StatusTellsTheTruth'
  BY <1>1 DEF LoopTyped, StatusTellsTheTruth, Recoveries, Loops, Snapshots
<1>3. ASSUME NEW x \in Clients, Looping(x)'
      PROVE  (/\ watch[x].cur <= cursor
              /\ Sound(Texts, watch[x].snap) /\ Current(watch[x].snap, watch[x].cur))'
  <2>1. PICK snap : snap = watch[x].snap
    OBVIOUS
  <2>2. PICK cur : cur = watch[x].cur
    OBVIOUS
  <2>3. /\ cur \in Nat /\ cur <= cursor /\ Sound(Texts, snap) /\ Current(snap, cur)
        /\ watch'[x].snap = snap /\ watch'[x].cur = cur
    BY <1>1, <1>3, <2>1, <2>2 DEF SnapsGood, LoopTyped, Loops, Looping
  <2>4. cur <= cursor' /\ Current(snap, cur)'
    BY <1>1, <2>3, SnapKept
  <2> QED BY <2>3, <2>4 DEF Current, Sound, Snapshots
<1> QED BY <1>2, <1>3 DEF WInv, SnapsGood

-----------------------------------------------------------------------------
(* The steps of the loop.                                                  *)

LEMMA BootTyped ==
    ASSUME NEW Texts
    PROVE  Boot \in Loops(Texts) /\ Boot.mode = "booting"
<1>1. NoRun.snap \in Snapshots(Texts)
  BY DEF NoRun, Snapshots
<1> QED BY <1>1 DEF Boot, Loops, Modes

LEMMA OfLoop ==
    ASSUME NEW Texts, WInv(Texts), NEW c \in Clients
    PROVE  /\ watch[c] \in Loops(Texts) /\ status[c] \in Statuses /\ tries[c] \in [soon : Nat, again : BOOLEAN]
           /\ Truthful(watch[c], status[c], tries[c])
           /\ touched \in [Clients -> SUBSET Paths] /\ unseen \in [Clients -> SUBSET Paths]
           /\ DOMAIN watch = Clients /\ DOMAIN status = Clients /\ DOMAIN tries = Clients
           /\ Recoveries(tries[c]) \in Nat
<1>1. tries[c] \in [soon : Nat, again : BOOLEAN]
  BY DEF WInv, LoopTyped
<1>2. Recoveries(tries[c]) \in Nat
  BY <1>1 DEF Recoveries
<1> QED BY <1>2 DEF WInv, LoopTyped, StatusTellsTheTruth, Truthful

\* The watch ends with an issue, or begins anew with one more recovery.
LEMMA Recovers ==
    ASSUME NEW Texts, WInv(Texts), IInv(Texts)', Moves(Texts), NEW c \in Clients,
           watch[c].mode # "off", UNCHANGED <<touched, unseen>>,
           \/ \E issue \in Issues \ {"none"} : GiveUp(c, issue)
           \/ \E t \in [soon : Nat, again : BOOLEAN] : Again(c, t)
    PROVE  WInv(Texts)'
<1>1. CASE \E issue \in Issues \ {"none"} : GiveUp(c, issue)
  <2>1. PICK issue \in Issues \ {"none"} : GiveUp(c, issue)
    BY <1>1
  <2>2. PICK w : w = [watch[c] EXCEPT !.mode = "off"]
    OBVIOUS
  <2>3. PICK saved : saved = Saved(FALSE, issue, Recoveries(tries[c]))
    OBVIOUS
  <2>4. PICK t : t = tries[c]
    OBVIOUS
  <2>5. w \in Loops(Texts) /\ w.mode = "off"
    BY <2>2, OfLoop DEF Loops, Modes
  <2>6. saved \in Statuses /\ t \in [soon : Nat, again : BOOLEAN] /\ Truthful(w, saved, t)
    BY <2>3, <2>4, <2>5, OfLoop DEF Saved, Statuses, Truthful
  <2>7. /\ watch' = [watch EXCEPT ![c] = w] /\ status' = [status EXCEPT ![c] = saved]
        /\ tries' = [tries EXCEPT ![c] = t]
    BY <2>1, <2>2, <2>3, <2>4, OfLoop DEF GiveUp, WInv, LoopTyped
  <2>8. touched' \in [Clients -> SUBSET Paths] /\ unseen' \in [Clients -> SUBSET Paths]
    BY OfLoop
  <2> QED BY <2>5, <2>6, <2>7, <2>8, LoopGoesOn
<1>2. CASE \E t \in [soon : Nat, again : BOOLEAN] : Again(c, t)
  <2>1. PICK t \in [soon : Nat, again : BOOLEAN] : Again(c, t)
    BY <1>2
  <2>2. PICK w : w = Boot
    OBVIOUS
  <2>3. PICK saved : saved = [status[c] EXCEPT !.recoveries = Recoveries(t)]
    OBVIOUS
  <2>4. w \in Loops(Texts) /\ w.mode = "booting"
    BY <2>2, BootTyped
  <2>5. Recoveries(t) \in Nat
    BY DEF Recoveries
  <2>6. saved \in Statuses /\ Truthful(w, saved, t)
    <3>1. /\ saved.issue = status[c].issue /\ saved.recoveries = Recoveries(t) /\ saved \in Statuses
          /\ status[c].issue = "none"
      BY <2>3, <2>5, OfLoop DEF Statuses, Truthful
    <3> QED BY <2>4, <3>1 DEF Truthful
  <2>7. /\ watch' = [watch EXCEPT ![c] = w] /\ status' = [status EXCEPT ![c] = saved]
        /\ tries' = [tries EXCEPT ![c] = t]
    BY <2>1, <2>2, <2>3 DEF Again
  <2>8. touched' \in [Clients -> SUBSET Paths] /\ unseen' \in [Clients -> SUBSET Paths]
    BY OfLoop
  <2> QED BY <2>4, <2>6, <2>7, <2>8, LoopGoesOn
<1> QED BY <1>1, <1>2

LEMMA ConflictRecovers ==
    ASSUME NEW Texts, WInv(Texts), NEW c \in Clients, Conflict(c) \/ Unreachable(c)
    PROVE  \/ \E issue \in Issues \ {"none"} : GiveUp(c, issue)
           \/ \E t \in [soon : Nat, again : BOOLEAN] : Again(c, t)
<1>1. tries[c] \in [soon : Nat, again : BOOLEAN]
  BY OfLoop
<1>2. /\ [tries[c] EXCEPT !.again = TRUE] \in [soon : Nat, again : BOOLEAN]
      /\ [tries[c] EXCEPT !.soon = @ + 1] \in [soon : Nat, again : BOOLEAN]
  <2>1. PICK t : t = tries[c]
    OBVIOUS
  <2>2. t \in [soon : Nat, again : BOOLEAN]
    BY <1>1, <2>1
  <2>3. [t EXCEPT !.again = TRUE] \in [soon : Nat, again : BOOLEAN]
    BY <2>2
  <2>4. PICK n \in Nat : n = t.soon + 1
    BY <2>2
  <2>5. [t EXCEPT !.soon = n] \in [soon : Nat, again : BOOLEAN]
    BY <2>2, Zenon
  <2> QED BY <2>1, <2>3, <2>4, <2>5
<1>3. "stale_state" \in Issues \ {"none"} /\ "transport_unavailable" \in Issues \ {"none"}
  BY DEF Issues
<1>4. CASE Conflict(c)
  BY <1>2, <1>3, <1>4 DEF Conflict
<1>5. CASE Unreachable(c)
  BY <1>2, <1>3, <1>5 DEF Unreachable
<1> QED BY <1>4, <1>5

\* A request of the batch: the disks and runs stay.
LEMMA RequestKeeps ==
    ASSUME NEW Texts, IInv(Texts), Stamped(Texts), UNCHANGED <<disk, run, acts>>
    PROVE  IInv(Texts)' /\ Moves(Texts)
<1>1. RunsGood(Texts)'
  BY RunsGoodKept DEF IInv, RunsGood
<1>2. DiskTyped(Texts)'
  BY DEF IInv, DiskTyped, disk
<1> QED BY <1>1, <1>2 DEF IInv, Stamped, Moves

LEMMA PushedKeeps ==
    ASSUME NEW Texts, WInv(Texts), Stamped(Texts), NEW c \in Clients, watch[c].mode = "batch",
           NEW w, NEW n \in Nat, Pushed(c, w, n), w \in Loops(Texts), w.mode = "batch",
           w.snap = watch[c].snap, w.cur = watch[c].cur
    PROVE  WInv(Texts)'
<1>1. IInv(Texts)' /\ Moves(Texts)
  BY RequestKeeps DEF Pushed, WInv
<1>2. PICK v : v = [w EXCEPT !.based = @ + n]
  OBVIOUS
<1>3. v \in Loops(Texts) /\ v.mode = "batch" /\ v.snap = w.snap /\ v.cur = w.cur
  BY <1>2 DEF Loops
<1>4. PICK saved : saved = status[c]
  OBVIOUS
<1>5. PICK t : t = tries[c]
  OBVIOUS
<1>6. /\ watch' = [watch EXCEPT ![c] = v] /\ status' = [status EXCEPT ![c] = saved]
      /\ tries' = [tries EXCEPT ![c] = t]
  BY <1>2, <1>4, <1>5, OfLoop DEF Pushed, WInv, LoopTyped
<1>7. /\ saved \in Statuses /\ t \in [soon : Nat, again : BOOLEAN] /\ Truthful(v, saved, t)
      /\ touched' \in [Clients -> SUBSET Paths] /\ unseen' \in [Clients -> SUBSET Paths]
  BY <1>3, <1>4, <1>5, OfLoop DEF Truthful, Pushed
<1> QED BY <1>1, <1>3, <1>6, <1>7, LoopGoesOn DEF Looping

-----------------------------------------------------------------------------
(* Every step keeps the invariant.                                         *)

LEMMA BootingHolds ==
    ASSUME NEW Texts, Closed(Texts), WInv(Texts), NEW c \in Clients, Booting(c)
    PROVE  WInv(Texts)'
<1>1. Sync(c)
  BY DEF Booting, Sync
<1>2. IInv(Texts)' /\ Moves(Texts)
  BY <1>1, SyncMoves DEF WInv
<1>3. UNCHANGED <<watch, touched, status, tries, unseen>>
  BY DEF Booting, loop
<1>4. touched' \in [Clients -> SUBSET Paths] /\ unseen' \in [Clients -> SUBSET Paths]
  BY <1>3, OfLoop
<1> QED BY <1>2, <1>3, <1>4, LoopsRest

LEMMA BootFailsHolds ==
    ASSUME NEW Texts, Closed(Texts), WInv(Texts), NEW c \in Clients, BootFails(c)
    PROVE  WInv(Texts)'
<1>1. IInv(Texts)' /\ Moves(Texts)
  BY SyncMoves DEF WInv, Sync, BootFails
<1>2. \/ \E issue \in Issues \ {"none"} : GiveUp(c, issue)
      \/ \E t \in [soon : Nat, again : BOOLEAN] : Again(c, t)
  <2>1. "unknown_sync_issue" \in Issues \ {"none"}
    BY DEF Issues
  <2> QED BY <2>1, ConflictRecovers DEF BootFails
<1>3. watch[c].mode # "off" /\ UNCHANGED <<touched, unseen>>
  BY DEF BootFails
<1> QED BY <1>1, <1>2, <1>3, Recovers

LEMMA BootedHolds ==
    ASSUME NEW Texts, Closed(Texts), WInv(Texts), NEW c \in Clients, Booted(c)
    PROVE  WInv(Texts)'
<1>1. Finish(c) /\ watch[c].mode = "booting"
  BY DEF Booted
<1>2. IInv(Texts)' /\ Moves(Texts)
  BY <1>1, SyncMoves DEF WInv, Sync
<1>3. PICK r : r = Refreshed(c)
  OBVIOUS
<1>4. PICK w : w = [watch[c] EXCEPT !.mode = "arming", !.snap = r.snap, !.cur = r.cur]
  OBVIOUS
<1>5. PICK saved : saved = status[c]
  OBVIOUS
<1>6. PICK t : t = tries[c]
  OBVIOUS
<1>7. SharedTyped(Texts) /\ GoodRun(Texts, run[c]) /\ run[c].phase # "idle"
  BY <1>1 DEF WInv, IInv, RunsGood, Finish, Done
<1>8. /\ r \in Runs(Texts) /\ r.cur <= cursor
      /\ Sound(Texts, r.snap) /\ Current(r.snap, r.cur)
  BY <1>3, <1>7, RefreshedGood
<1>9. r.snap \in Snapshots(Texts) /\ r.cur \in Nat
  BY <1>8 DEF Runs
<1>10. w \in Loops(Texts) /\ w.mode = "arming" /\ w.snap = r.snap /\ w.cur = r.cur
  BY <1>4, <1>9, OfLoop DEF Loops, Modes
<1>11. r.cur <= cursor' /\ Current(r.snap, r.cur)'
  BY <1>2, <1>7, <1>8, <1>9, SnapKept
<1>12. /\ watch' = [watch EXCEPT ![c] = w] /\ status' = [status EXCEPT ![c] = saved]
       /\ tries' = [tries EXCEPT ![c] = t]
  BY <1>3, <1>4, <1>5, <1>6, OfLoop DEF Booted, WInv, LoopTyped
<1>13. touched' \in [Clients -> SUBSET Paths] /\ unseen' \in [Clients -> SUBSET Paths]
  <2>1. PICK now : now = {p \in Paths : files'[c][p] # FilesOf(Refreshed(c).snap)[p]}
    OBVIOUS
  <2>2. now \in SUBSET Paths /\ unseen' = [unseen EXCEPT ![c] = now]
    BY <2>1 DEF Booted
  <2> QED BY <2>2, OfLoop DEF Booted
<1>14. saved \in Statuses /\ t \in [soon : Nat, again : BOOLEAN] /\ Truthful(w, saved, t)
  BY <1>1, <1>5, <1>6, <1>10, OfLoop DEF Truthful
<1>15. w.cur <= cursor' /\ Sound(Texts, w.snap) /\ Current(w.snap, w.cur)'
  BY <1>8, <1>10, <1>11
<1> QED BY <1>2, <1>10, <1>12, <1>13, <1>14, <1>15, LoopSteps

\* A step of the loop alone that goes on with its snapshot.
LEMMA StaysInLoop ==
    ASSUME NEW Texts, Closed(Texts), WInv(Texts), NEW c \in Clients, UNCHANGED vars, Looping(c),
           NEW w \in Loops(Texts), w.mode \in {"watching", "batch"},
           w.snap = watch[c].snap, w.cur = watch[c].cur,
           watch' = [watch EXCEPT ![c] = w], UNCHANGED tries,
           touched' \in [Clients -> SUBSET Paths], unseen' \in [Clients -> SUBSET Paths],
           NEW saved \in Statuses, status' = [status EXCEPT ![c] = saved],
           saved.issue = status[c].issue, saved.recoveries = status[c].recoveries, saved.running
    PROVE  WInv(Texts)'
<1>1. IInv(Texts)'
  BY NextKeeps DEF WInv
<1>2. Moves(Texts)
  BY DEF vars, Moves
<1>3. PICK t : t = tries[c]
  OBVIOUS
<1>4. t \in [soon : Nat, again : BOOLEAN] /\ tries' = [tries EXCEPT ![c] = t]
  BY <1>3, OfLoop DEF WInv, LoopTyped
<1>5. Truthful(w, saved, t)
  BY <1>3, OfLoop DEF Truthful, Looping
<1> QED BY <1>1, <1>2, <1>4, <1>5, LoopGoesOn

LEMMA ArmHolds ==
    ASSUME NEW Texts, Closed(Texts), WInv(Texts), NEW c \in Clients, Arm(c)
    PROVE  WInv(Texts)'
<1>1. PICK w : w = [watch[c] EXCEPT !.mode = "watching"]
  OBVIOUS
<1>2. PICK saved : saved = [status[c] EXCEPT !.running = TRUE]
  OBVIOUS
<1>3. /\ w \in Loops(Texts) /\ w.mode = "watching"
      /\ w.snap = watch[c].snap /\ w.cur = watch[c].cur
  BY <1>1, OfLoop DEF Loops, Modes
<1>4. /\ saved \in Statuses /\ saved.issue = status[c].issue
      /\ saved.recoveries = status[c].recoveries /\ saved.running
  BY <1>2, OfLoop DEF Statuses
<1>5. watch' = [watch EXCEPT ![c] = w] /\ status' = [status EXCEPT ![c] = saved]
  BY <1>1, <1>2 DEF Arm
<1>6. touched' \in [Clients -> SUBSET Paths] /\ unseen' \in [Clients -> SUBSET Paths]
  BY OfLoop DEF Arm
<1>7. UNCHANGED <<vars, tries>> /\ Looping(c)
  BY DEF Arm, Looping
<1> QED BY <1>3, <1>4, <1>5, <1>6, <1>7, StaysInLoop

LEMMA PollHolds ==
    ASSUME NEW Texts, Closed(Texts), WInv(Texts), NEW c \in Clients, Poll(c)
    PROVE  WInv(Texts)'
<1>1. PICK plan \in SUBSET Renamed(c, Reported(c)) :
        watch' = [watch EXCEPT ![c] = [@ EXCEPT !.mode = "batch", !.moves = plan, !.based = watch[c].cur,
                   !.todo = {p \in Reported(c) : \A m \in plan : p # m[2] /\ p # watch[c].snap[m[1]].path}]]
  BY DEF Poll
<1>2. PICK due : due = {p \in Reported(c) : \A m \in plan : p # m[2] /\ p # watch[c].snap[m[1]].path}
  OBVIOUS
<1>3. Reported(c) \subseteq Paths
  BY OfLoop DEF Reported
<1>4. due \in SUBSET Paths
  BY <1>2, <1>3
<1>5. plan \in SUBSET (Docs \X Paths)
  BY <1>3 DEF Renamed, LiveIn
<1>6. PICK w : w = [watch[c] EXCEPT !.mode = "batch", !.moves = plan, !.based = watch[c].cur, !.todo = due]
  OBVIOUS
<1>7. /\ w \in Loops(Texts) /\ w.mode = "batch"
      /\ w.snap = watch[c].snap /\ w.cur = watch[c].cur
  BY <1>4, <1>5, <1>6, OfLoop DEF Loops, Modes
<1>8. watch' = [watch EXCEPT ![c] = w]
  BY <1>1, <1>2, <1>6, OfLoop
<1>9. PICK saved : saved = status[c]
  OBVIOUS
<1>10. saved \in Statuses /\ status' = [status EXCEPT ![c] = saved] /\ saved.running
  BY <1>9, OfLoop DEF Poll, WInv, LoopTyped, Truthful
<1>11. touched' \in [Clients -> SUBSET Paths] /\ unseen' \in [Clients -> SUBSET Paths]
  <2>1. PICK gone : gone = IF c \in rooted THEN unseen[c] ELSE unseen[c] \cup touched[c]
    OBVIOUS
  <2>2. gone \in SUBSET Paths /\ unseen' = [unseen EXCEPT ![c] = gone]
    BY <2>1, OfLoop DEF Poll
  <2> QED BY <2>2, OfLoop DEF Poll
<1>12. UNCHANGED <<vars, tries>> /\ Looping(c)
  BY DEF Poll, Looping
<1> QED BY <1>7, <1>8, <1>9, <1>10, <1>11, <1>12, StaysInLoop

LEMMA NothingToDoHolds ==
    ASSUME NEW Texts, Closed(Texts), WInv(Texts), NEW c \in Clients, NEW p \in Paths, NothingToDo(c, p)
    PROVE  WInv(Texts)'
<1>1. PICK w : w = [watch[c] EXCEPT !.todo = @ \ {p}]
  OBVIOUS
<1>2. /\ w \in Loops(Texts) /\ w.mode = "batch"
      /\ w.snap = watch[c].snap /\ w.cur = watch[c].cur /\ Looping(c)
  BY <1>1, OfLoop DEF Loops, Modes, NothingToDo, Due, Looping
<1>3. watch' = [watch EXCEPT ![c] = w]
  BY <1>1 DEF NothingToDo, Without
<1>4. PICK saved : saved = status[c]
  OBVIOUS
<1>5. saved \in Statuses /\ status' = [status EXCEPT ![c] = saved] /\ saved.running
  BY <1>4, OfLoop DEF NothingToDo, Due, WInv, LoopTyped, Truthful
<1>6. touched' \in [Clients -> SUBSET Paths] /\ unseen' \in [Clients -> SUBSET Paths]
  BY OfLoop DEF NothingToDo
<1>7. UNCHANGED <<vars, tries>>
  BY DEF NothingToDo
<1> QED BY <1>2, <1>3, <1>4, <1>5, <1>6, <1>7, StaysInLoop

LEMMA BatchFailsHolds ==
    ASSUME NEW Texts, Closed(Texts), WInv(Texts), NEW c \in Clients, BatchFails(c)
    PROVE  WInv(Texts)'
<1>1. IInv(Texts)'
  BY NextKeeps DEF WInv, BatchFails
<1>2. Moves(Texts)
  BY DEF vars, Moves, BatchFails
<1>3. watch[c].mode # "off" /\ UNCHANGED <<touched, unseen>>
  BY DEF BatchFails, Due
<1>4. \/ \E issue \in Issues \ {"none"} : GiveUp(c, issue)
      \/ \E t \in [soon : Nat, again : BOOLEAN] : Again(c, t)
  BY ConflictRecovers DEF BatchFails
<1> QED BY <1>1, <1>2, <1>3, <1>4, Recovers

\* The requests of a batch, one document stamped by each.
LEMMA WithoutTyped ==
    ASSUME NEW Texts, WInv(Texts), NEW c \in Clients, NEW p
    PROVE  /\ Without(c, p) \in Loops(Texts) /\ Without(c, p).mode = watch[c].mode
           /\ Without(c, p).snap = watch[c].snap /\ Without(c, p).cur = watch[c].cur
  BY OfLoop DEF Without, Loops

LEMMA MoveOneHolds ==
    ASSUME NEW Texts, Closed(Texts), WInv(Texts), NEW c \in Clients, NEW m \in watch[c].moves,
           MoveOne(c, m)
    PROVE  WInv(Texts)'
<1>1. m \in Docs \X Paths
  BY OfLoop DEF Loops
<1>2. PICK w : w = [watch[c] EXCEPT !.moves = @ \ {m}]
  OBVIOUS
<1>3. Pushed(c, w, 1) /\ Move(m[1], m[2]) /\ watch[c].mode = "batch"
  BY <1>2 DEF MoveOne
<1>4. /\ w \in Loops(Texts) /\ w.mode = "batch"
      /\ w.snap = watch[c].snap /\ w.cur = watch[c].cur
  BY <1>2, <1>3, OfLoop DEF Loops
<1>5. Stamped(Texts)
  <2>1. PICK d \in Docs, p \in Paths : m = <<d, p>>
    BY <1>1
  <2>2. Move(d, p)
    BY <1>3, <2>1
  <2> QED BY <2>2, RequestStamps, SyncAssumption DEF WInv, IInv, Closed
<1> QED BY <1>3, <1>4, <1>5, PushedKeeps DEF WInv

LEMMA CreateOneHolds ==
    ASSUME NEW Texts, Closed(Texts), WInv(Texts), NEW c \in Clients, NEW p \in Paths, CreateOne(c, p)
    PROVE  WInv(Texts)'
<1>1. files[c][p] \in Texts
  BY DEF CreateOne, Present, WInv, IInv, DiskTyped
<1>2. PICK d \in Docs \ Created : Place(d, p, files[c][p])
  BY DEF CreateOne
<1>3. Stamped(Texts)
  BY <1>1, <1>2, RequestStamps, SyncAssumption DEF WInv, IInv
<1>4. PICK w : w = Without(c, p)
  OBVIOUS
<1>5. Pushed(c, w, 1) /\ watch[c].mode = "batch"
  BY <1>4 DEF CreateOne, Due
<1> QED BY <1>3, <1>4, <1>5, WithoutTyped, PushedKeeps DEF WInv

LEMMA UpdateOneHolds ==
    ASSUME NEW Texts, Closed(Texts), WInv(Texts), NEW c \in Clients, NEW d \in Docs, UpdateOne(c, d)
    PROVE  WInv(Texts)'
<1>1. PICK p : p = watch[c].snap[d].path
  OBVIOUS
<1>2. watch[c].mode = "batch" /\ watch[c].snap[d].live
  BY DEF UpdateOne, Due, DocAt, LiveIn
<1>3. p \in Paths /\ watch[c].snap[d].text \in Texts
  BY <1>1, <1>2 DEF WInv, SnapsGood, Looping, Sound
<1>4. files[c][p] \in Texts
  BY <1>1, <1>3 DEF UpdateOne, Present, WInv, IInv, DiskTyped
<1>5. SentBase(c, d) \in Texts
  BY <1>3 DEF SentBase, WInv, IInv, DiskTyped
<1>6. text[d] \in Texts
  BY DEF UpdateOne, Rewrite, WInv, IInv, SharedTyped
<1>7. Converge(SentBase(c, d), text[d], files[c][p]) \in Texts
  BY <1>4, <1>5, <1>6 DEF Closed
<1>8. Rewrite(d, Converge(SentBase(c, d), text[d], files[c][p]))
  BY <1>1 DEF UpdateOne
<1>9. Stamped(Texts)
  BY <1>3, <1>7, <1>8, RequestStamps, SyncAssumption DEF WInv, IInv
<1>10. PICK w : w = Without(c, p)
  OBVIOUS
<1>11. Pushed(c, w, 0)
  BY <1>1, <1>10 DEF UpdateOne
<1> QED BY <1>2, <1>9, <1>10, <1>11, WithoutTyped, PushedKeeps DEF WInv

LEMMA DeleteOneHolds ==
    ASSUME NEW Texts, Closed(Texts), WInv(Texts), NEW c \in Clients, NEW d \in Docs, DeleteOne(c, d)
    PROVE  WInv(Texts)'
<1>1. Stamped(Texts)
  <2>1. Delete(d)
    BY DEF DeleteOne
  <2> QED BY <2>1, RequestStamps, SyncAssumption DEF WInv, IInv, Closed
<1>2. PICK w : w = Without(c, watch[c].snap[d].path)
  OBVIOUS
<1>3. Pushed(c, w, 1) /\ watch[c].mode = "batch"
  BY <1>2 DEF DeleteOne, Due
<1> QED BY <1>1, <1>2, <1>3, WithoutTyped, PushedKeeps DEF WInv

\* The delta is asked for from the snapshot's own cursor.
LEMMA EndCycleHolds ==
    ASSUME NEW Texts, Closed(Texts), WInv(Texts), NEW c \in Clients, EndCycle(c)
    PROVE  WInv(Texts)'
<1>1. PICK snap : snap = Merged(watch[c].snap, Since(c))
  OBVIOUS
<1>2. watch[c].mode = "batch" /\ UNCHANGED <<shared, run, acts, status, tries>>
  BY DEF EndCycle
<1>3. /\ watch[c].cur \in Nat /\ SharedTyped(Texts) /\ DiskTyped(Texts)
      /\ Sound(Texts, watch[c].snap) /\ Current(watch[c].snap, watch[c].cur)
  BY <1>2, OfLoop DEF WInv, IInv, SnapsGood, Looping, Loops
<1>4. Sound(Texts, snap) /\ Current(snap, cursor)
  BY <1>1, <1>3, MergedSound DEF Since
<1>5. PICK w : w = [watch[c] EXCEPT !.mode = "watching", !.snap = snap, !.cur = cursor]
  OBVIOUS
<1>6. w \in Loops(Texts) /\ w.mode = "watching" /\ w.snap = snap /\ w.cur = cursor
  BY <1>3, <1>4, <1>5, OfLoop DEF Loops, Modes, Sound, SharedTyped
<1>7. watch' = [watch EXCEPT ![c] = w]
  BY <1>1, <1>5, OfLoop DEF EndCycle
<1>8. PICK saved : saved = status[c]
  OBVIOUS
<1>9. PICK t : t = tries[c]
  OBVIOUS
<1>10. /\ status' = [status EXCEPT ![c] = saved] /\ tries' = [tries EXCEPT ![c] = t]
       /\ saved \in Statuses /\ t \in [soon : Nat, again : BOOLEAN] /\ Truthful(w, saved, t)
  BY <1>2, <1>6, <1>8, <1>9, OfLoop DEF WInv, LoopTyped, Truthful
<1>11. /\ savedPaths' \in [Clients -> SUBSET Paths]
       /\ savedBodies' \in [Clients -> [Docs -> Texts \cup {NoText}]]
  <2>1. \/ UNCHANGED <<savedPaths, savedBodies>>
        \/ SavePaths(c, snap) /\ SaveBodies(c, snap)
    BY <1>1 DEF EndCycle
  <2> QED BY <1>3, <1>4, <2>1, SavedTyped DEF DiskTyped
<1>12. Materialized(c, snap) \in [Paths -> Texts \cup {NoText}] /\ LivePathsIn(snap) \subseteq Paths
  BY <1>3, <1>4, MaterializedTyped, FilesTyped
<1>13. \/ UNCHANGED <<files, rooted, applied, touched>>
       \/ /\ files' = [files EXCEPT ![c] = Materialized(c, snap)]
          /\ rooted' = rooted \cup {c}
          /\ applied' = [applied EXCEPT ![c] = Materialized(c, snap)]
          /\ touched' = [touched EXCEPT ![c] =
                           @ \cup LivePathsIn(snap) \cup {p \in Paths : files'[c][p] # files[c][p]}]
  BY <1>1 DEF EndCycle
<1>14. DiskTyped(Texts)'
  <2>1. PICK mat : mat = Materialized(c, snap)
    OBVIOUS
  <2>2. mat \in [Paths -> Texts \cup {NoText}]
    BY <1>12, <2>1
  <2>3. \/ UNCHANGED <<files, rooted, applied>>
        \/ /\ files' = [files EXCEPT ![c] = mat] /\ rooted' = rooted \cup {c}
           /\ applied' = [applied EXCEPT ![c] = mat]
    BY <1>13, <2>1
  <2>4. files' \in [Clients -> [Paths -> Texts \cup {NoText}]]
    BY <1>3, <2>2, <2>3 DEF DiskTyped
  <2>4a. applied' \in [Clients -> [Paths -> Texts \cup {NoText}]]
    BY <1>3, <2>2, <2>3 DEF DiskTyped
  <2>5. rooted' \subseteq Clients /\ acts' = acts
    BY <1>2, <1>3, <2>3 DEF DiskTyped
  <2> QED BY <1>3, <1>11, <2>4, <2>4a, <2>5 DEF DiskTyped
<1>15. touched' \in [Clients -> SUBSET Paths]
  <2>1. PICK new : new = touched[c] \cup LivePathsIn(snap) \cup {p \in Paths : files'[c][p] # files[c][p]}
    OBVIOUS
  <2>2. new \in SUBSET Paths
    BY <1>12, <2>1, OfLoop
  <2>3. touched' = touched \/ touched' = [touched EXCEPT ![c] = new]
    BY <1>13, <2>1
  <2> QED BY <2>2, <2>3, OfLoop
<1>16. unseen' \in [Clients -> SUBSET Paths]
  <2>1. PICK gone : gone = {p \in IF Held(c) THEN Paths ELSE unseen[c] : files'[c][p] # FilesOf(snap)[p]}
    OBVIOUS
  <2>2. gone \in SUBSET Paths /\ unseen' = [unseen EXCEPT ![c] = gone]
    BY <1>1, <2>1, OfLoop DEF EndCycle
  <2> QED BY <2>2, OfLoop
<1>17. Moves(Texts)
  BY <1>2 DEF Moves
<1>18. RunsGood(Texts)'
  BY <1>2, RunsGoodKept DEF WInv, IInv, RunsGood
<1>19. IInv(Texts)'
  BY <1>2, <1>3, <1>14, <1>18, SharedFrame DEF IInv
<1>20. w.cur <= cursor' /\ Sound(Texts, w.snap) /\ Current(w.snap, w.cur)'
  <2>1. PICK now : now = cursor
    OBVIOUS
  <2>2. now \in Nat /\ now <= cursor /\ Current(snap, now)
    BY <1>3, <1>4, <2>1 DEF SharedTyped
  <2>3. now <= cursor' /\ Current(snap, now)'
    BY <1>3, <1>17, <2>2, SnapKept
  <2> QED BY <1>4, <1>6, <2>1, <2>3
<1> QED BY <1>6, <1>7, <1>10, <1>15, <1>16, <1>17, <1>19, <1>20, LoopSteps

LEMMA UserStepHolds ==
    ASSUME NEW Texts, Closed(Texts), WInv(Texts), NEW c \in Clients, UserStep(c)
    PROVE  WInv(Texts)'
<1>1. IInv(Texts)' /\ Moves(Texts)
  BY SyncMoves DEF WInv, UserStep
<1>2. Disturbed(c) \in SUBSET Paths
  BY DEF Disturbed
<1>3. PICK now : now = IF watch[c].mode \in {"watching", "batch"} THEN touched[c] \cup Disturbed(c)
                       ELSE touched[c]
  OBVIOUS
<1>4. PICK gone : gone = IF watch[c].mode \in {"watching", "batch"} THEN unseen[c] \ Disturbed(c)
                         ELSE IF watch[c].mode = "arming" THEN unseen[c] \cup Disturbed(c) ELSE unseen[c]
  OBVIOUS
<1>5. now \in SUBSET Paths /\ gone \in SUBSET Paths
  BY <1>2, <1>3, <1>4, OfLoop
<1>6. touched' = [touched EXCEPT ![c] = now] /\ unseen' = [unseen EXCEPT ![c] = gone]
  BY <1>3, <1>4 DEF UserStep
<1>7. touched' \in [Clients -> SUBSET Paths] /\ unseen' \in [Clients -> SUBSET Paths]
  BY <1>5, <1>6, OfLoop
<1>8. UNCHANGED <<watch, status, tries>>
  BY DEF UserStep
<1> QED BY <1>1, <1>7, <1>8, LoopsRest

LEMMA TransportFailsHolds ==
    ASSUME NEW Texts, Closed(Texts), WInv(Texts), NEW c \in Clients, TransportFails(c)
    PROVE  WInv(Texts)'
<1>1. IInv(Texts)'
  BY EndKeeps, ActTyped DEF TransportFails, WInv, IInv
<1>2. Moves(Texts) /\ watch[c].mode # "off" /\ UNCHANGED <<touched, unseen>>
  BY DEF TransportFails, Moves
<1>3. \/ \E issue \in Issues \ {"none"} : GiveUp(c, issue)
      \/ \E t \in [soon : Nat, again : BOOLEAN] : Again(c, t)
  BY ConflictRecovers DEF TransportFails
<1> QED BY <1>1, <1>2, <1>3, Recovers

LEMMA RelaunchHolds ==
    ASSUME NEW Texts, Closed(Texts), WInv(Texts), NEW c \in Clients, Relaunch(c)
    PROVE  WInv(Texts)'
<1>1. UNCHANGED <<shared, disk, run, touched, unseen>> /\ Act
  BY DEF Relaunch
<1>2. IInv(Texts)'
  <2>1. RunsGood(Texts)'
    BY <1>1, RunsGoodKept DEF WInv, IInv, RunsGood
  <2>2. DiskTyped(Texts)'
    BY <1>1, ActTyped DEF WInv, IInv, DiskTyped, disk
  <2> QED BY <1>1, <2>1, <2>2, SharedFrame DEF WInv, IInv
<1>3. Moves(Texts)
  BY <1>1 DEF Moves
<1>4. PICK w : w = Boot
  OBVIOUS
<1>5. PICK saved : saved = Saved(FALSE, "none", 0)
  OBVIOUS
<1>6. PICK t : t = NoTries
  OBVIOUS
<1>7. w \in Loops(Texts) /\ w.mode = "booting"
  BY <1>4, BootTyped
<1>8. saved \in Statuses /\ t \in [soon : Nat, again : BOOLEAN]
  BY <1>5, <1>6 DEF Saved, Statuses, Issues, NoTries
<1>9. saved.issue = "none" /\ saved.recoveries = 0 /\ Recoveries(t) = 0
  BY <1>5, <1>6 DEF Saved, NoTries, Recoveries
<1>10. Truthful(w, saved, t)
  BY <1>7, <1>9 DEF Truthful
<1>11. /\ watch' = [watch EXCEPT ![c] = w] /\ status' = [status EXCEPT ![c] = saved]
       /\ tries' = [tries EXCEPT ![c] = t]
  BY <1>4, <1>5, <1>6 DEF Relaunch
<1>12. touched' \in [Clients -> SUBSET Paths] /\ unseen' \in [Clients -> SUBSET Paths]
  BY <1>1, OfLoop
<1> QED BY <1>2, <1>3, <1>7, <1>8, <1>10, <1>11, <1>12, LoopGoesOn

LEMMA OthersHold ==
    ASSUME NEW Texts, Closed(Texts), WInv(Texts), Others
    PROVE  WInv(Texts)'
<1>1. UNCHANGED <<disk, watch, touched, status, tries, unseen>> /\ Act
      /\ run' = [x \in Clients |-> NotAlone(run[x])]
  BY DEF Others, loop, NotAlone
<1>2. Stamped(Texts)
  <2>1. acts + 1 \in Nat
    BY <1>1, ActTyped DEF WInv, IInv
  <2>2. ASSUME NEW d \in live, NEW t \in Edited(text[d], acts + 1), Rewrite(d, t) PROVE Stamped(Texts)
    <3>1. d \in Docs /\ t \in Texts
      BY <2>1 DEF Closed, WInv, IInv, SharedTyped, Created
    <3> QED BY <2>2, <3>1, RequestStamps, SyncAssumption DEF WInv, IInv
  <2>3. ASSUME NEW d \in live, Delete(d) PROVE Stamped(Texts)
    <3>1. d \in Docs
      BY DEF WInv, IInv, SharedTyped, Created
    <3> QED BY <2>3, <3>1, RequestStamps, SyncAssumption DEF WInv, IInv, Closed
  <2>4. ASSUME NEW d \in live, NEW p \in Paths, Move(d, p) PROVE Stamped(Texts)
    <3>1. d \in Docs
      BY DEF WInv, IInv, SharedTyped, Created
    <3> QED BY <2>4, <3>1, RequestStamps, SyncAssumption DEF WInv, IInv, Closed
  <2>5. ASSUME NEW d \in Docs \ Created, NEW p \in Paths, NEW t \in Edited(NoText, acts + 1), Place(d, p, t)
        PROVE  Stamped(Texts)
    <3>1. t \in Texts
      BY <2>1 DEF Closed
    <3> QED BY <2>5, <3>1, RequestStamps, SyncAssumption DEF WInv, IInv
  <2> QED BY <2>2, <2>3, <2>4, <2>5 DEF Others
<1>3. RunsGood(Texts)'
  <2>1. \A x \in Clients : GoodRun(Texts, NotAlone(run[x]))
    BY AdvancedGood DEF WInv, IInv, RunsGood
  <2>2. run' = [x \in Clients |-> run'[x]] /\ \A x \in Clients : GoodRun(Texts, run'[x])
    BY <1>1, <2>1
  <2> QED BY <1>2, <2>2, RunsGoodKept DEF WInv
<1>4. DiskTyped(Texts)'
  BY <1>1, ActTyped DEF WInv, IInv, DiskTyped, disk
<1>5. IInv(Texts)' /\ Moves(Texts)
  BY <1>2, <1>3, <1>4 DEF IInv, Stamped, Moves
<1>6. touched' \in [Clients -> SUBSET Paths] /\ unseen' \in [Clients -> SUBSET Paths]
      /\ UNCHANGED <<watch, status, tries>>
  BY <1>1 DEF WInv, LoopTyped
<1> QED BY <1>5, <1>6, LoopsRest

LEMMA StutterHolds ==
    ASSUME NEW Texts, Closed(Texts), WInv(Texts), UNCHANGED all
    PROVE  WInv(Texts)'
<1>1. UNCHANGED vars /\ UNCHANGED loop
  BY DEF all
<1>2. IInv(Texts)'
  BY <1>1, NextKeeps DEF WInv
<1>3. Moves(Texts)
  BY <1>1 DEF vars, Moves
<1>4. touched' \in [Clients -> SUBSET Paths] /\ unseen' \in [Clients -> SUBSET Paths]
      /\ UNCHANGED <<watch, status, tries>>
  BY <1>1 DEF WInv, LoopTyped, loop
<1> QED BY <1>2, <1>3, <1>4, LoopsRest

LEMMA WatchStepHolds ==
    ASSUME NEW Texts, Closed(Texts), WInv(Texts), [WatchNext]_all
    PROVE  WInv(Texts)'
<1>1. ASSUME NEW c \in Clients, Cycle(c) PROVE WInv(Texts)'
  BY <1>1, BootingHolds, BootFailsHolds, BootedHolds, ArmHolds, PollHolds, MoveOneHolds, CreateOneHolds,
     NothingToDoHolds, UpdateOneHolds, DeleteOneHolds, BatchFailsHolds, EndCycleHolds DEF Cycle
<1>2. ASSUME NEW c \in Clients, Ended(c) PROVE WInv(Texts)'
  BY <1>2, StutterHolds DEF Ended
<1> QED BY <1>1, <1>2, UserStepHolds, TransportFailsHolds, RelaunchHolds, OthersHold, StutterHolds
        DEF WatchNext

LEMMA WatchStarts ==
    ASSUME NEW Texts, Closed(Texts), WatchInit
    PROVE  WInv(Texts)
<1>1. IInv(Texts)
  BY InitHolds DEF WatchInit
<1>2. LoopTyped(Texts)
  <2>1. Boot \in Loops(Texts)
    BY BootTyped
  <2>2. NoTries \in [soon : Nat, again : BOOLEAN]
    BY DEF NoTries
  <2>3. Saved(FALSE, "none", 0) \in Statuses
    BY DEF Saved, Statuses, Issues
  <2> QED BY <2>1, <2>2, <2>3 DEF LoopTyped, WatchInit
<1>3. Boot.mode = "booting"
  BY DEF Boot
<1>4. SnapsGood(Texts)
  BY <1>3 DEF SnapsGood, Looping, WatchInit
<1>5. StatusTellsTheTruth
  <2>1. Saved(FALSE, "none", 0).issue = "none" /\ Saved(FALSE, "none", 0).recoveries = 0
        /\ Recoveries(NoTries) = 0
    BY DEF Saved, NoTries, Recoveries
  <2> QED BY <1>3, <2>1 DEF StatusTellsTheTruth, WatchInit, Modes, Issues
<1> QED BY <1>1, <1>2, <1>4, <1>5 DEF WInv

-----------------------------------------------------------------------------
\* The status file never claims a watch that has ended, shows an issue exactly
\* of one that has, and has counted every recovery of this run.
THEOREM StatusStaysTrue ==
    ASSUME NEW Texts, Closed(Texts)
    PROVE  WatchSpec => []StatusTellsTheTruth
<1>1. WatchInit => WInv(Texts)
  BY WatchStarts
<1>2. WInv(Texts) /\ [WatchNext]_all => WInv(Texts)'
  BY WatchStepHolds
<1>3. WInv(Texts) => StatusTellsTheTruth
  BY DEF WInv
<1> QED BY <1>1, <1>2, <1>3, PTL DEF WatchSpec

\* The snapshot the loop carries on from cycle to cycle is the server's at its
\* cursor: each delta is asked for from the cursor the snapshot has, never from
\* the one the batch's own writes have come to.
THEOREM WatchStaysCurrent ==
    ASSUME NEW Texts, Closed(Texts)
    PROVE  WatchSpec => []WatchSnapshotCurrent
<1>1. WatchInit => WInv(Texts)
  BY WatchStarts
<1>2. WInv(Texts) /\ [WatchNext]_all => WInv(Texts)'
  BY WatchStepHolds
<1>3. WInv(Texts) => WatchSnapshotCurrent
  BY DEF WInv, SnapsGood, Looping, Current, WatchSnapshotCurrent
<1> QED BY <1>1, <1>2, <1>3, PTL DEF WatchSpec

-----------------------------------------------------------------------------
(* Edits that were reported are kept.                                      *)

LoopsKnown == \A c \in Clients : Looping(c) => Known(watch[c].snap)

\* Where the loop knows, or need not know, that a file may differ: what the next
\* poll reports, what the batch has left to do, and what no poll will report.
Noticed(c) ==
    unseen[c] \cup (IF watch[c].mode = "arming" THEN {} ELSE touched[c])
      \cup (IF watch[c].mode = "batch" THEN watch[c].todo ELSE {})

\* Any other file has only lines the server recorded.
EditsSeen ==
    \A c \in Clients : Looping(c) =>
       \A p \in Paths \ Noticed(c) : Present(c, p) => LinesOf(files[c][p]) \subseteq recorded

KInv(Texts) == WInv(Texts) /\ TextsKnown /\ SavedKnown /\ RunsKnown /\ LoopsKnown /\ EditsSeen

LEMMA LoopsKnownKept ==
    ASSUME NEW Texts, WInv(Texts), LoopsKnown, NEW c \in Clients, NEW w,
           watch' = [watch EXCEPT ![c] = w], recorded \subseteq recorded',
           w.mode \in {"arming", "watching", "batch"} =>
              \A d \in Docs : w.snap[d].live => LinesOf(w.snap[d].text) \subseteq recorded'
    PROVE  LoopsKnown'
<1>1. watch'[c] = w /\ \A x \in Clients \ {c} : watch'[x] = watch[x]
  BY DEF WInv, LoopTyped
<1>2. ASSUME NEW x \in Clients, Looping(x)', NEW d \in Docs, watch'[x].snap[d].live
      PROVE  LinesOf(watch'[x].snap[d].text) \subseteq recorded'
  BY <1>1, <1>2 DEF LoopsKnown, Looping, Known
<1> QED BY <1>2 DEF LoopsKnown, Known

\* One checkout's step: what is to be shown of its own files.
LEMMA EditsKept ==
    ASSUME EditsSeen, recorded \subseteq recorded', NEW c \in Clients,
           \A x \in Clients \ {c} : /\ files'[x] = files[x] /\ (x \in rooted' <=> x \in rooted)
                                    /\ watch'[x] = watch[x] /\ touched'[x] = touched[x]
                                    /\ unseen'[x] = unseen[x],
           Looping(c)' => \A p \in Paths : p \notin Noticed(c)' /\ Present(c, p)' =>
                             LinesOf(files'[c][p]) \subseteq recorded'
    PROVE  EditsSeen'
<1>1. ASSUME NEW x \in Clients, Looping(x)', NEW p \in Paths, p \notin Noticed(x)', Present(x, p)'
      PROVE  LinesOf(files'[x][p]) \subseteq recorded'
  <2>1. CASE x = c
    BY <1>1, <2>1
  <2>2. CASE x # c
    <3>1. Looping(x) /\ p \notin Noticed(x) /\ Present(x, p)
      BY <1>1, <2>2 DEF Looping, Noticed, Present
    <3> QED BY <2>2, <3>1 DEF EditsSeen
  <2> QED BY <2>1, <2>2
<1> QED BY <1>1 DEF EditsSeen

\* What a booting run pushes is recorded; it writes nothing to disk.
LEMMA BootingKeeps ==
    ASSUME NEW Texts, Closed(Texts), KInv(Texts), NEW c \in Clients, Booting(c)
    PROVE  KInv(Texts)'
<1>1. WInv(Texts)'
  BY BootingHolds DEF KInv
<1>2. UNCHANGED <<watch, touched, unseen>>
  BY DEF Booting, loop
<1>3. Sync(c) /\ ~Finish(c)
  <2>1. \/ run[c].phase \in {"idle", "moving", "creating", "deleting"}
        \/ run[c].phase = "updating" /\ run[c].todo # {}
    BY DEF Booting, Start, PushMove, PushCreate, PushDelete, PushUpdate, Skip, Turn, Advance, Enter
  <2> QED BY <2>1 DEF Booting, Sync, Finish, Done
<1>4. UNCHANGED <<files, rooted, savedBodies>> /\ recorded \subseteq recorded' /\ Records'
  BY <1>3, PushesRecord DEF KInv, WInv, Records
<1>5. LoopsKnown'
  BY <1>2, <1>4 DEF KInv, LoopsKnown, Looping, Known
<1>6. EditsSeen'
  BY <1>2, <1>4 DEF KInv, EditsSeen, Looping, Noticed, Present
<1> QED BY <1>1, <1>4, <1>5, <1>6 DEF KInv, Records

\* The watch ends or begins anew: its loop is over.
LEMMA RecoveryKeeps ==
    ASSUME NEW Texts, KInv(Texts), WInv(Texts)', NEW c \in Clients,
           UNCHANGED <<shared, disk, recorded, touched, unseen>>,
           \/ run' = run
           \/ run' = [run EXCEPT ![c] = NoRun],
           NEW w, watch' = [watch EXCEPT ![c] = w], w.mode \in {"off", "booting"}
    PROVE  KInv(Texts)'
<1>1. TextsKnown' /\ SavedKnown'
  BY DEF KInv, TextsKnown, SavedKnown, shared, disk
<1>2. RunsKnown'
  <2>1. NoRun.phase = "idle"
    BY DEF NoRun
  <2>2. CASE run' = run
    BY <2>2, RunsKnownKept DEF KInv
  <2>3. CASE run' = [run EXCEPT ![c] = NoRun]
    <3>1. PICK r : r = NoRun
      OBVIOUS
    <3> QED BY <2>1, <2>3, <3>1, OneRunKnown DEF KInv, WInv
  <2> QED BY <2>2, <2>3
<1>3. LoopsKnown'
  BY LoopsKnownKept DEF KInv
<1>4. watch'[c] = w /\ \A x \in Clients \ {c} : watch'[x] = watch[x]
  BY DEF KInv, WInv, LoopTyped
<1>5. ~Looping(c)'
  BY <1>4 DEF Looping
<1>6. EditsSeen'
  BY <1>4, <1>5, EditsKept DEF KInv, disk
<1> QED BY <1>1, <1>2, <1>3, <1>6 DEF KInv

LEMMA RecoversTo ==
    ASSUME NEW Texts, WInv(Texts), NEW c \in Clients,
           \/ \E issue : GiveUp(c, issue)
           \/ \E t : Again(c, t)
    PROVE  \E w : watch' = [watch EXCEPT ![c] = w] /\ w.mode \in {"off", "booting"}
<1>1. CASE \E issue : GiveUp(c, issue)
  <2>1. PICK w : w = [watch[c] EXCEPT !.mode = "off"]
    OBVIOUS
  <2>2. w.mode = "off" /\ watch' = [watch EXCEPT ![c] = w]
    BY <1>1, <2>1, OfLoop DEF GiveUp, Loops
  <2> QED BY <2>2
<1>2. CASE \E t : Again(c, t)
  <2>1. PICK w : w = Boot
    OBVIOUS
  <2>2. w.mode = "booting" /\ watch' = [watch EXCEPT ![c] = w]
    BY <1>2, <2>1 DEF Again, Boot
  <2> QED BY <2>2
<1> QED BY <1>1, <1>2

LEMMA EndsKeep ==
    ASSUME NEW Texts, Closed(Texts), KInv(Texts), NEW c \in Clients,
           BootFails(c) \/ BatchFails(c) \/ TransportFails(c) \/ Relaunch(c)
    PROVE  KInv(Texts)'
<1>1. WInv(Texts)'
  BY BootFailsHolds, BatchFailsHolds, TransportFailsHolds, RelaunchHolds DEF KInv
<1>2. UNCHANGED <<shared, disk, recorded, touched, unseen>>
  BY DEF BootFails, Refused, BatchFails, TransportFails, Relaunch, vars, disk
<1>3. run' = run \/ run' = [run EXCEPT ![c] = NoRun]
  BY DEF BootFails, Refused, BatchFails, TransportFails, Relaunch, vars
<1>4. \E w : watch' = [watch EXCEPT ![c] = w] /\ w.mode \in {"off", "booting"}
  <2>1. CASE Relaunch(c)
    <3>1. PICK w : w = Boot
      OBVIOUS
    <3>2. w.mode = "booting" /\ watch' = [watch EXCEPT ![c] = w]
      BY <2>1, <3>1 DEF Relaunch, Boot
    <3> QED BY <3>2
  <2>2. CASE ~Relaunch(c)
    <3>1. (\E issue : GiveUp(c, issue)) \/ (\E t : Again(c, t))
      BY <2>2 DEF BootFails, BatchFails, TransportFails, Conflict, Unreachable
    <3> QED BY <3>1, RecoversTo DEF KInv
  <2> QED BY <2>1, <2>2
<1> QED BY <1>1, <1>2, <1>3, <1>4, RecoveryKeeps

\* A step of the batch: what it takes off the list is recorded or is no file.
LEMMA BatchStepKeeps ==
    ASSUME NEW Texts, KInv(Texts), WInv(Texts)', NEW c \in Clients, watch[c].mode = "batch",
           UNCHANGED <<files, rooted, savedBodies, run, touched, unseen>>,
           recorded \subseteq recorded', TextsKnown',
           NEW w, watch' = [watch EXCEPT ![c] = w], w.mode = "batch", w.snap = watch[c].snap,
           \A p \in Paths : p \in watch[c].todo /\ p \notin w.todo /\ Present(c, p) =>
              LinesOf(files[c][p]) \subseteq recorded'
    PROVE  KInv(Texts)'
<1>1. SavedKnown'
  BY DEF KInv, SavedKnown
<1>2. RunsKnown'
  BY RunsKnownKept DEF KInv
<1>3. Looping(c) /\ Known(watch[c].snap)
  BY DEF Looping, KInv, LoopsKnown
<1>4. LoopsKnown'
  BY <1>3, LoopsKnownKept DEF KInv, Known
<1>5. watch'[c] = w /\ \A x \in Clients \ {c} : watch'[x] = watch[x]
  BY DEF KInv, WInv, LoopTyped
<1>6. ASSUME NEW p \in Paths, p \notin Noticed(c)', Present(c, p)'
      PROVE  LinesOf(files'[c][p]) \subseteq recorded'
  <2>1. Present(c, p) /\ p \notin unseen[c] /\ p \notin touched[c] /\ p \notin w.todo
    BY <1>5, <1>6 DEF Noticed, Present
  <2>2. CASE p \in watch[c].todo
    BY <2>1, <2>2
  <2>3. CASE p \notin watch[c].todo
    <3>1. p \notin Noticed(c)
      BY <2>1, <2>3 DEF Noticed
    <3> QED BY <1>3, <2>1, <3>1 DEF KInv, EditsSeen
  <2> QED BY <2>2, <2>3
<1>7. EditsSeen'
  BY <1>5, <1>6, EditsKept DEF KInv
<1> QED BY <1>1, <1>2, <1>4, <1>7 DEF KInv

\* A request of the batch.
LEMMA PushedRecords ==
    ASSUME NEW Texts, KInv(Texts), WInv(Texts)', NEW c \in Clients, watch[c].mode = "batch",
           NEW w \in Loops(Texts), w.mode = "batch", w.snap = watch[c].snap,
           NEW n, Pushed(c, w, n), recorded \subseteq recorded', TextsKnown',
           \A p \in Paths : p \in watch[c].todo /\ p \notin w.todo /\ Present(c, p) =>
              LinesOf(files[c][p]) \subseteq recorded'
    PROVE  KInv(Texts)'
<1>1. PICK v : v = [w EXCEPT !.based = @ + n]
  OBVIOUS
<1>2. v.mode = "batch" /\ v.snap = w.snap /\ v.todo = w.todo
  BY <1>1 DEF Loops
<1>3. watch' = [watch EXCEPT ![c] = v]
  BY <1>1 DEF Pushed
<1>4. UNCHANGED <<files, rooted, savedBodies, run, touched, unseen>>
  BY DEF Pushed, disk
<1> QED BY <1>2, <1>3, <1>4, BatchStepKeeps

LEMMA MoveOneKeeps ==
    ASSUME NEW Texts, Closed(Texts), KInv(Texts), NEW c \in Clients, NEW m \in watch[c].moves, MoveOne(c, m)
    PROVE  KInv(Texts)'
<1>1. WInv(Texts)'
  BY MoveOneHolds DEF KInv
<1>2. PICK w : w = [watch[c] EXCEPT !.moves = @ \ {m}]
  OBVIOUS
<1>3. Pushed(c, w, 1) /\ watch[c].mode = "batch" /\ recorded' = recorded
  BY <1>2 DEF MoveOne
<1>4. w \in Loops(Texts) /\ w.mode = "batch" /\ w.snap = watch[c].snap /\ w.todo = watch[c].todo
  BY <1>2, <1>3, OfLoop DEF Loops, KInv
<1>5. TextsKnown'
  <2>1. UNCHANGED <<live, text>>
    BY DEF MoveOne, Move
  <2> QED BY <1>3, <2>1 DEF KInv, TextsKnown
<1> QED BY <1>1, <1>3, <1>4, <1>5, PushedRecords

LEMMA WithoutTakes ==
    ASSUME NEW Texts, WInv(Texts), NEW c \in Clients, NEW p
    PROVE  Without(c, p).todo = watch[c].todo \ {p}
  BY OfLoop DEF Without, Loops

LEMMA CreateOneKeeps ==
    ASSUME NEW Texts, Closed(Texts), KInv(Texts), NEW c \in Clients, NEW p \in Paths, CreateOne(c, p)
    PROVE  KInv(Texts)'
<1>1. WInv(Texts) /\ WInv(Texts)'
  BY CreateOneHolds DEF KInv
<1>2. PICK w : w = Without(c, p)
  OBVIOUS
<1>3. Pushed(c, w, 1) /\ watch[c].mode = "batch" /\ recorded' = recorded \cup LinesOf(files[c][p])
  BY <1>2 DEF CreateOne, Due
<1>4. w \in Loops(Texts) /\ w.mode = "batch" /\ w.snap = watch[c].snap /\ w.todo = watch[c].todo \ {p}
  BY <1>1, <1>2, <1>3, WithoutTyped, WithoutTakes
<1>5. TextsKnown'
  <2>1. PICK t : t = files[c][p]
    OBVIOUS
  <2>2. PICK d \in Docs \ Created : Place(d, p, t)
    BY <2>1 DEF CreateOne
  <2> QED BY <1>3, <2>1, <2>2, RequestRecords DEF KInv, WInv
<1> QED BY <1>1, <1>3, <1>4, <1>5, PushedRecords

\* The lines of an edit are those it added, which converging keeps, and those of
\* its base, which the server had once.
LEMMA UpdateOneKeeps ==
    ASSUME NEW Texts, Closed(Texts), KeepsAdditions(Texts), KInv(Texts), NEW c \in Clients,
           NEW d \in Docs, UpdateOne(c, d)
    PROVE  KInv(Texts)'
<1>1. WInv(Texts) /\ WInv(Texts)'
  BY UpdateOneHolds DEF KInv
<1>2. PICK p : p = watch[c].snap[d].path
  OBVIOUS
<1>3. PICK merged : merged = Converge(SentBase(c, d), text[d], files[c][p])
  OBVIOUS
<1>4. PICK w : w = Without(c, p)
  OBVIOUS
<1>5. /\ Pushed(c, w, 0) /\ watch[c].mode = "batch" /\ recorded' = recorded \cup LinesOf(merged)
      /\ Rewrite(d, merged)
  BY <1>2, <1>3, <1>4 DEF UpdateOne, Due
<1>6. w \in Loops(Texts) /\ w.mode = "batch" /\ w.snap = watch[c].snap /\ w.todo = watch[c].todo \ {p}
  BY <1>1, <1>4, <1>5, WithoutTyped, WithoutTakes
<1>7. TextsKnown'
  BY <1>5, RequestRecords DEF KInv, WInv
<1>8. Looping(c) /\ watch[c].snap[d].live
  BY <1>5 DEF UpdateOne, DocAt, LiveIn, Looping
<1>9. p \in Paths /\ watch[c].snap[d].text \in Texts
  BY <1>2, <1>8 DEF KInv, WInv, SnapsGood, Sound
<1>10. files[c][p] \in Texts
  BY <1>2, <1>9 DEF UpdateOne, Present, KInv, WInv, IInv, DiskTyped
<1>11. SentBase(c, d) \in Texts /\ LinesOf(SentBase(c, d)) \subseteq recorded
  <2>1. CASE savedBodies[c][d] # NoText
    <3>1. SentBase(c, d) = savedBodies[c][d]
      BY <2>1 DEF SentBase
    <3>2. savedBodies[c][d] \in Texts
      BY <2>1 DEF KInv, WInv, IInv, DiskTyped
    <3> QED BY <2>1, <3>1, <3>2 DEF KInv, SavedKnown
  <2>2. CASE savedBodies[c][d] = NoText
    <3>1. SentBase(c, d) = watch[c].snap[d].text
      BY <2>2 DEF SentBase
    <3>2. LinesOf(watch[c].snap[d].text) \subseteq recorded
      BY <1>8 DEF KInv, LoopsKnown, Known
    <3> QED BY <1>9, <3>1, <3>2
  <2> QED BY <2>1, <2>2
<1>12. text[d] \in Texts
  BY <1>5 DEF Rewrite, KInv, WInv, IInv, SharedTyped
<1>13. LinesOf(files[c][p]) \ LinesOf(SentBase(c, d)) \subseteq LinesOf(merged)
  BY <1>3, <1>10, <1>11, <1>12 DEF KeepsAdditions
<1>14. LinesOf(files[c][p]) \subseteq recorded'
  BY <1>5, <1>11, <1>13
<1> QED BY <1>1, <1>5, <1>6, <1>7, <1>14, PushedRecords

LEMMA DeleteOneKeeps ==
    ASSUME NEW Texts, Closed(Texts), KInv(Texts), NEW c \in Clients, NEW d \in Docs, DeleteOne(c, d)
    PROVE  KInv(Texts)'
<1>1. WInv(Texts) /\ WInv(Texts)'
  BY DeleteOneHolds DEF KInv
<1>2. PICK p : p = watch[c].snap[d].path
  OBVIOUS
<1>3. PICK w : w = Without(c, p)
  OBVIOUS
<1>4. Pushed(c, w, 1) /\ watch[c].mode = "batch" /\ recorded' = recorded /\ ~Present(c, p) /\ Delete(d)
  BY <1>2, <1>3 DEF DeleteOne, Due
<1>5. w \in Loops(Texts) /\ w.mode = "batch" /\ w.snap = watch[c].snap /\ w.todo = watch[c].todo \ {p}
  BY <1>1, <1>3, <1>4, WithoutTyped, WithoutTakes
<1>6. TextsKnown'
  BY <1>4, RequestRecords DEF KInv, WInv
<1> QED BY <1>1, <1>4, <1>5, <1>6, PushedRecords

LEMMA NothingToDoKeeps ==
    ASSUME NEW Texts, Closed(Texts), KInv(Texts), NEW c \in Clients, NEW p \in Paths, NothingToDo(c, p)
    PROVE  KInv(Texts)'
<1>1. WInv(Texts) /\ WInv(Texts)'
  BY NothingToDoHolds DEF KInv
<1>2. PICK w : w = Without(c, p)
  OBVIOUS
<1>3. /\ watch[c].mode = "batch" /\ watch' = [watch EXCEPT ![c] = w]
      /\ UNCHANGED <<shared, disk, run, recorded, touched, unseen>>
  BY <1>2 DEF NothingToDo, Due, vars, disk
<1>4. w.mode = "batch" /\ w.snap = watch[c].snap /\ w.todo = watch[c].todo \ {p}
  BY <1>1, <1>2, <1>3, WithoutTyped, WithoutTakes
<1>5. Present(c, p) => LinesOf(files[c][p]) \subseteq recorded
  <2>1. PICK snap : snap = watch[c].snap
    OBVIOUS
  <2>2. Known(snap)
    BY <1>3, <2>1 DEF KInv, LoopsKnown, Looping
  <2>3. Present(c, p) => files[c][p] # NoText /\ files[c][p] = FilesOf(snap)[p]
    BY <2>1 DEF NothingToDo, Present
  <2> QED BY <2>2, <2>3, FilesKnown
<1>6. TextsKnown'
  BY <1>3 DEF KInv, TextsKnown, shared
<1>7. UNCHANGED <<files, rooted, savedBodies, run, touched, unseen>> /\ recorded' = recorded
  BY <1>3 DEF disk
<1> QED BY <1>1, <1>3, <1>4, <1>5, <1>6, <1>7, BatchStepKeeps

LEMMA BootedKeeps ==
    ASSUME NEW Texts, Closed(Texts), KInv(Texts), NEW c \in Clients, Booted(c)
    PROVE  KInv(Texts)'
<1>1. WInv(Texts) /\ WInv(Texts)'
  BY BootedHolds DEF KInv
<1>2. PICK snap : snap = Refreshed(c).snap
  OBVIOUS
<1>3. PICK w : w = [watch[c] EXCEPT !.mode = "arming", !.snap = snap, !.cur = Refreshed(c).cur]
  OBVIOUS
<1>4. Finish(c) /\ watch[c].mode = "booting" /\ run[c].phase # "idle"
  BY DEF Booted, Finish, Done
<1>5. Known(snap)
  BY <1>1, <1>2, <1>4, RefreshedKnown DEF KInv, WInv
<1>6. /\ w.mode = "arming" /\ w.snap = snap
      /\ watch' = [watch EXCEPT ![c] = w]
  BY <1>1, <1>2, <1>3, OfLoop DEF Booted, Loops
<1>7. UNCHANGED <<shared, recorded, touched>> /\ run' = [run EXCEPT ![c] = NoRun]
      /\ unseen' = [unseen EXCEPT ![c] = {p \in Paths : files'[c][p] # FilesOf(snap)[p]}]
  BY <1>2, <1>4 DEF Booted, Finish
<1>8. TextsKnown'
  BY <1>7 DEF KInv, TextsKnown, shared
<1>9. SavedKnown'
  <2>1. SaveBodies(c, snap)
    BY <1>2, <1>4 DEF Finish
  <2> QED BY <1>1, <1>5, <1>7, <2>1, SavedKnownKept DEF KInv, WInv
<1>10. RunsKnown'
  <2>1. PICK r : r = NoRun
    OBVIOUS
  <2>2. r.phase = "idle"
    BY <2>1 DEF NoRun
  <2> QED BY <1>1, <1>7, <2>1, <2>2, OneRunKnown DEF KInv, WInv
<1>11. LoopsKnown'
  BY <1>1, <1>5, <1>6, <1>7, LoopsKnownKept DEF KInv, Known
<1>12. watch'[c] = w /\ \A x \in Clients \ {c} : watch'[x] = watch[x]
  BY <1>1, <1>6 DEF WInv, LoopTyped
<1>13. \A x \in Clients \ {c} : /\ files'[x] = files[x] /\ (x \in rooted' <=> x \in rooted)
                                /\ touched'[x] = touched[x] /\ unseen'[x] = unseen[x]
  <2>1. \A x \in Clients \ {c} : files'[x] = files[x] /\ (x \in rooted' <=> x \in rooted)
    BY <1>1, <1>4 DEF Finish, WInv, IInv, DiskTyped
  <2>2. \A x \in Clients \ {c} : touched'[x] = touched[x] /\ unseen'[x] = unseen[x]
    BY <1>1, <1>7 DEF WInv, LoopTyped
  <2> QED BY <2>1, <2>2
<1>14. ASSUME NEW p \in Paths, p \notin Noticed(c)', Present(c, p)'
       PROVE  LinesOf(files'[c][p]) \subseteq recorded'
  <2>1. p \notin unseen'[c] /\ files'[c][p] # NoText
    BY <1>14 DEF Noticed, Present
  <2>2. unseen'[c] = {q \in Paths : files'[c][q] # FilesOf(snap)[q]}
    BY <1>1, <1>7 DEF WInv, LoopTyped
  <2>3. files'[c][p] = FilesOf(snap)[p]
    BY <2>1, <2>2
  <2> QED BY <1>5, <1>7, <2>1, <2>3, FilesKnown
<1>15. EditsSeen'
  BY <1>7, <1>12, <1>13, <1>14, EditsKept DEF KInv
<1> QED BY <1>1, <1>8, <1>9, <1>10, <1>11, <1>15 DEF KInv

\* A step of the loop that neither asks the server nor writes to disk.
LEMMA InnerKeeps ==
    ASSUME NEW Texts, KInv(Texts), WInv(Texts)', NEW c \in Clients, Looping(c), UNCHANGED vars,
           NEW w, watch' = [watch EXCEPT ![c] = w], w.snap = watch[c].snap,
           \A x \in Clients \ {c} : touched'[x] = touched[x] /\ unseen'[x] = unseen[x],
           \A p \in Paths : p \in Noticed(c) /\ p \notin Noticed(c)' /\ Present(c, p) =>
              LinesOf(files[c][p]) \subseteq recorded
    PROVE  KInv(Texts)'
<1>1. UNCHANGED <<shared, files, rooted, savedBodies, run, recorded>>
  BY DEF vars
<1>2. TextsKnown' /\ SavedKnown'
  BY <1>1 DEF KInv, TextsKnown, SavedKnown, shared
<1>3. RunsKnown'
  BY <1>1, RunsKnownKept DEF KInv
<1>4. LoopsKnown'
  BY <1>1, LoopsKnownKept DEF KInv, LoopsKnown, Known
<1>5. \A x \in Clients \ {c} : watch'[x] = watch[x]
  BY DEF KInv, WInv, LoopTyped
<1>6. ASSUME NEW p \in Paths, p \notin Noticed(c)', Present(c, p)'
      PROVE  LinesOf(files'[c][p]) \subseteq recorded'
  <2>1. Present(c, p)
    BY <1>1, <1>6 DEF Present
  <2>2. CASE p \in Noticed(c)
    BY <1>1, <1>6, <2>1, <2>2
  <2>3. CASE p \notin Noticed(c)
    BY <1>1, <2>1, <2>3 DEF KInv, EditsSeen
  <2> QED BY <2>2, <2>3
<1>7. EditsSeen'
  BY <1>1, <1>5, <1>6, EditsKept DEF KInv
<1> QED BY <1>2, <1>3, <1>4, <1>7 DEF KInv

LEMMA ArmKeeps ==
    ASSUME NEW Texts, Closed(Texts), KInv(Texts), NEW c \in Clients, Arm(c)
    PROVE  KInv(Texts)'
<1>1. WInv(Texts) /\ WInv(Texts)'
  BY ArmHolds DEF KInv
<1>2. PICK w : w = [watch[c] EXCEPT !.mode = "watching"]
  OBVIOUS
<1>3. w.snap = watch[c].snap /\ watch' = [watch EXCEPT ![c] = w] /\ watch[c].mode = "arming"
      /\ UNCHANGED <<vars, unseen>> /\ touched' = [touched EXCEPT ![c] = {}]
  BY <1>1, <1>2, OfLoop DEF Arm, Loops
<1>4. \A x \in Clients \ {c} : touched'[x] = touched[x] /\ unseen'[x] = unseen[x]
  BY <1>1, <1>3 DEF WInv, LoopTyped
<1>5. Noticed(c) \subseteq Noticed(c)'
  BY <1>3 DEF Noticed
<1> QED BY <1>1, <1>3, <1>4, <1>5, InnerKeeps DEF Looping

\* A file the batch does not look at has become that of a document moved to it.
LEMMA PollKeeps ==
    ASSUME NEW Texts, Closed(Texts), KInv(Texts), NEW c \in Clients, Poll(c)
    PROVE  KInv(Texts)'
<1>1. WInv(Texts) /\ WInv(Texts)'
  BY PollHolds DEF KInv
<1>2. PICK plan \in SUBSET Renamed(c, Reported(c)) :
        watch' = [watch EXCEPT ![c] = [@ EXCEPT !.mode = "batch", !.moves = plan, !.based = watch[c].cur,
                   !.todo = {p \in Reported(c) : \A m \in plan : p # m[2] /\ p # watch[c].snap[m[1]].path}]]
  BY DEF Poll
<1>3. PICK due : due = {p \in Reported(c) : \A m \in plan : p # m[2] /\ p # watch[c].snap[m[1]].path}
  OBVIOUS
<1>4. PICK w : w = [watch[c] EXCEPT !.mode = "batch", !.moves = plan, !.based = watch[c].cur, !.todo = due]
  OBVIOUS
<1>5. w.mode = "batch" /\ w.snap = watch[c].snap /\ w.todo = due
  BY <1>1, <1>4, OfLoop DEF Loops
<1>6. watch' = [watch EXCEPT ![c] = w] /\ watch'[c] = w
  BY <1>1, <1>2, <1>3, <1>4, OfLoop
<1>7. UNCHANGED vars /\ watch[c].mode = "watching" /\ Looping(c)
  BY DEF Poll, Looping
<1>8. /\ touched' = [touched EXCEPT ![c] = {}]
      /\ unseen' = [unseen EXCEPT ![c] = IF c \in rooted THEN @ ELSE @ \cup touched[c]]
  BY DEF Poll
<1>9. \A x \in Clients \ {c} : touched'[x] = touched[x] /\ unseen'[x] = unseen[x]
  BY <1>1, <1>8 DEF WInv, LoopTyped
<1>10. ASSUME NEW p \in Paths, p \in Noticed(c), p \notin Noticed(c)', Present(c, p)
       PROVE  LinesOf(files[c][p]) \subseteq recorded
  <2>1. c \in rooted /\ Reported(c) = touched[c]
    BY <1>10 DEF Present, Reported
  <2>2. unseen'[c] = unseen[c]
    BY <1>1, <1>8, <2>1 DEF WInv, LoopTyped
  <2>3. p \in touched[c] /\ p \notin due
    BY <1>5, <1>6, <1>7, <1>10, <2>2 DEF Noticed
  <2>4. PICK m \in plan : p = m[2] \/ p = watch[c].snap[m[1]].path
    BY <1>3, <2>1, <2>3
  <2>5. m[1] \in LiveIn(watch[c].snap) /\ ~Present(c, watch[c].snap[m[1]].path)
        /\ files[c][m[2]] = watch[c].snap[m[1]].text
    BY DEF Renamed
  <2>6. p = m[2]
    BY <1>10, <2>4, <2>5
  <2> QED BY <1>7, <2>5, <2>6 DEF KInv, LoopsKnown, Known, LiveIn
<1> QED BY <1>1, <1>5, <1>6, <1>7, <1>9, <1>10, InnerKeeps

\* What the snapshot is written over was recorded when the batch ended.
LEMMA EndCycleKeeps ==
    ASSUME NEW Texts, Closed(Texts), KInv(Texts), NEW c \in Clients, EndCycle(c)
    PROVE  KInv(Texts)'
<1>1. WInv(Texts) /\ WInv(Texts)'
  BY EndCycleHolds DEF KInv
<1>2. PICK snap : snap = Merged(watch[c].snap, Since(c))
  OBVIOUS
<1>3. PICK w : w = [watch[c] EXCEPT !.mode = "watching", !.snap = snap, !.cur = cursor]
  OBVIOUS
<1>4. /\ watch[c].mode = "batch" /\ watch[c].todo = {} /\ Looping(c)
      /\ UNCHANGED <<shared, run, acts, recorded>>
  BY DEF EndCycle, Looping
<1>5. Known(snap)
  BY <1>2, <1>4, MergedKnown DEF KInv, LoopsKnown
<1>6. w.mode = "watching" /\ w.snap = snap /\ watch' = [watch EXCEPT ![c] = w]
  BY <1>1, <1>2, <1>3, OfLoop DEF EndCycle, Loops
<1>7. watch'[c] = w /\ \A x \in Clients \ {c} : watch'[x] = watch[x]
  BY <1>1, <1>6 DEF WInv, LoopTyped
<1>8. \/ UNCHANGED <<files, rooted, touched>>
      \/ /\ files' = [files EXCEPT ![c] = Materialized(c, snap)]
         /\ rooted' = rooted \cup {c}
         /\ touched' = [touched EXCEPT ![c] =
                          @ \cup LivePathsIn(snap) \cup {p \in Paths : files'[c][p] # files[c][p]}]
  BY <1>2 DEF EndCycle
<1>9. unseen' = [unseen EXCEPT ![c] =
                   {p \in IF Held(c) THEN Paths ELSE @ : files'[c][p] # FilesOf(snap)[p]}]
  BY <1>2 DEF EndCycle
<1>10. TextsKnown'
  BY <1>4 DEF KInv, TextsKnown, shared
<1>11. SavedKnown'
  <2>1. UNCHANGED savedBodies \/ SaveBodies(c, snap)
    BY <1>2 DEF EndCycle
  <2> QED BY <1>1, <1>4, <1>5, <2>1, SavedKnownKept DEF KInv, WInv
<1>12. RunsKnown'
  BY <1>4, RunsKnownKept DEF KInv
<1>13. LoopsKnown'
  BY <1>1, <1>4, <1>5, <1>6, LoopsKnownKept DEF KInv, Known
<1>14. \A x \in Clients \ {c} : /\ files'[x] = files[x] /\ (x \in rooted' <=> x \in rooted)
                                /\ touched'[x] = touched[x] /\ unseen'[x] = unseen[x]
  <2>1. \A x \in Clients \ {c} : files'[x] = files[x] /\ (x \in rooted' <=> x \in rooted)
    BY <1>1, <1>8 DEF WInv, IInv, DiskTyped
  <2>2. \A x \in Clients \ {c} : touched'[x] = touched[x] /\ unseen'[x] = unseen[x]
    BY <1>1, <1>8, <1>9 DEF WInv, LoopTyped
  <2> QED BY <2>1, <2>2
<1>15. ASSUME NEW p \in Paths, p \notin Noticed(c)', Present(c, p)'
       PROVE  LinesOf(files'[c][p]) \subseteq recorded'
  <2>1. p \notin unseen'[c] /\ p \notin touched'[c] /\ files'[c][p] # NoText /\ c \in rooted'
    BY <1>6, <1>7, <1>15 DEF Noticed, Present
  <2>2. CASE files'[c][p] = FilesOf(snap)[p]
    BY <1>4, <1>5, <2>1, <2>2, FilesKnown
  <2>3. CASE files'[c][p] # FilesOf(snap)[p]
    <3>1. ~Held(c) /\ p \notin unseen[c]
      BY <1>1, <1>9, <2>1, <2>3 DEF WInv, LoopTyped
    <3>2. ASSUME files'[c][p] = files[c][p], c \in rooted, p \notin touched[c]
          PROVE  LinesOf(files'[c][p]) \subseteq recorded'
      <4>1. p \notin Noticed(c) /\ Present(c, p)
        BY <1>4, <2>1, <3>1, <3>2 DEF Noticed, Present
      <4> QED BY <1>4, <3>2, <4>1 DEF KInv, EditsSeen
    <3>3. CASE UNCHANGED <<files, rooted, touched>>
      BY <2>1, <3>2, <3>3
    <3>4. CASE /\ files' = [files EXCEPT ![c] = Materialized(c, snap)]
               /\ rooted' = rooted \cup {c}
               /\ touched' = [touched EXCEPT ![c] =
                                @ \cup LivePathsIn(snap) \cup {q \in Paths : files'[c][q] # files[c][q]}]
      <4>1. files'[c] = Materialized(c, snap)
        BY <1>1, <3>4 DEF WInv, IInv, DiskTyped
      <4>2. c \in rooted
        BY <2>3, <4>1 DEF Materialized
      <4>3. p \notin touched[c] /\ files'[c][p] = files[c][p]
        BY <1>1, <2>1, <3>4 DEF WInv, LoopTyped
      <4> QED BY <3>2, <4>2, <4>3
    <3> QED BY <1>8, <3>3, <3>4
  <2> QED BY <2>2, <2>3
<1>16. recorded' = recorded
  BY <1>4
<1>17. EditsSeen'
  BY <1>7, <1>14, <1>15, <1>16, EditsKept DEF KInv
<1> QED BY <1>1, <1>10, <1>11, <1>12, <1>13, <1>17 DEF KInv

\* What the user does is reported, or happens where it is known not to be.
LEMMA UserStepKeepsEdits ==
    ASSUME NEW Texts, Closed(Texts), KInv(Texts), NEW c \in Clients, UserStep(c)
    PROVE  KInv(Texts)'
<1>1. WInv(Texts) /\ WInv(Texts)'
  BY UserStepHolds DEF KInv
<1>2. UserActs(c)
  BY DEF UserStep, User, Write, Remove, Rename, MoveRoot
<1>3. /\ UNCHANGED <<shared, savedBodies, recorded, watch>>
      /\ run' = [run EXCEPT ![c] = NotAlone(run[c])]
  BY <1>2 DEF UserStep, UserActs, NotAlone
<1>4. TextsKnown' /\ SavedKnown'
  BY <1>3 DEF KInv, TextsKnown, SavedKnown, shared
<1>5. RunsKnown'
  <2>1. PICK r : r = NotAlone(run[c])
    OBVIOUS
  <2>2. run[c] \in Runs(Texts)
    BY <1>1 DEF WInv, IInv, RunsGood, GoodRun
  <2>3. r.phase = run[c].phase /\ r.snap = run[c].snap
    BY <2>1, <2>2, PhaseAlike
  <2> QED BY <1>1, <1>3, <2>1, <2>3, OneRunKnown DEF KInv, RunsKnown, WInv
<1>6. LoopsKnown'
  BY <1>3 DEF KInv, LoopsKnown, Looping, Known
<1>7. \A x \in Clients \ {c} : /\ files'[x] = files[x] /\ (x \in rooted' <=> x \in rooted)
                               /\ touched'[x] = touched[x] /\ unseen'[x] = unseen[x]
  <2>1. \A x \in Clients \ {c} : files'[x] = files[x]
    BY <1>1 DEF UserStep, User, Write, Remove, Rename, MoveRoot, WInv, IInv, DiskTyped
  <2>2. \A x \in Clients \ {c} : x \in rooted' <=> x \in rooted
    BY DEF UserStep, User, Write, Remove, Rename, MoveRoot
  <2>3. \A x \in Clients \ {c} : touched'[x] = touched[x] /\ unseen'[x] = unseen[x]
    BY <1>1 DEF UserStep, WInv, LoopTyped
  <2> QED BY <2>1, <2>2, <2>3
<1>8. ASSUME Looping(c), NEW p \in Paths, p \notin Noticed(c)', Present(c, p)'
      PROVE  LinesOf(files'[c][p]) \subseteq recorded'
  <2>1. /\ touched'[c] = IF watch[c].mode \in {"watching", "batch"} THEN touched[c] \cup Disturbed(c)
                         ELSE touched[c]
        /\ unseen'[c] = IF watch[c].mode \in {"watching", "batch"} THEN unseen[c] \ Disturbed(c)
                        ELSE IF watch[c].mode = "arming" THEN unseen[c] \cup Disturbed(c) ELSE unseen[c]
    BY <1>1 DEF UserStep, WInv, LoopTyped
  <2>2. p \notin Disturbed(c) /\ p \notin Noticed(c)
    BY <1>3, <1>8, <2>1 DEF Noticed, Looping
  <2>3. files'[c][p] = files[c][p] /\ Present(c, p)
    BY <1>8, <2>2 DEF Disturbed, Present
  <2> QED BY <1>3, <1>8, <2>2, <2>3 DEF KInv, EditsSeen
<1>9. Looping(c)' => Looping(c)
  BY <1>3 DEF Looping
<1>10. EditsSeen'
  BY <1>3, <1>7, <1>8, <1>9, EditsKept DEF KInv
<1> QED BY <1>1, <1>4, <1>5, <1>6, <1>10 DEF KInv

LEMMA OthersKeep ==
    ASSUME NEW Texts, Closed(Texts), KInv(Texts), Others
    PROVE  KInv(Texts)'
<1>1. WInv(Texts) /\ WInv(Texts)'
  BY OthersHold DEF KInv
<1>2. /\ UNCHANGED <<disk, loop>> /\ run' = [x \in Clients |-> NotAlone(run[x])]
      /\ recorded' = recorded \cup UNION {LinesOf(text'[d]) : d \in live'}
  BY DEF Others, NotAlone
<1>3. TextsKnown'
  BY <1>2 DEF TextsKnown
<1>4. recorded \subseteq recorded' /\ UNCHANGED <<files, rooted, savedBodies, watch, touched, unseen>>
  BY <1>2 DEF disk, loop
<1>5. SavedKnown'
  BY <1>4 DEF KInv, SavedKnown
<1>6. RunsKnown'
  <2>1. ASSUME NEW x \in Clients PROVE run'[x].phase = run[x].phase /\ run'[x].snap = run[x].snap
    <3>1. run[x] \in Runs(Texts) /\ run'[x] = NotAlone(run[x])
      BY <1>1, <1>2 DEF WInv, IInv, RunsGood, GoodRun
    <3> QED BY <3>1, PhaseAlike
  <2> QED BY <1>4, <2>1, RunsKnownKept DEF KInv
<1>7. LoopsKnown'
  BY <1>4 DEF KInv, LoopsKnown, Looping, Known
<1>8. EditsSeen'
  BY <1>4 DEF KInv, EditsSeen, Looping, Noticed, Present
<1> QED BY <1>1, <1>3, <1>5, <1>6, <1>7, <1>8 DEF KInv

LEMMA StutterKeeps ==
    ASSUME NEW Texts, Closed(Texts), KInv(Texts), UNCHANGED all
    PROVE  KInv(Texts)'
<1>1. WInv(Texts)'
  BY StutterHolds DEF KInv
<1>2. UNCHANGED <<shared, files, rooted, savedBodies, run, recorded, watch, touched, unseen>>
  BY DEF all, vars, loop
<1>3. TextsKnown' /\ SavedKnown'
  BY <1>2 DEF KInv, TextsKnown, SavedKnown, shared
<1>4. RunsKnown'
  BY <1>2, RunsKnownKept DEF KInv
<1>5. LoopsKnown' /\ EditsSeen'
  BY <1>2 DEF KInv, LoopsKnown, EditsSeen, Looping, Known, Noticed, Present
<1> QED BY <1>1, <1>3, <1>4, <1>5 DEF KInv

LEMMA WatchStepKeeps ==
    ASSUME NEW Texts, Closed(Texts), KeepsAdditions(Texts), KInv(Texts), [WatchNext]_all
    PROVE  KInv(Texts)'
<1>1. ASSUME NEW c \in Clients, Cycle(c) PROVE KInv(Texts)'
  BY <1>1, BootingKeeps, EndsKeep, BootedKeeps, ArmKeeps, PollKeeps, MoveOneKeeps, CreateOneKeeps,
     NothingToDoKeeps, UpdateOneKeeps, DeleteOneKeeps, EndCycleKeeps DEF Cycle
<1>2. ASSUME NEW c \in Clients, Ended(c) PROVE KInv(Texts)'
  BY <1>2, StutterKeeps DEF Ended
<1> QED BY <1>1, <1>2, UserStepKeepsEdits, EndsKeep, OthersKeep, StutterKeeps DEF WatchNext

LEMMA EditsStart ==
    ASSUME NEW Texts, Closed(Texts), WatchInit
    PROVE  KInv(Texts)
<1>1. WInv(Texts)
  BY WatchStarts
<1>2. PICK t \in Seeds : /\ IF t = NoText THEN SharedInit ELSE Seeded(t)
                         /\ recorded = IF t = NoText THEN {} ELSE LinesOf(t)
  BY DEF WatchInit, Init
<1>3. \A d \in Docs : text[d] # NoText => LinesOf(text[d]) \subseteq recorded
  BY <1>2 DEF SharedInit, Seeded
<1>4. TextsKnown
  BY <1>1, <1>3 DEF TextsKnown, WInv, IInv, SharedTyped, Created, Closed
<1>5. SavedKnown
  BY <1>3 DEF SavedKnown, WatchInit, Init
<1>6. RunsKnown
  BY DEF RunsKnown, WatchInit, Init, NoRun
<1>7. LoopsKnown /\ EditsSeen
  BY DEF LoopsKnown, EditsSeen, Looping, WatchInit, Boot
<1> QED BY <1>1, <1>4, <1>5, <1>6, <1>7 DEF KInv

\* A watching checkout's file is overwritten only after its lines have reached
\* the server, unless it was changed after the poll or where no poll looks.
\* What this rests on of the server's convergence is KeepsAdditions alone.
THEOREM ReportedEditsSurvive ==
    ASSUME NEW Texts, Closed(Texts), KeepsAdditions(Texts)
    PROVE  WatchSpec => ReportedEditsKept
<1>1. WatchInit => KInv(Texts)
  BY EditsStart
<1>2. KInv(Texts) /\ [WatchNext]_all => KInv(Texts)'
  BY WatchStepKeeps
<1>3. ASSUME KInv(Texts), NEW c \in Clients, EndCycle(c), NEW p \in Paths \ (touched[c] \cup unseen[c]),
             Present(c, p)
      PROVE  LinesOf(files[c][p]) \subseteq recorded
  <2>1. Looping(c) /\ p \notin Noticed(c)
    BY <1>3 DEF EndCycle, Looping, Noticed
  <2> QED BY <1>3, <2>1 DEF KInv, EditsSeen
<1>4. KInv(Texts) => [\A c \in Clients : EndCycle(c) =>
                        \A p \in Paths \ (touched[c] \cup unseen[c]) :
                           Present(c, p) => LinesOf(files[c][p]) \subseteq recorded \cup LinesOnDisk(c)']_all
  BY <1>3
<1> QED BY <1>1, <1>2, <1>4, PTL DEF WatchSpec, ReportedEditsKept
=============================================================================
