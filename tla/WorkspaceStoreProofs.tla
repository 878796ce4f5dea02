------------------------ MODULE WorkspaceStoreProofs ------------------------
(***************************************************************************)
(* Theorems about WorkspaceStore, for every set of documents, paths, texts  *)
(* and policies, and every way edits may converge: types, the history of    *)
(* paths, the event log, the bodies and their retained revisions, and that  *)
(* the store implements SharedWorkspace.                                   *)
(***************************************************************************)
EXTENDS WorkspaceStore, Counting

-----------------------------------------------------------------------------
(* What appending revisions does to reading them back.                     *)

\* Revisions numbered past c do not change what was newest at c.
LEMMA NewestUnmoved ==
    ASSUME NEW R, NEW N, NEW c \in Nat,
           \A r \in N : r.seq \in Nat /\ c < r.seq
    PROVE  Newest(R \cup N, c) = Newest(R, c)
  BY DEF Newest

\* The revisions of documents N has none of.
Untouched(revs, N) == {r \in revs : \A n \in N : n.doc # r.doc}

\* Revisions past k, no two of one document, supersede those up to k.
LEMMA NewestExtended ==
    ASSUME NEW R, NEW N, NEW k \in Nat, NEW c \in Nat, k <= c,
           \A r \in R : r.seq \in Nat /\ r.seq <= k,
           \A r \in N : r.seq \in Nat /\ k < r.seq /\ r.seq <= c,
           \A r, s \in N : r.doc = s.doc => r = s
    PROVE  Newest(R \cup N, c) = N \cup Untouched(Newest(R, k), N)
<1>1. ASSUME NEW r \in N PROVE r \in Newest(R \cup N, c)
  BY <1>1 DEF Newest
<1>2. ASSUME NEW r \in R, r \notin N
      PROVE  r \in Newest(R \cup N, c) <=> r \in Newest(R, k) /\ \A n \in N : n.doc # r.doc
  <2>1. ASSUME NEW n \in N, n.doc = r.doc PROVE r \notin Newest(R \cup N, c)
    <3>1. n.seq <= c /\ r.seq < n.seq
      BY <2>1, <1>2
    <3> QED BY <3>1, <2>1, <1>2 DEF Newest
  <2>2. ASSUME \A n \in N : n.doc # r.doc
        PROVE  r \in Newest(R \cup N, c) <=> r \in Newest(R, k)
    <3>1. \A s \in R : s.seq <= c /\ s.seq <= k
      OBVIOUS
    <3> QED BY <3>1, <2>2, <1>2 DEF Newest
  <2> QED BY <2>1, <2>2
<1>3. Newest(R \cup N, c) \subseteq R \cup N /\ Newest(R, k) \subseteq R
  BY DEF Newest
<1> QED BY <1>1, <1>2, <1>3 DEF Untouched

-----------------------------------------------------------------------------
(* Type correctness.                                                       *)

\* Compaction drops revisions and rewrites their texts, never their numbers.
LEMMA CompactShaped ==
    ASSUME NEW revs, NEW policy, \A r \in revs : BodyRevShaped(r)
    PROVE  \A r \in Compact(revs, policy) :
             BodyRevShaped(r) /\ \E s \in revs : s.seq = r.seq /\ s.doc = r.doc
<1>1. ASSUME NEW s, BodyRevShaped(s)
      PROVE  LET r == AsCheckpoint(s)
             IN  BodyRevShaped(r) /\ r.seq = s.seq /\ r.doc = s.doc
  BY <1>1 DEF AsCheckpoint, BodyRevShaped
<1>2. CASE Cardinality(revs) <= policy.revisions
  BY <1>2 DEF Compact
<1>3. CASE ~(Cardinality(revs) <= policy.revisions)
  <2>1. \A r \in Compact(revs, policy) : \E s \in revs : r = AsCheckpoint(s)
    BY <1>3 DEF Compact
  <2> QED BY <2>1, <1>1
<1> QED BY <1>2, <1>3

\* Appending a revision of d's leaves every other document's history alone.
LEMMA AppendShaped ==
    ASSUME TypeOK, NEW r, BodyRevShaped(r), NEW p, AppendBody(r, p)
    PROVE  \A x \in bodyRevs' :
             /\ BodyRevShaped(x)
             /\ \E s \in bodyRevs \cup {r} : s.seq = x.seq /\ s.doc = x.doc
<1>1. \A x \in DocRevs(r.doc) \cup {r} : BodyRevShaped(x)
  BY DEF TypeOK, DocRevs
<1>2. \A x \in Appended(r, p) :
         BodyRevShaped(x) /\ \E s \in DocRevs(r.doc) \cup {r} : s.seq = x.seq /\ s.doc = x.doc
  BY <1>1, CompactShaped DEF Appended
<1>3. bodyRevs' = (bodyRevs \ DocRevs(r.doc)) \cup Appended(r, p)
  BY DEF AppendBody
<1>4. DocRevs(r.doc) \subseteq bodyRevs
  BY DEF DocRevs
<1> QED BY <1>2, <1>3, <1>4 DEF TypeOK

LEMMA CheckpointShaped ==
    ASSUME NEW s \in Nat, NEW d \in Docs, NEW text
    PROVE  BodyRevShaped(CheckpointRev(s, d, text)) /\ CheckpointRev(s, d, text).doc = d
                                                  /\ CheckpointRev(s, d, text).seq = s
  BY DEF BodyRevShaped, CheckpointRev

\* The view remembered at the end of an operation is well-formed.
LEMMA RememberShaped ==
    ASSUME TypeOK, Remember, cursor' \in Nat, path' \in [Docs -> Paths \cup {NoPath}],
           live' \subseteq Known', DOMAIN bodies' = Docs
    PROVE  \A v \in past' : ViewShaped(v)
<1>1. LivePaths' \subseteq Docs \X Paths
  BY DEF LivePaths, Known
<1> QED BY <1>1 DEF TypeOK, Remember, ViewShaped

\* A rewind's changes are numbered within (cursor, cursor'].
LEMMA ChangeSeqRange ==
    ASSUME cursor \in Nat, NEW c
    PROVE  /\ Changed(c) \subseteq Docs /\ IsFiniteSet(Changed(c))
           /\ Cardinality(Changed(c)) \in Nat
           /\ \A d \in Changed(c) :
                /\ ChangeSeq(d, c) \in Nat
                /\ cursor < ChangeSeq(d, c)
                /\ ChangeSeq(d, c) <= cursor + Cardinality(Changed(c))
           /\ \A d, e \in Changed(c) : d < e => ChangeSeq(d, c) < ChangeSeq(e, c)
<1>1. Changed(c) \subseteq Docs /\ IsFiniteSet(Changed(c)) /\ Changed(c) \subseteq Nat
  BY FS_Subset, PlacesAssumption DEF Changed
<1> DEFINE UpTo(d) == {e \in Changed(c) : e <= d}
<1>2. \A d \in Nat : /\ IsFiniteSet(UpTo(d)) /\ Cardinality(UpTo(d)) \in Nat
                     /\ Cardinality(UpTo(d)) <= Cardinality(Changed(c))
  BY <1>1, FS_Subset, FS_CardinalityType
<1>3. \A d \in Changed(c) : Cardinality(UpTo(d)) # 0
  <2> TAKE d \in Changed(c)
  <2>1. d \in UpTo(d)
    BY <1>1
  <2> QED BY <2>1, <1>1, <1>2, FS_EmptySet
<1>4. \A d, e \in Changed(c) : d < e => Cardinality(UpTo(d)) < Cardinality(UpTo(e))
  <2> SUFFICES ASSUME NEW d \in Changed(c), NEW e \in Changed(c), d < e
               PROVE  Cardinality(UpTo(d)) < Cardinality(UpTo(e))
    OBVIOUS
  <2>1. UpTo(d) \in SUBSET UpTo(e) /\ e \in UpTo(e) /\ e \notin UpTo(d)
    BY <1>1
  <2>2. UpTo(d) # UpTo(e)
    BY <2>1
  <2> HIDE DEF UpTo
  <2> QED BY <1>1, <1>2, <2>1, <2>2, FS_Subset
<1>5. Cardinality(Changed(c)) \in Nat
  BY <1>1, FS_CardinalityType
<1>6. \A d \in Changed(c) : ChangeSeq(d, c) = cursor + Cardinality(UpTo(d))
  BY DEF ChangeSeq
<1> HIDE DEF UpTo
<1> QED BY <1>1, <1>2, <1>3, <1>4, <1>5, <1>6

\* Appending an event or a path revision keeps the rows well-formed.
LEMMA RowsShaped ==
    ASSUME TypeOK, NEW d \in Docs
    PROVE  /\ \A kind \in Kinds : AppendEvent(d, kind) =>
                cursor' = cursor + 1 /\ cursor' \in Nat /\ \A e \in events' : e \in Event
           /\ \A p \in Paths, isLive \in BOOLEAN : AppendPath(d, p, isLive) =>
                \A r \in pathRevs' : r \in PathRev
           /\ cursor + 1 \in Nat
  BY DEF TypeOK, AppendEvent, AppendPath, Event, PathRev

LEMMA InitTyped == Init => TypeOK
<1> SUFFICES ASSUME Init PROVE TypeOK
  OBVIOUS
<1>1. \A v \in past : ViewShaped(v)
  BY DEF Init, ViewShaped
<1> QED BY <1>1, PlacesAssumption DEF Init, TypeOK, Known

LEMMA CreateTyped ==
    ASSUME TypeOK, NEW d \in Docs, NEW p \in Paths, NEW t, CreateDocument(d, p, t)
    PROVE  TypeOK'
<1>1. /\ path' \in [Docs -> Paths \cup {NoPath}] /\ live' \subseteq Known'
      /\ DOMAIN bodies' = Docs /\ DOMAIN canonical' = Docs
  BY PlacesAssumption DEF TypeOK, CreateDocument, WriteBody, Known
<1>2. cursor' \in Nat /\ cursor + 1 \in Nat /\ (\A e \in events' : e \in Event)
      /\ (\A r \in pathRevs' : r \in PathRev)
  BY RowsShaped DEF CreateDocument, Kinds
<1>3. \A r \in bodyRevs' : BodyRevShaped(r)
  BY <1>2, AppendShaped, CheckpointShaped DEF CreateDocument
<1>4. \A v \in past' : ViewShaped(v)
  BY <1>1, <1>2, RememberShaped DEF CreateDocument
<1> QED BY <1>1, <1>2, <1>3, <1>4 DEF TypeOK, CreateDocument

LEMMA UpdateTyped ==
    ASSUME TypeOK, NEW d \in Docs, NEW a, NEW b, NEW t, UpdateDocument(d, a, b, t)
    PROVE  TypeOK'
<1>1. /\ path' \in [Docs -> Paths \cup {NoPath}] /\ live' \subseteq Known'
      /\ DOMAIN bodies' = Docs /\ DOMAIN canonical' = Docs /\ blurred' \subseteq Docs
  BY DEF TypeOK, UpdateDocument, WriteBody, Known
<1>2. cursor' \in Nat /\ cursor + 1 \in Nat /\ (\A e \in events' : e \in Event)
  BY RowsShaped DEF UpdateDocument, Kinds
<1>3. \A r \in bodyRevs' : BodyRevShaped(r)
  <2>1. BodyRevShaped(MergeRev(cursor + 1, d, a, b, t))
    BY <1>2 DEF MergeRev, BodyRevShaped
  <2> QED BY <1>2, <2>1, AppendShaped, CheckpointShaped DEF UpdateDocument
<1>4. \A v \in past' : ViewShaped(v)
  BY <1>1, <1>2, RememberShaped DEF UpdateDocument
<1> QED BY <1>1, <1>2, <1>3, <1>4 DEF TypeOK, UpdateDocument

LEMMA DeleteTyped ==
    ASSUME TypeOK, NEW d \in Docs, DeleteDocument(d)
    PROVE  TypeOK'
<1>1. /\ path' \in [Docs -> Paths \cup {NoPath}] /\ live' \subseteq Known'
      /\ DOMAIN bodies' = Docs /\ path[d] \in Paths
  BY DEF TypeOK, DeleteDocument, Known
<1>2. cursor' \in Nat /\ (\A e \in events' : e \in Event) /\ (\A r \in pathRevs' : r \in PathRev)
  BY <1>1, RowsShaped DEF DeleteDocument, Kinds
<1>3. \A v \in past' : ViewShaped(v)
  BY <1>1, <1>2, RememberShaped DEF DeleteDocument
<1> QED BY <1>1, <1>2, <1>3 DEF TypeOK, DeleteDocument, Known

LEMMA MoveTyped ==
    ASSUME TypeOK, NEW d \in Docs, NEW p \in Paths, MoveDocument(d, p)
    PROVE  TypeOK'
<1>1. path' \in [Docs -> Paths \cup {NoPath}] /\ live' \subseteq Known'
  BY PlacesAssumption DEF TypeOK, MoveDocument, Known
<1>2. cursor' \in Nat /\ (\A e \in events' : e \in Event) /\ (\A r \in pathRevs' : r \in PathRev)
  BY RowsShaped DEF MoveDocument, Kinds
<1>3. \A v \in past' : ViewShaped(v)
  BY <1>1, <1>2, RememberShaped DEF TypeOK, MoveDocument
<1> QED BY <1>1, <1>2, <1>3 DEF TypeOK, MoveDocument

LEMMA RestoreTyped ==
    ASSUME TypeOK, NEW d \in Docs, NEW r \in DocRevs(d), NEW p \in Paths, RestoreDocument(d, r, p)
    PROVE  TypeOK'
<1>1. /\ path' \in [Docs -> Paths \cup {NoPath}] /\ live' \subseteq Known'
      /\ DOMAIN bodies' = Docs /\ DOMAIN canonical' = Docs
  BY PlacesAssumption DEF TypeOK, RestoreDocument, WriteBody, Known
<1>2. cursor' \in Nat /\ cursor + 1 \in Nat /\ (\A e \in events' : e \in Event)
      /\ (\A x \in pathRevs' : x \in PathRev)
  BY RowsShaped DEF RestoreDocument, Kinds, TypeOK
<1>3. \A x \in bodyRevs' : BodyRevShaped(x)
  BY <1>2, AppendShaped, CheckpointShaped DEF RestoreDocument
<1>4. \A v \in past' : ViewShaped(v)
  BY <1>1, <1>2, RememberShaped DEF RestoreDocument
<1> QED BY <1>1, <1>2, <1>3, <1>4 DEF TypeOK, RestoreDocument

\* A document the history shows live is put where the history shows it.
LEMMA RewoundPlace ==
    ASSUME NEW c, NEW d \in Docs
    PROVE  /\ d \in HistoryLive(c) => RewoundPath(d, c) \in Paths /\ <<d, RewoundPath(d, c)>> \in HistoryPaths(c)
           /\ d \notin HistoryLive(c) => RewoundPath(d, c) = path[d]
<1>1. CASE d \in HistoryLive(c)
  <2>1. \E p \in Paths : <<d, p>> \in HistoryPaths(c)
    BY <1>1 DEF HistoryLive
  <2> QED BY <1>1, <2>1 DEF RewoundPath
<1>2. CASE d \notin HistoryLive(c)
  BY <1>2 DEF RewoundPath
<1> QED BY <1>1, <1>2

\* Which documents a rewind changes: those that appear, disappear or move, and
\* perhaps others; each has one kind of event.
LEMMA ChangedPlaces ==
    ASSUME NEW c, NEW d \in Docs
    PROVE  /\ ChangeKind(d, c) \subseteq Kinds
           /\ d \notin live /\ d \notin HistoryLive(c) => d \notin Changed(c)
           /\ d \notin Changed(c) =>
                /\ d \in live <=> d \in HistoryLive(c)
                /\ RewoundPath(d, c) = path[d] \/ d \notin live
           /\ d \in Changed(c) => \E k \in Kinds : ChangeKind(d, c) = {k}
<1>1. CASE d \in live /\ d \notin HistoryLive(c)
  BY <1>1 DEF ChangeKind, Changed, Kinds
<1>2. CASE d \notin live /\ d \in HistoryLive(c)
  BY <1>2 DEF ChangeKind, Changed, Kinds
<1>3. CASE d \in live /\ d \in HistoryLive(c) /\ RewoundPath(d, c) # path[d]
  BY <1>3 DEF ChangeKind, Changed, Kinds
<1>4. CASE d \in live /\ d \in HistoryLive(c) /\ RewoundPath(d, c) = path[d]
  BY <1>4 DEF ChangeKind, Changed, Kinds
<1>5. CASE d \notin live /\ d \notin HistoryLive(c)
  BY <1>5 DEF ChangeKind, Changed, Kinds
<1> QED BY <1>1, <1>2, <1>3, <1>4, <1>5

LEMMA RewoundRevsShaped ==
    ASSUME TypeOK, NEW c, NEW d \in Docs
    PROVE  \A x \in RewoundRevs(d, c) :
             /\ BodyRevShaped(x)
             /\ \/ \E s \in bodyRevs : s.seq = x.seq /\ s.doc = x.doc
                \/ d \in Changed(c) /\ x.seq = ChangeSeq(d, c) /\ x.doc = d
<1> DEFINE rev == CheckpointRev(ChangeSeq(d, c), d, Comparable(HistoryBody(d, c)))
<1>1. \A x \in DocRevs(d) : x \in bodyRevs /\ BodyRevShaped(x)
  BY DEF TypeOK, DocRevs
<1>2. CASE d \notin Rewritten(c)
  BY <1>1, <1>2 DEF RewoundRevs
<1>3. CASE d \in Rewritten(c)
  <2>1. d \in Changed(c) /\ ChangeSeq(d, c) \in Nat
    BY <1>3, ChangeSeqRange DEF Rewritten, TypeOK
  <2>2. BodyRevShaped(rev) /\ rev.seq = ChangeSeq(d, c) /\ rev.doc = d
    BY <2>1, CheckpointShaped
  <2> HIDE DEF rev
  <2>3. \A x \in DocRevs(d) \cup {rev} : BodyRevShaped(x)
    BY <1>1, <2>2
  <2>4. \A x \in Appended(rev, path[d]) :
           BodyRevShaped(x) /\ \E s \in DocRevs(d) \cup {rev} : s.seq = x.seq /\ s.doc = x.doc
    BY <2>2, <2>3, CompactShaped DEF Appended
  <2>5. RewoundRevs(d, c) = IF d \in live THEN Appended(rev, path[d]) ELSE DocRevs(d) \cup {rev}
    BY <1>3 DEF RewoundRevs, rev
  <2>6. \A s \in DocRevs(d) \cup {rev} : BodyRevShaped(s) /\
           \/ s \in bodyRevs
           \/ s.seq = ChangeSeq(d, c) /\ s.doc = d
    BY <1>1, <2>2
  <2> QED BY <2>1, <2>4, <2>5, <2>6
<1> QED BY <1>2, <1>3

LEMMA RewindTyped ==
    ASSUME TypeOK, NEW c, RestoreWorkspace(c)
    PROVE  TypeOK'
<1>1. \A d \in Docs : RewoundPath(d, c) \in Paths \cup {NoPath}
  BY RewoundPlace DEF TypeOK
<1>2. /\ path' \in [Docs -> Paths \cup {NoPath}] /\ live' \subseteq Known'
      /\ DOMAIN bodies' = Docs /\ DOMAIN canonical' = Docs
  BY <1>1, RewoundPlace, PlacesAssumption DEF RestoreWorkspace, Known, HistoryLive
<1>3. cursor' \in Nat
  BY ChangeSeqRange DEF TypeOK, RestoreWorkspace
<1>4. \A e \in events' : e \in Event
  <2>1. ASSUME NEW d \in Docs, NEW k \in ChangeKind(d, c)
        PROVE  [seq |-> ChangeSeq(d, c), doc |-> d, kind |-> k] \in Event
    <3>1. d \in Changed(c) /\ k \in Kinds
      BY <2>1, ChangedPlaces DEF Changed
    <3>2. ChangeSeq(d, c) \in Nat
      BY <3>1, ChangeSeqRange DEF TypeOK
    <3> QED BY <3>1, <3>2 DEF Event
  <2> QED BY <2>1 DEF TypeOK, RestoreWorkspace
<1>5. \A r \in pathRevs' : r \in PathRev
  <2>1. ASSUME NEW d \in Changed(c)
        PROVE  [seq |-> ChangeSeq(d, c), doc |-> d, path |-> RewoundPath(d, c),
                live |-> d \in HistoryLive(c)] \in PathRev
    <3>1. d \in Docs /\ ChangeSeq(d, c) \in Nat
      BY <2>1, ChangeSeqRange DEF TypeOK
    <3>2. RewoundPath(d, c) \in Paths
      BY <2>1, <3>1, ChangedPlaces, RewoundPlace DEF TypeOK, Known
    <3>3. (d \in HistoryLive(c)) \in BOOLEAN
      OBVIOUS
    <3> QED BY <3>1, <3>2, <3>3 DEF PathRev
  <2> QED BY <2>1 DEF TypeOK, RestoreWorkspace
<1>6. \A r \in bodyRevs' : BodyRevShaped(r)
  BY RewoundRevsShaped DEF RestoreWorkspace
<1>7. \A v \in past' : ViewShaped(v)
  BY <1>2, <1>3, RememberShaped DEF RestoreWorkspace
<1> QED BY <1>2, <1>3, <1>4, <1>5, <1>6, <1>7 DEF TypeOK, RestoreWorkspace

LEMMA PolicyTyped ==
    ASSUME TypeOK,
           \/ \E k \in Keys, policy \in Policies : SetPolicy(k, policy)
           \/ \E k \in Keys : ClearPolicy(k)
    PROVE  TypeOK'
  BY DEF TypeOK, SetPolicy, ClearPolicy, Known

LEMMA StepTyped == TypeOK /\ [Next]_vars => TypeOK'
<1> SUFFICES ASSUME TypeOK, [Next]_vars PROVE TypeOK'
  OBVIOUS
<1>1. ASSUME NEW ms \in SUBSET Mounts, Bootstrap(ms) PROVE TypeOK'
  BY <1>1 DEF TypeOK, Bootstrap, Known
<1>2. CASE UNCHANGED vars
  BY <1>2 DEF TypeOK, vars, Known
<1> QED BY <1>1, <1>2, CreateTyped, UpdateTyped, DeleteTyped, MoveTyped, RestoreTyped,
           RewindTyped, PolicyTyped DEF Next

\* Every row of the store keeps the shape its table gives it.
THEOREM TypeCorrect == Spec => []TypeOK
<1> QED BY InitTyped, StepTyped, PTL DEF Spec

-----------------------------------------------------------------------------
(* The path history.  PathsRemembered alone is not inductive: a new path    *)
(* revision must come after every remembered cursor, and what the history   *)
(* shows now must be the live manifest.  LivePathsUnique is not either: a   *)
(* rewind places documents where a remembered view had them, so no         *)
(* remembered view may hold a path or a document twice.                    *)

HistoryIsCurrent == HistoryPaths(cursor) = LivePaths

OneToOne(view) == \A a, b \in view : a[1] = b[1] \/ a[2] = b[2] => a = b

PathHistoryInv ==
    /\ TypeOK
    /\ LivePathsUnique
    /\ PathsRemembered
    /\ HistoryIsCurrent
    /\ \A r \in pathRevs : r.seq <= cursor
    /\ \A v \in past : v.cursor <= cursor /\ OneToOne(v.paths)

\* The pairs a set of newest revisions shows.
Shown(revs) == {<<r.doc, r.path>> : r \in {s \in revs : s.live}}

LEMMA HistoryShown == \A c : HistoryPaths(c) = Shown(Newest(pathRevs, c))
  BY DEF HistoryPaths, LatestPaths, Shown

\* Revisions N are appended, at most one per document, and the live manifest
\* moves for their documents to what they say and for no other document.
HistoryGrows(N) ==
    /\ cursor <= cursor' /\ pathRevs' = pathRevs \cup N
    /\ \A r \in N : /\ r.seq \in Nat /\ cursor < r.seq /\ r.seq <= cursor'
                    /\ r.live \in BOOLEAN /\ r.doc \in Docs
                    /\ r.doc \in live' <=> r.live
                    /\ r.live => path'[r.doc] = r.path
    /\ \A r, s \in N : r.doc = s.doc => r = s
    /\ \A d \in Docs : (\A r \in N : r.doc # d) =>
         /\ d \in live' <=> d \in live
         /\ d \in live => path'[d] = path[d]

LEMMA HistoryStep ==
    ASSUME PathHistoryInv, TypeOK', Remember, LivePathsUnique', NEW N, HistoryGrows(N)
    PROVE  PathHistoryInv'
<1> DEFINE Kept == Untouched(Newest(pathRevs, cursor), N)
<1>0. /\ cursor <= cursor' /\ pathRevs' = pathRevs \cup N
      /\ \A r \in N : /\ r.seq \in Nat /\ cursor < r.seq /\ r.seq <= cursor'
                      /\ r.live \in BOOLEAN /\ r.doc \in Docs
                      /\ r.doc \in live' <=> r.live
                      /\ r.live => path'[r.doc] = r.path
      /\ \A r, s \in N : r.doc = s.doc => r = s
      /\ \A d \in Docs : (\A r \in N : r.doc # d) =>
           /\ d \in live' <=> d \in live
           /\ d \in live => path'[d] = path[d]
  BY DEF HistoryGrows
<1>1. cursor \in Nat /\ cursor' \in Nat /\ \A r \in pathRevs : r.seq \in Nat /\ r.seq <= cursor
  BY DEF PathHistoryInv, TypeOK, PathRev
<1>2. Newest(pathRevs', cursor') = N \cup Kept
  <2>1. \A r \in N : r.seq \in Nat /\ cursor < r.seq /\ r.seq <= cursor'
    BY <1>0
  <2>2. \A k, c \in Nat :
           /\ k <= c
           /\ \A r \in pathRevs : r.seq \in Nat /\ r.seq <= k
           /\ \A r \in N : r.seq \in Nat /\ k < r.seq /\ r.seq <= c
           /\ \A r, s \in N : r.doc = s.doc => r = s
           => Newest(pathRevs \cup N, c) = N \cup Untouched(Newest(pathRevs, k), N)
    BY ONLY NewestExtended, Zenon
  <2> QED BY <1>0, <1>1, <2>1, <2>2
<1>3. Shown(Newest(pathRevs, cursor)) = LivePaths
  BY HistoryShown DEF PathHistoryInv, HistoryIsCurrent
<1>4. HistoryIsCurrent'
  <2>1. ASSUME NEW d \in live' PROVE <<d, path'[d]>> \in Shown(N \cup Kept)
    <3>1. d \in Docs
      BY <2>1 DEF TypeOK, Known
    <3>2. CASE \E r \in N : r.doc = d
      BY <1>0, <2>1, <3>2 DEF Shown
    <3>3. CASE \A r \in N : r.doc # d
      <4>1. <<d, path'[d]>> \in Shown(Newest(pathRevs, cursor))
        BY <1>0, <1>3, <2>1, <3>1, <3>3 DEF LivePaths
      <4>2. PICK r \in Newest(pathRevs, cursor) : r.live /\ r.doc = d /\ r.path = path'[d]
        BY <4>1 DEF Shown
      <4> QED BY <3>3, <4>2 DEF Shown, Untouched
    <3> QED BY <3>2, <3>3
  <2>2. ASSUME NEW r \in N \cup Kept, r.live PROVE r.doc \in live' /\ r.path = path'[r.doc]
    <3>1. CASE r \in N
      BY <1>0, <2>2, <3>1
    <3>2. CASE r \in Kept
      <4>1. <<r.doc, r.path>> \in LivePaths
        BY <1>3, <2>2, <3>2 DEF Shown, Untouched
      <4>2. r.doc \in live /\ r.path = path[r.doc] /\ r.doc \in Docs
        BY <4>1 DEF LivePaths, PathHistoryInv, TypeOK, Known
      <4> QED BY <1>0, <3>2, <4>2 DEF Untouched
    <3> QED BY <2>2, <3>1, <3>2
  <2>3. LivePaths' = Shown(N \cup Kept)
    <3> HIDE DEF Kept
    <3> QED BY <2>1, <2>2 DEF LivePaths, Shown
  <2>4. HistoryPaths(cursor)' = Shown(Newest(pathRevs', cursor'))
    BY DEF HistoryPaths, LatestPaths, Shown
  <2> QED BY <1>2, <2>3, <2>4 DEF HistoryIsCurrent
<1>5. \A v \in past' : \/ v \in past
                       \/ v.cursor = cursor' /\ v.paths = LivePaths'
  BY DEF Remember
<1>6. \A v \in past : v.cursor \in Nat /\ v.cursor <= cursor
  BY DEF PathHistoryInv, TypeOK, ViewShaped
<1>7. PathsRemembered'
  <2>1. ASSUME NEW v \in past' PROVE HistoryPaths(v.cursor)' = v.paths
    <3>1. CASE v \in past
      <4>1. Newest(pathRevs \cup N, v.cursor) = Newest(pathRevs, v.cursor)
        <5>1. v.cursor \in Nat /\ \A r \in N : r.seq \in Nat /\ v.cursor < r.seq
          BY <1>0, <1>1, <1>6, <3>1
        <5>2. \A c \in Nat : (\A r \in N : r.seq \in Nat /\ c < r.seq)
                 => Newest(pathRevs \cup N, c) = Newest(pathRevs, c)
          BY ONLY NewestUnmoved, Zenon
        <5> QED BY <5>1, <5>2
      <4>2. HistoryPaths(v.cursor)' = HistoryPaths(v.cursor)
        BY <1>0, <4>1 DEF HistoryPaths, LatestPaths
      <4> QED BY <3>1, <4>2 DEF PathHistoryInv, PathsRemembered
    <3>2. CASE v.cursor = cursor' /\ v.paths = LivePaths'
      BY <1>4, <3>2 DEF HistoryIsCurrent
    <3> QED BY <1>5, <3>1, <3>2
  <2> QED BY <2>1 DEF PathsRemembered
<1>8. OneToOne(LivePaths')
  BY DEF OneToOne, LivePaths, LivePathsUnique
<1>9. \A v \in past' : v.cursor <= cursor' /\ OneToOne(v.paths)
  BY <1>0, <1>1, <1>5, <1>6, <1>8 DEF PathHistoryInv
<1> QED BY <1>0, <1>1, <1>4, <1>7, <1>9 DEF PathHistoryInv

\* A document placed where no other live one is leaves live paths unique.
LEMMA PlacedAlone ==
    ASSUME PathHistoryInv, NEW d \in Docs, NEW p \in Paths, ~PathTaken(p, d),
           path' = [path EXCEPT ![d] = p], live' = live \cup {d}
    PROVE  LivePathsUnique'
<1>1. live \subseteq Docs /\ path \in [Docs -> Paths \cup {NoPath}]
  BY DEF PathHistoryInv, TypeOK, Known
<1>2. \A e \in live' : e # d => e \in live /\ path'[e] = path[e] /\ path[e] # p
  BY <1>1 DEF PathTaken
<1>3. path'[d] = p
  BY <1>1
<1> QED BY <1>2, <1>3 DEF LivePathsUnique, PathHistoryInv

LEMMA InitHistory == Init => PathHistoryInv
<1> SUFFICES ASSUME Init PROVE PathHistoryInv
  OBVIOUS
<1>1. HistoryPaths(0) = {} /\ LivePaths = {}
  BY DEF Init, HistoryPaths, LatestPaths, Newest, LivePaths
<1>2. past = {[cursor |-> 0, paths |-> {}, bodies |-> [d \in Docs |-> NoBody], blurred |-> {}]}
  BY DEF Init
<1>3. \A v \in past : v.cursor = 0 /\ v.paths = {}
  BY <1>2
<1> QED BY <1>1, <1>3, InitTyped
           DEF Init, PathHistoryInv, LivePathsUnique, PathsRemembered, HistoryIsCurrent, OneToOne

LEMMA CreateHistory ==
    ASSUME PathHistoryInv, NEW d \in Docs, NEW p \in Paths, NEW t, CreateDocument(d, p, t)
    PROVE  PathHistoryInv'
<1> DEFINE r == [seq |-> cursor + 1, doc |-> d, path |-> p, live |-> TRUE]
<1>1. TypeOK' /\ cursor \in Nat /\ path \in [Docs -> Paths \cup {NoPath}]
  BY CreateTyped DEF PathHistoryInv, TypeOK
<1>2. LivePathsUnique'
  BY PlacedAlone DEF CreateDocument
<1>3. HistoryGrows({r})
  BY <1>1 DEF CreateDocument, AppendPath, AppendEvent, HistoryGrows
<1> QED BY <1>1, <1>2, <1>3, HistoryStep DEF CreateDocument

LEMMA UpdateHistory ==
    ASSUME PathHistoryInv, NEW d \in Docs, NEW a, NEW b, NEW t, UpdateDocument(d, a, b, t)
    PROVE  PathHistoryInv'
<1>1. TypeOK' /\ cursor \in Nat
  BY UpdateTyped DEF PathHistoryInv, TypeOK
<1>2. LivePathsUnique'
  BY DEF UpdateDocument, PathHistoryInv, LivePathsUnique
<1>3. HistoryGrows({})
  BY <1>1 DEF UpdateDocument, AppendEvent, HistoryGrows
<1> QED BY <1>1, <1>2, <1>3, HistoryStep DEF UpdateDocument

LEMMA DeleteHistory ==
    ASSUME PathHistoryInv, NEW d \in Docs, DeleteDocument(d)
    PROVE  PathHistoryInv'
<1> DEFINE r == [seq |-> cursor + 1, doc |-> d, path |-> path[d], live |-> FALSE]
<1>1. TypeOK' /\ cursor \in Nat
  BY DeleteTyped DEF PathHistoryInv, TypeOK
<1>2. LivePathsUnique'
  BY DEF DeleteDocument, PathHistoryInv, LivePathsUnique
<1>3. HistoryGrows({r})
  BY <1>1 DEF DeleteDocument, AppendPath, AppendEvent, HistoryGrows
<1> QED BY <1>1, <1>2, <1>3, HistoryStep DEF DeleteDocument

LEMMA MoveHistory ==
    ASSUME PathHistoryInv, NEW d \in Docs, NEW p \in Paths, MoveDocument(d, p)
    PROVE  PathHistoryInv'
<1> DEFINE r == [seq |-> cursor + 1, doc |-> d, path |-> p, live |-> TRUE]
<1>1. TypeOK' /\ cursor \in Nat /\ path \in [Docs -> Paths \cup {NoPath}]
  BY MoveTyped DEF PathHistoryInv, TypeOK
<1>2. LivePathsUnique'
  <2>1. live' = live \cup {d}
    BY DEF MoveDocument
  <2> QED BY <2>1, PlacedAlone DEF MoveDocument
<1>3. HistoryGrows({r})
  BY <1>1 DEF MoveDocument, AppendPath, AppendEvent, HistoryGrows
<1> QED BY <1>1, <1>2, <1>3, HistoryStep DEF MoveDocument

LEMMA RestoreHistory ==
    ASSUME PathHistoryInv, NEW d \in Docs, NEW r \in DocRevs(d), NEW p \in Paths,
           RestoreDocument(d, r, p)
    PROVE  PathHistoryInv'
<1>1. TypeOK' /\ cursor \in Nat /\ path \in [Docs -> Paths \cup {NoPath}]
  BY RestoreTyped DEF PathHistoryInv, TypeOK
<1>2. CASE d \notin live \/ p # path[d]
  <2> DEFINE n == [seq |-> cursor + 1, doc |-> d, path |-> p, live |-> TRUE]
  <2>1. LivePathsUnique'
    BY <1>2, PlacedAlone DEF RestoreDocument
  <2>2. HistoryGrows({n})
    BY <1>1, <1>2 DEF RestoreDocument, AppendPath, AppendEvent, HistoryGrows
  <2> QED BY <1>1, <2>1, <2>2, HistoryStep DEF RestoreDocument
<1>3. CASE d \in live /\ p = path[d]
  <2>1. path' = path /\ live' = live
    BY <1>1, <1>3 DEF RestoreDocument
  <2>2. LivePathsUnique'
    BY <2>1 DEF PathHistoryInv, LivePathsUnique
  <2>3. HistoryGrows({})
    BY <1>1, <1>3, <2>1 DEF RestoreDocument, AppendEvent, HistoryGrows
  <2> QED BY <1>1, <2>2, <2>3, HistoryStep DEF RestoreDocument
<1> QED BY <1>2, <1>3

\* Rewinding to the end of a finished operation puts documents where that
\* operation left them, no two at one path.
LEMMA RewindHistory ==
    ASSUME PathHistoryInv, ~AnyCursor, NEW c \in Nat, RestoreWorkspace(c)
    PROVE  PathHistoryInv'
<1> DEFINE n(d) == [seq |-> ChangeSeq(d, c), doc |-> d, path |-> RewoundPath(d, c),
                    live |-> d \in HistoryLive(c)]
           N == {n(d) : d \in Changed(c)}
<1>1. TypeOK' /\ cursor \in Nat /\ path' = [d \in Docs |-> RewoundPath(d, c)]
      /\ live' = HistoryLive(c) /\ HistoryLive(c) \subseteq Docs /\ live \subseteq Docs
  BY RewindTyped DEF PathHistoryInv, TypeOK, RestoreWorkspace, HistoryLive, Known
<1>2. LivePathsUnique'
  <2>1. PICK v \in past : v.cursor = c
    BY DEF RestoreWorkspace
  <2>2. OneToOne(HistoryPaths(c))
    BY <2>1 DEF PathHistoryInv, PathsRemembered
  <2>3. \A d, e \in HistoryLive(c) : RewoundPath(d, c) = RewoundPath(e, c) => d = e
    BY <1>1, <2>2, RewoundPlace DEF OneToOne
  <2> QED BY <1>1, <2>3 DEF LivePathsUnique
<1>3. HistoryGrows(N)
  <2>1. cursor' = cursor + Cardinality(Changed(c)) /\ Cardinality(Changed(c)) \in Nat
    BY <1>1, ChangeSeqRange DEF RestoreWorkspace
  <2>2. pathRevs' = pathRevs \cup N
    BY DEF RestoreWorkspace
  <2>3. ASSUME NEW d \in Changed(c)
        PROVE  /\ d \in Docs /\ ChangeSeq(d, c) \in Nat /\ cursor < ChangeSeq(d, c)
               /\ ChangeSeq(d, c) <= cursor'
               /\ (d \in HistoryLive(c)) \in BOOLEAN
               /\ path'[d] = RewoundPath(d, c)
    BY <1>1, <2>1, ChangeSeqRange
  <2>4. ASSUME NEW d \in Docs, \A r \in N : r.doc # d
        PROVE  (d \in live' <=> d \in live) /\ (d \in live => path'[d] = path[d])
    <3>1. d \notin Changed(c)
      <4>1. d \in Changed(c) => n(d) \in N /\ n(d).doc = d
        OBVIOUS
      <4> QED BY <2>4, <4>1
    <3>2. path'[d] = RewoundPath(d, c)
      BY <1>1
    <3> HIDE DEF N
    <3> QED BY <1>1, <3>1, <3>2, ChangedPlaces
  <2>5. \A r \in N : \E d \in Changed(c) :
           /\ r = n(d) /\ r.seq = ChangeSeq(d, c) /\ r.doc = d /\ r.path = RewoundPath(d, c)
           /\ r.live \in BOOLEAN /\ (r.live <=> d \in HistoryLive(c))
    <3> TAKE r \in N
    <3>1. PICK d \in Changed(c) : r = n(d)
      OBVIOUS
    <3>2. r.seq = ChangeSeq(d, c) /\ r.doc = d /\ r.path = RewoundPath(d, c)
      BY <3>1
    <3>3. r.live \in BOOLEAN
      BY <1>1, <2>2 DEF TypeOK, PathRev
    <3>4. r.live = (d \in HistoryLive(c))
      BY <3>1
    <3>5. r.live <=> d \in HistoryLive(c)
      BY ONLY <3>3, <3>4
    <3> QED BY <3>1, <3>2, <3>3, <3>5
  <2>6. \A r, s \in N : r.doc = s.doc => r = s
    BY <2>5
  <2> HIDE DEF N, n
  <2>7. \A r \in N : /\ r.seq \in Nat /\ cursor < r.seq /\ r.seq <= cursor'
                     /\ r.live \in BOOLEAN /\ r.doc \in Docs
                     /\ r.doc \in live' <=> r.live
                     /\ r.live => path'[r.doc] = r.path
    <3> TAKE r \in N
    <3>1. PICK d \in Changed(c) : r.seq = ChangeSeq(d, c) /\ r.doc = d
                 /\ r.path = RewoundPath(d, c)
                 /\ r.live \in BOOLEAN /\ (r.live <=> d \in HistoryLive(c))
      BY <2>5
    <3>2. r.doc \in live' <=> r.live
      BY <3>1, <1>1
    <3> QED BY <3>1, <3>2, <2>3
  <2>8. cursor <= cursor'
    BY <1>1, <2>1
  <2> QED BY <2>2, <2>4, <2>6, <2>7, <2>8 DEF HistoryGrows
<1> HIDE DEF N
<1> QED BY <1>1, <1>2, <1>3, HistoryStep DEF RestoreWorkspace

LEMMA StepHistory == PathHistoryInv /\ ~AnyCursor /\ [Next]_vars => PathHistoryInv'
<1> SUFFICES ASSUME PathHistoryInv, ~AnyCursor, [Next]_vars PROVE PathHistoryInv'
  OBVIOUS
<1> USE DEF PathHistoryInv, LivePathsUnique, PathsRemembered, HistoryIsCurrent, HistoryPaths,
            LatestPaths, LivePaths
<1>1. TypeOK'
  BY StepTyped
<1>2. ASSUME NEW ms \in SUBSET Mounts, Bootstrap(ms) PROVE PathHistoryInv'
  BY <1>1, <1>2 DEF Bootstrap
<1>3. ASSUME NEW k \in Keys, \/ \E policy \in Policies : SetPolicy(k, policy)
                             \/ ClearPolicy(k)
      PROVE  PathHistoryInv'
  BY <1>1, <1>3 DEF SetPolicy, ClearPolicy
<1>4. CASE UNCHANGED vars
  BY <1>1, <1>4 DEF vars
<1>5. ASSUME NEW c \in 0..cursor, RestoreWorkspace(c) PROVE PathHistoryInv'
  <2>1. c \in Nat
    BY DEF TypeOK
  <2> QED BY <1>5, <2>1, RewindHistory
<1> HIDE DEF PathHistoryInv
<1> QED BY <1>2, <1>3, <1>4, <1>5, CreateHistory, UpdateHistory, DeleteHistory, MoveHistory,
           RestoreHistory DEF Next

\* While rewinds target only cursors at which an operation ended, two live
\* documents never share a path ...
THEOREM LivePathsStayUnique == ASSUME ~AnyCursor PROVE Spec => []LivePathsUnique
<1>1. PathHistoryInv => LivePathsUnique
  BY DEF PathHistoryInv
<1> QED BY <1>1, InitHistory, StepHistory, PTL DEF Spec

\* ... and the path history reads back every state it passed through.
THEOREM PathHistoryExact == ASSUME ~AnyCursor PROVE Spec => []PathsRemembered
<1>1. PathHistoryInv => PathsRemembered
  BY DEF PathHistoryInv
<1> QED BY <1>1, InitHistory, StepHistory, PTL DEF Spec

\* A rewind to the end of an operation puts exactly the documents that were
\* live then where they were then.
THEOREM RewindPlacesExact == ASSUME ~AnyCursor PROVE Spec => RewindPutsBack
<1>1. ASSUME PathHistoryInv, NEW v \in past, RestoreWorkspace(v.cursor)
      PROVE  LivePaths' = v.paths
  <2>1. HistoryPaths(v.cursor) = v.paths /\ OneToOne(v.paths) /\ v.paths \subseteq Docs \X Paths
    BY <1>1 DEF PathHistoryInv, PathsRemembered, TypeOK, ViewShaped
  <2>2. live' = HistoryLive(v.cursor) /\ path' = [d \in Docs |-> RewoundPath(d, v.cursor)]
    BY <1>1 DEF RestoreWorkspace
  <2>3. ASSUME NEW d \in live' PROVE <<d, path'[d]>> \in v.paths
    <3>1. d \in Docs /\ d \in HistoryLive(v.cursor)
      BY <2>2, <2>3 DEF HistoryLive
    <3> QED BY <2>1, <2>2, <3>1, RewoundPlace
  <2>4. ASSUME NEW d \in Docs, NEW p \in Paths, <<d, p>> \in v.paths
        PROVE  d \in live' /\ p = path'[d]
    <3>1. d \in live'
      BY <2>1, <2>2, <2>4 DEF HistoryLive
    <3>2. <<d, path'[d]>> \in v.paths
      BY <2>3, <3>1
    <3>3. <<d, path'[d]>> = <<d, p>>
      BY <2>1, <2>4, <3>2 DEF OneToOne
    <3> QED BY <3>1, <3>3
  <2> QED BY <2>1, <2>3, <2>4 DEF LivePaths
<1>2. PathHistoryInv /\ [Next]_vars => [\A v \in past : RestoreWorkspace(v.cursor) => LivePaths' = v.paths]_vars
  BY <1>1
<1> QED BY <1>2, InitHistory, StepHistory, PTL DEF Spec, RewindPutsBack

-----------------------------------------------------------------------------
(* The event log numbers the history.                                      *)

\* Events E carry the numbers the cursor passes, each once, and every new row
\* belongs to one of them.
EventsGrow(E) ==
    /\ events' = events \cup E
    /\ cursor' \in Nat /\ cursor <= cursor'
    /\ \A e \in E : e.seq \in Nat /\ cursor < e.seq /\ e.seq <= cursor'
    /\ \A i \in Nat : cursor < i /\ i <= cursor' => \E e \in E : e.seq = i
    /\ \A e, f \in E : e.seq = f.seq => e = f
    /\ \A r \in pathRevs' \cup bodyRevs' :
         \/ \E s \in pathRevs \cup bodyRevs : s.seq = r.seq /\ s.doc = r.doc
         \/ \E e \in E : e.seq = r.seq /\ e.doc = r.doc

LEMMA AnchorStep ==
    ASSUME TypeOK, HistoryAnchored, NEW E, EventsGrow(E)
    PROVE  HistoryAnchored'
<1>1. \A e \in events : e.seq \in Nat /\ 1 <= e.seq /\ e.seq <= cursor
  BY DEF TypeOK, HistoryAnchored
<1>2. cursor \in Nat /\ \A i \in 1..cursor : \E e \in events : e.seq = i
  BY DEF TypeOK, HistoryAnchored
<1>3. {e.seq : e \in events'} = 1..cursor'
  <2>1. ASSUME NEW i \in 1..cursor' PROVE \E e \in events' : e.seq = i
    <3>1. CASE i <= cursor
      BY <1>2, <3>1 DEF EventsGrow
    <3>2. CASE cursor < i
      BY <1>2, <3>2 DEF EventsGrow
    <3> QED BY <1>2, <3>1, <3>2 DEF EventsGrow
  <2>2. \A e \in events' : e.seq \in 1..cursor'
    BY <1>1, <1>2 DEF EventsGrow
  <2> QED BY <2>1, <2>2
<1>4. \A e, f \in events' : e.seq = f.seq => e = f
  <2>1. \A e \in events, f \in events' \ events : e.seq # f.seq
    BY <1>1, <1>2 DEF EventsGrow
  <2> QED BY <2>1 DEF HistoryAnchored, EventsGrow
<1>5. \A r \in pathRevs' \cup bodyRevs' : \E e \in events' : e.seq = r.seq /\ e.doc = r.doc
  <2> TAKE r \in pathRevs' \cup bodyRevs'
  <2>1. CASE \E s \in pathRevs \cup bodyRevs : s.seq = r.seq /\ s.doc = r.doc
    <3>1. PICK s \in pathRevs \cup bodyRevs : s.seq = r.seq /\ s.doc = r.doc
      BY <2>1
    <3>2. PICK e \in events : e.seq = s.seq /\ e.doc = s.doc
      BY DEF HistoryAnchored
    <3> QED BY <3>1, <3>2 DEF EventsGrow
  <2>2. CASE ~\E s \in pathRevs \cup bodyRevs : s.seq = r.seq /\ s.doc = r.doc
    BY <2>2 DEF EventsGrow
  <2> QED BY <2>1, <2>2
<1> QED BY <1>3, <1>4, <1>5 DEF HistoryAnchored

\* An operation on one document writes one event and rows for it only.
LEMMA SingleAnchored ==
    ASSUME TypeOK, HistoryAnchored, NEW d \in Docs, NEW kind, AppendEvent(d, kind),
           \/ pathRevs' = pathRevs
           \/ \E p, isLive : AppendPath(d, p, isLive),
           \/ bodyRevs' = bodyRevs
           \/ \E rev, p : BodyRevShaped(rev) /\ rev.seq = cursor + 1 /\ rev.doc = d /\ AppendBody(rev, p)
    PROVE  HistoryAnchored'
<1> DEFINE new == [seq |-> cursor + 1, doc |-> d, kind |-> kind]
<1>1. \A r \in pathRevs' : r \in pathRevs \/ (r.seq = new.seq /\ r.doc = new.doc)
  BY DEF AppendPath
<1>2. \A r \in bodyRevs' : \/ \E s \in bodyRevs : s.seq = r.seq /\ s.doc = r.doc
                           \/ r.seq = new.seq /\ r.doc = new.doc
  <2>1. CASE bodyRevs' = bodyRevs
    BY <2>1
  <2>2. CASE \E rev, p : BodyRevShaped(rev) /\ rev.seq = cursor + 1 /\ rev.doc = d /\ AppendBody(rev, p)
    <3>1. PICK rev, p : BodyRevShaped(rev) /\ rev.seq = cursor + 1 /\ rev.doc = d /\ AppendBody(rev, p)
      BY <2>2
    <3>2. \A r \in bodyRevs' : \E s \in bodyRevs \cup {rev} : s.seq = r.seq /\ s.doc = r.doc
      <4>1. AppendBody(rev, p) /\ BodyRevShaped(rev)
        BY <3>1
      <4> QED BY <4>1, AppendShaped
    <3> QED BY <3>1, <3>2
  <2> QED BY <2>1, <2>2
<1>3. cursor \in Nat /\ new.seq = cursor + 1 /\ cursor' = cursor + 1 /\ events' = events \cup {new}
  BY DEF TypeOK, AppendEvent
<1> HIDE DEF new
<1>4. EventsGrow({new})
  BY <1>1, <1>2, <1>3 DEF EventsGrow
<1> QED BY <1>4, AnchorStep

\* The changes of a rewind take every number the cursor passes.
LEMMA ChangeSeqCovers ==
    ASSUME cursor \in Nat, NEW c
    PROVE  /\ \A d, e \in Changed(c) : ChangeSeq(d, c) = ChangeSeq(e, c) => d = e
           /\ \A i \in Nat : cursor < i /\ i <= cursor + Cardinality(Changed(c))
                => \E d \in Changed(c) : ChangeSeq(d, c) = i
<1> DEFINE S == Changed(c)
           top == cursor + Cardinality(S)
           T == (cursor + 1)..top
           f == [d \in S |-> ChangeSeq(d, c)]
<1>1. /\ IsFiniteSet(S) /\ Cardinality(S) \in Nat /\ S \subseteq Nat /\ top \in Nat
      /\ \A d \in S : ChangeSeq(d, c) \in T
      /\ \A d, e \in S : d < e => ChangeSeq(d, c) < ChangeSeq(e, c)
  <2>1. \A d \in Changed(c) : /\ ChangeSeq(d, c) \in Nat /\ cursor < ChangeSeq(d, c)
                             /\ ChangeSeq(d, c) <= cursor + Cardinality(Changed(c))
    BY ChangeSeqRange
  <2>2. Cardinality(Changed(c)) \in Nat
    BY ChangeSeqRange
  <2>3. \A d \in S : ChangeSeq(d, c) \in T
    BY <2>1, <2>2
  <2>4. top \in Nat
    BY <2>2
  <2>6. IsFiniteSet(S) /\ S \subseteq Docs
    BY ChangeSeqRange, Zenon
  <2>7. S \subseteq Nat
    BY <2>6, PlacesAssumption
  <2>5. \A d, e \in S : d < e => ChangeSeq(d, c) < ChangeSeq(e, c)
    BY ChangeSeqRange
  <2> QED BY <2>2, <2>3, <2>4, <2>5, <2>6, <2>7
<1>2. \A d, e \in S : ChangeSeq(d, c) = ChangeSeq(e, c) => d = e
  <2> TAKE d, e \in S
  <2>1. d < e \/ e < d \/ d = e
    BY <1>1
  <2>2. ChangeSeq(d, c) \in Nat /\ ChangeSeq(e, c) \in Nat
    BY ChangeSeqRange
  <2> QED BY <1>1, <2>1, <2>2
<1>3. f \in Injection(S, T)
  BY <1>1, <1>2 DEF Injection, IsInjective
<1>4. IsFiniteSet(T) /\ Cardinality(T) = Cardinality(S)
  BY <1>1, FS_Interval
<1> HIDE DEF T, top
<1>5. f \in Surjection(S, T)
  BY <1>3, <1>4, FS_Injection
<1>6. \A i \in T : \E d \in S : ChangeSeq(d, c) = i
  BY <1>5 DEF Surjection
<1> QED BY <1>1, <1>2, <1>6 DEF T, top

LEMMA RewindAnchored ==
    ASSUME TypeOK, HistoryAnchored, NEW c, RestoreWorkspace(c)
    PROVE  HistoryAnchored'
<1> DEFINE ev(d, k) == [seq |-> ChangeSeq(d, c), doc |-> d, kind |-> k]
           E == UNION {{ev(d, k) : k \in ChangeKind(d, c)} : d \in Docs}
<1>1. cursor \in Nat /\ cursor' = cursor + Cardinality(Changed(c)) /\ events' = events \cup E
  BY DEF TypeOK, RestoreWorkspace
<1>2. \A e \in E : \E d \in Changed(c) : e.seq = ChangeSeq(d, c) /\ e.doc = d
                     /\ \E k \in ChangeKind(d, c) : e = ev(d, k)
  BY DEF Changed
<1>3. \A d \in Changed(c) : \E e \in E : e.seq = ChangeSeq(d, c) /\ e.doc = d
  <2> TAKE d \in Changed(c)
  <2>1. PICK k \in ChangeKind(d, c) : d \in Docs
    BY DEF Changed
  <2>2. ev(d, k) \in E /\ ev(d, k).seq = ChangeSeq(d, c) /\ ev(d, k).doc = d
    BY <2>1
  <2> QED BY <2>2
<1> HIDE DEF E
<1>4. \A e, f \in E : e.seq = f.seq => e = f
  <2> SUFFICES ASSUME NEW e \in E, NEW f \in E, e.seq = f.seq PROVE e = f
    OBVIOUS
  <2>1. PICK d \in Changed(c) : e.seq = ChangeSeq(d, c) /\ \E k \in ChangeKind(d, c) : e = ev(d, k)
    BY <1>2
  <2>2. PICK x \in Changed(c) : f.seq = ChangeSeq(x, c) /\ \E j \in ChangeKind(x, c) : f = ev(x, j)
    BY <1>2
  <2>3. d = x /\ d \in Docs
    BY <1>1, <2>1, <2>2, ChangeSeqCovers DEF Changed
  <2>4. PICK kind : ChangeKind(d, c) = {kind}
    BY <2>3, ChangedPlaces
  <2> QED BY <2>1, <2>2, <2>3, <2>4
<1>5. cursor' \in Nat /\ cursor <= cursor'
      /\ \A e \in E : e.seq \in Nat /\ cursor < e.seq /\ e.seq <= cursor'
  <2>1. Cardinality(Changed(c)) \in Nat
    BY <1>1, ChangeSeqRange
  <2>2. \A d \in Changed(c) : /\ ChangeSeq(d, c) \in Nat /\ cursor < ChangeSeq(d, c)
                             /\ ChangeSeq(d, c) <= cursor'
    BY <1>1, ChangeSeqRange
  <2> QED BY <1>1, <1>2, <2>1, <2>2
<1>6. \A i \in Nat : cursor < i /\ i <= cursor' => \E e \in E : e.seq = i
  BY <1>1, <1>3, ChangeSeqCovers
<1>7. \A r \in pathRevs' \cup bodyRevs' :
         \/ \E s \in pathRevs \cup bodyRevs : s.seq = r.seq /\ s.doc = r.doc
         \/ \E e \in E : e.seq = r.seq /\ e.doc = r.doc
  <2>1. \A r \in pathRevs' : r \in pathRevs \/ \E d \in Changed(c) : r.seq = ChangeSeq(d, c) /\ r.doc = d
    BY DEF RestoreWorkspace
  <2>2. \A r \in bodyRevs' : \/ \E s \in bodyRevs : s.seq = r.seq /\ s.doc = r.doc
                             \/ \E d \in Changed(c) : r.seq = ChangeSeq(d, c) /\ r.doc = d
    BY RewoundRevsShaped DEF RestoreWorkspace
  <2>3. ASSUME NEW r, NEW d \in Changed(c), r.seq = ChangeSeq(d, c), r.doc = d
        PROVE  \E e \in E : e.seq = r.seq /\ e.doc = r.doc
    BY <1>3, <2>3
  <2> QED BY <2>1, <2>2, <2>3
<1>8. EventsGrow(E)
  BY <1>1, <1>4, <1>5, <1>6, <1>7 DEF EventsGrow
<1> QED BY <1>8, AnchorStep

LEMMA StepAnchored == TypeOK /\ HistoryAnchored /\ [Next]_vars => HistoryAnchored'
<1> SUFFICES ASSUME TypeOK, HistoryAnchored, [Next]_vars PROVE HistoryAnchored'
  OBVIOUS
<1>0. cursor + 1 \in Nat
  BY DEF TypeOK
<1>1. ASSUME NEW d \in Docs, NEW p \in Paths, NEW t, CreateDocument(d, p, t) PROVE HistoryAnchored'
  <2>1. LET x == CheckpointRev(cursor + 1, d, t)
        IN  BodyRevShaped(x) /\ x.seq = cursor + 1 /\ x.doc = d /\ AppendBody(x, p)
    BY <1>0, <1>1, CheckpointShaped DEF CreateDocument
  <2> QED BY <1>1, <2>1, SingleAnchored DEF CreateDocument
<1>2. ASSUME NEW d \in Docs, NEW a, NEW b, NEW t, UpdateDocument(d, a, b, t) PROVE HistoryAnchored'
  <2>1. LET m == MergeRev(cursor + 1, d, a, b, t)
        IN  BodyRevShaped(m) /\ m.seq = cursor + 1 /\ m.doc = d
    BY <1>0 DEF MergeRev, BodyRevShaped
  <2>2. \A text : LET r == CheckpointRev(cursor + 1, d, text)
                 IN  BodyRevShaped(r) /\ r.seq = cursor + 1 /\ r.doc = d
    BY <1>0, CheckpointShaped
  <2>3. PICK rev : BodyRevShaped(rev) /\ rev.seq = cursor + 1 /\ rev.doc = d /\ AppendBody(rev, path[d])
    BY <1>2, <2>1, <2>2 DEF UpdateDocument
  <2> QED BY <1>2, <2>3, SingleAnchored DEF UpdateDocument
<1>3. ASSUME NEW d \in Docs, DeleteDocument(d) PROVE HistoryAnchored'
  BY <1>3, SingleAnchored DEF DeleteDocument
<1>4. ASSUME NEW d \in Docs, NEW p \in Paths, MoveDocument(d, p) PROVE HistoryAnchored'
  BY <1>4, SingleAnchored DEF MoveDocument
<1>5. ASSUME NEW d \in Docs, NEW r \in DocRevs(d), NEW p \in Paths, RestoreDocument(d, r, p)
      PROVE  HistoryAnchored'
  <2>1. LET x == CheckpointRev(cursor + 1, d, r.own)
        IN  BodyRevShaped(x) /\ x.seq = cursor + 1 /\ x.doc = d /\ AppendBody(x, p)
    BY <1>0, <1>5, CheckpointShaped DEF RestoreDocument
  <2> QED BY <1>5, <2>1, SingleAnchored DEF RestoreDocument
<1>6. CASE \/ \E ms \in SUBSET Mounts : Bootstrap(ms)
           \/ \E k \in Keys, policy \in Policies : SetPolicy(k, policy)
           \/ \E k \in Keys : ClearPolicy(k)
           \/ UNCHANGED vars
  BY <1>6 DEF Bootstrap, SetPolicy, ClearPolicy, vars, HistoryAnchored
<1> QED BY <1>1, <1>2, <1>3, <1>4, <1>5, <1>6, RewindAnchored DEF Next

\* The events are numbered by the cursor without gap or reuse, across rewinds
\* that write many at once, and compaction leaves no row without its event.
THEOREM HistoryStaysAnchored == Spec => []HistoryAnchored
<1>1. Init => HistoryAnchored
  BY DEF Init, HistoryAnchored
<1> QED BY <1>1, InitTyped, StepTyped, StepAnchored, PTL DEF Spec

-----------------------------------------------------------------------------
(* Reading revisions back.                                                 *)

Shaped(R) == \A r \in R : BodyRevShaped(r)

\* A document with a revision up to c has a newest one, which is no older.
LEMMA NewestFound ==
    ASSUME NEW R, Shaped(R), NEW c \in Nat, NEW r \in R, r.seq <= c
    PROVE  \E s \in Newest(R, c) : s.doc = r.doc /\ r.seq <= s.seq
<1> DEFINE S == {s \in R : s.doc = r.doc /\ s.seq <= c}
           seqs == {s.seq : s \in S}
<1>1. seqs \in SUBSET Nat /\ seqs # {} /\ \A n \in seqs : n <= c
  <2>1. r \in S
    OBVIOUS
  <2> QED BY <2>1 DEF Shaped, BodyRevShaped
<1>2. PICK m \in seqs : \A n \in seqs : n <= m
  <2> HIDE DEF seqs
  <2> QED BY <1>1, GreatestExists
<1>3. PICK s \in S : s.seq = m
  OBVIOUS
<1>4. \A x \in S : x.seq <= s.seq
  BY <1>2, <1>3
<1>5. s \in Newest(R, c)
  BY <1>3, <1>4 DEF Newest
<1>6. r.seq <= s.seq
  BY <1>4
<1> QED BY <1>3, <1>5, <1>6

\* A path's policy is one of the rows or the default.
LEMMA PolicyKnown ==
    ASSUME TypeOK, NEW p \in Paths
    PROVE  PolicyFor(p) \in Policies \cup {DefaultPolicy}
<1> DEFINE set == {i \in DOMAIN Chain[p] : Chain[p][i] \in DOMAIN policies}
           nearest == CHOOSE i \in set : \A j \in set : i <= j
<1>1. CASE set = {}
  BY <1>1 DEF PolicyFor
<1>2. CASE set # {}
  <2>1. set \in SUBSET Nat
    BY PolicyAssumption
  <2>2. \E i \in set : \A j \in set : i <= j
    <3> HIDE DEF set
    <3> QED BY <1>2, <2>1, LeastExists
  <2>3. nearest \in set
    <3> HIDE DEF set
    <3> QED BY <2>2
  <2>4. policies[Chain[p][nearest]] \in Policies
    BY <2>3, PolicyAssumption DEF TypeOK
  <2>5. PolicyFor(p) = policies[Chain[p][nearest]]
    BY <1>2 DEF PolicyFor
  <2> QED BY <2>4, <2>5
<1> QED BY <1>1, <1>2

LEMMA PolicyPositive ==
    ASSUME TypeOK, NEW p \in Paths
    PROVE  PolicyFor(p) \in Policy
  BY PolicyKnown, PolicyAssumption

-----------------------------------------------------------------------------
(* What compaction keeps.                                                  *)

\* At least as old a revision as each it was given: the oldest is sampled
\* whatever the stride.
LEMMA CompactKeepsFirst ==
    ASSUME NEW R, Shaped(R), NEW policy \in Policy, NEW r \in R
    PROVE  \E k \in Compact(R, policy) : k.seq <= r.seq
<1> DEFINE seqs == {s.seq : s \in R}
<1>1. PICK m \in seqs : \A n \in seqs : m <= n
  <2>1. seqs \in SUBSET Nat /\ seqs # {}
    BY DEF Shaped, BodyRevShaped
  <2> HIDE DEF seqs
  <2> QED BY <2>1, LeastExists
<1>2. PICK first \in R : first.seq = m
  OBVIOUS
<1>3. \A s \in R : first.seq <= s.seq
  BY <1>1, <1>2
<1>4. Index(first, R) = 0
  <2>1. {s \in R : s.seq < first.seq} = {}
    BY <1>3 DEF Shaped, BodyRevShaped
  <2> QED BY <2>1, FS_EmptySet DEF Index
<1>5. 0 % policy.frequency = 0
  BY DEF Policy
<1>6. CASE Cardinality(R) <= policy.revisions
  BY <1>6 DEF Compact, Shaped, BodyRevShaped
<1>7. CASE ~(Cardinality(R) <= policy.revisions)
  <2>1. AsCheckpoint(first) \in Compact(R, policy)
    BY <1>2, <1>4, <1>5, <1>7 DEF Compact
  <2>2. AsCheckpoint(first).seq = first.seq
    BY DEF AsCheckpoint, Shaped, BodyRevShaped
  <2> QED BY <1>3, <2>1, <2>2
<1> QED BY <1>6, <1>7

\* Revisions of one document, numbered apart.
Apart(R) == \A r, s \in R : r.seq = s.seq => r = s

LEMMA IndexBelow ==
    ASSUME NEW R, IsFiniteSet(R), Shaped(R), NEW r \in R
    PROVE  Index(r, R) \in Nat /\ Index(r, R) < Cardinality(R)
<1> DEFINE below == {s \in R : s.seq < r.seq}
<1>1. below \in SUBSET (R \ {r})
  BY DEF Shaped, BodyRevShaped
<1>2. IsFiniteSet(R \ {r}) /\ Cardinality(R \ {r}) = Cardinality(R) - 1 /\ Cardinality(R) \in Nat
  BY FS_RemoveElement, FS_CardinalityType
<1>3. IsFiniteSet(below) /\ Cardinality(below) <= Cardinality(R \ {r}) /\ Cardinality(below) \in Nat
  <2> HIDE DEF below
  <2> QED BY <1>1, <1>2, FS_Subset, FS_CardinalityType
<1> QED BY <1>2, <1>3 DEF Index

\* The newest revision, with its text.
LEMMA CompactKeepsNewest ==
    ASSUME NEW R, IsFiniteSet(R), Shaped(R), Apart(R), NEW policy \in Policy,
           NEW n \in R, \A r \in R : r.seq <= n.seq
    PROVE  \E k \in Compact(R, policy) : k.seq = n.seq /\ k.doc = n.doc /\ k.replayed.text = n.replayed.text
<1>1. CASE Cardinality(R) <= policy.revisions
  BY <1>1 DEF Compact
<1>2. CASE ~(Cardinality(R) <= policy.revisions)
  <2>1. {s \in R : s.seq < n.seq} = R \ {n}
    BY DEF Shaped, BodyRevShaped, Apart
  <2>2. Index(n, R) = Cardinality(R) - 1 /\ Cardinality(R) \in Nat
    BY <2>1, FS_RemoveElement, FS_CardinalityType DEF Index
  <2>3. Index(n, R) >= Cardinality(R) - policy.revisions
    BY <2>2 DEF Policy
  <2>4. AsCheckpoint(n) \in Compact(R, policy)
    BY <1>2, <2>3 DEF Compact
  <2>5. AsCheckpoint(n).seq = n.seq /\ AsCheckpoint(n).doc = n.doc
        /\ AsCheckpoint(n).replayed.text = n.replayed.text
    BY DEF AsCheckpoint, Checkpoint, Shaped, BodyRevShaped
  <2> QED BY <2>4, <2>5
<1> QED BY <1>1, <1>2

\* It keeps them apart.
LEMMA CompactApart ==
    ASSUME NEW R, Shaped(R), Apart(R), NEW policy
    PROVE  Apart(Compact(R, policy))
<1>1. \A r \in R : AsCheckpoint(r).seq = r.seq
  BY DEF AsCheckpoint, Shaped, BodyRevShaped
<1>2. CASE Cardinality(R) <= policy.revisions
  BY <1>2 DEF Compact
<1>3. CASE ~(Cardinality(R) <= policy.revisions)
  <2>1. \A k \in Compact(R, policy) : \E r \in R : k = AsCheckpoint(r)
    BY <1>3 DEF Compact
  <2> QED BY <1>1, <2>1 DEF Apart
<1> QED BY <1>2, <1>3

-----------------------------------------------------------------------------
(* A step's revisions.                                                     *)

\* Revision n joins the history of document d, which may be compacted then, by
\* the policy of the path the document has or gets.
Extended(d, n) ==
    /\ BodyRevShaped(n) /\ n.doc = d /\ cursor < n.seq /\ n.seq <= cursor'
    /\ \/ DocRevs(d)' = DocRevs(d) \cup {n}
       \/ \E p \in Paths : /\ p = path[d] \/ p = path'[d]
                          /\ DocRevs(d)' = Compact(DocRevs(d) \cup {n}, PolicyFor(p))

RevsGrow == \A d \in Docs : DocRevs(d)' = DocRevs(d) \/ \E n : Extended(d, n)

\* The rows are numbered by events.
LEMMA RowsUpToCursor ==
    ASSUME TypeOK, HistoryAnchored
    PROVE  \A r \in pathRevs \cup bodyRevs : r.seq \in 1..cursor
  BY DEF HistoryAnchored

LEMMA DocRevsShaped ==
    ASSUME TypeOK, HistoryAnchored, NEW d
    PROVE  Shaped(DocRevs(d)) /\ \A r \in DocRevs(d) : r.seq \in 1..cursor /\ r.doc = d
  BY RowsUpToCursor DEF DocRevs, Shaped, TypeOK

\* A document has one revision per event at most.
LEMMA NumberedFinite ==
    ASSUME NEW R, Apart(R), NEW k \in Nat, \A r \in R : r.seq \in 1..k
    PROVE  IsFiniteSet(R) /\ Cardinality(R) <= k
<1> DEFINE f == [r \in R |-> r.seq]
<1>1. f \in Injection(R, 1..k)
  BY DEF Injection, IsInjective, Apart
<1>2. IsFiniteSet(1..k) /\ Cardinality(1..k) = k
  BY FS_Interval
<1> HIDE DEF f
<1> QED BY <1>1, <1>2, FS_Injection

LEMMA DocRevsFinite ==
    ASSUME TypeOK, HistoryAnchored, NEW d, Apart(DocRevs(d))
    PROVE  IsFiniteSet(DocRevs(d)) /\ Cardinality(DocRevs(d)) <= cursor
  BY DocRevsShaped, NumberedFinite DEF TypeOK

\* What joining the history does to it.
LEMMA ExtendedRevs ==
    ASSUME TypeOK, HistoryAnchored, NEW d, NEW n, Apart(DocRevs(d)), Extended(d, n)
    PROVE  /\ Apart(DocRevs(d))'
           /\ \A r \in DocRevs(d) \cup {n} : \E k \in DocRevs(d)' : k.seq <= r.seq
           /\ \A k \in DocRevs(d)' : k.seq <= n.seq
           /\ \E k \in DocRevs(d)' : k.seq = n.seq /\ k.replayed.text = n.replayed.text
<1> DEFINE R == DocRevs(d) \cup {n}
<1>1. Shaped(R) /\ Apart(R) /\ \A r \in R : r.seq <= n.seq
  <2>1. cursor \in Nat /\ n.seq \in Nat /\ cursor < n.seq
    BY DEF Extended, TypeOK, BodyRevShaped
  <2>2. \A r \in DocRevs(d) : BodyRevShaped(r) /\ r.seq \in 1..cursor
    BY DocRevsShaped DEF Shaped
  <2> QED BY <2>1, <2>2 DEF Shaped, Apart, Extended
<1>2. IsFiniteSet(R)
  BY DocRevsFinite, FS_AddElement
<1>3. n \in R
  OBVIOUS
<1>4. CASE DocRevs(d)' = R
  <2>1. \A r \in R : r.seq \in Nat
    BY <1>1 DEF Shaped, BodyRevShaped
  <2> HIDE DEF R
  <2>2. Apart(DocRevs(d))' <=> Apart(R)
    BY <1>4 DEF Apart
  <2>3. DocRevs(d) \cup {n} = R
    BY DEF R
  <2>4. \A r \in R : r.seq <= r.seq
    BY <2>1
  <2> QED BY <1>1, <1>3, <1>4, <2>2, <2>3, <2>4
<1>5. ASSUME NEW policy \in Policy, DocRevs(d)' = Compact(R, policy)
      PROVE  /\ Apart(DocRevs(d))'
             /\ \A r \in R : \E k \in DocRevs(d)' : k.seq <= r.seq
             /\ \A k \in DocRevs(d)' : k.seq <= n.seq
             /\ \E k \in DocRevs(d)' : k.seq = n.seq /\ k.replayed.text = n.replayed.text
  <2> HIDE DEF R
  <2>1. Apart(Compact(R, policy))
    BY <1>1, CompactApart
  <2>2. \A r \in R : \E k \in Compact(R, policy) : k.seq <= r.seq
    BY <1>1, CompactKeepsFirst
  <2>3. \A k \in Compact(R, policy) : \E r \in R : k.seq = r.seq
    BY <1>1, CompactShaped DEF Shaped
  <2>4. \E k \in Compact(R, policy) : k.seq = n.seq /\ k.replayed.text = n.replayed.text
    BY <1>1, <1>2, <1>3, CompactKeepsNewest
  <2>5. Apart(DocRevs(d))'
    BY <1>5, <2>1 DEF Apart
  <2> QED BY <1>1, <1>5, <2>2, <2>3, <2>4, <2>5
<1> HIDE DEF R
<1>6. DocRevs(d)' = R \/ \E policy \in Policy : DocRevs(d)' = Compact(R, policy)
  BY PolicyPositive DEF Extended, R
<1> QED BY <1>4, <1>5, <1>6 DEF R

\* An operation on one document appends one revision of it.
LEMMA AppendExtends ==
    ASSUME TypeOK, NEW r, BodyRevShaped(r), r.seq = cursor + 1, cursor' = cursor + 1,
           NEW p \in Paths, AppendBody(r, p), p = path[r.doc] \/ p = path'[r.doc]
    PROVE  RevsGrow /\ Extended(r.doc, r) /\ \A d \in Docs : d # r.doc => DocRevs(d)' = DocRevs(d)
<1>1. bodyRevs' = (bodyRevs \ DocRevs(r.doc)) \cup Appended(r, p)
  BY DEF AppendBody
<1>2. \A x \in Appended(r, p) : x.doc = r.doc
  <2>1. \A x \in DocRevs(r.doc) \cup {r} : BodyRevShaped(x) /\ x.doc = r.doc
    BY DEF TypeOK, DocRevs
  <2> QED BY <2>1, CompactShaped DEF Appended
<1>3. DocRevs(r.doc)' = Appended(r, p)
  BY <1>1, <1>2 DEF DocRevs
<1>4. \A d \in Docs : d # r.doc => DocRevs(d)' = DocRevs(d)
  BY <1>1, <1>2 DEF DocRevs
<1>5. Appended(r, p) = Compact(DocRevs(r.doc) \cup {r}, PolicyFor(p))
  BY DEF Appended
<1>6. Extended(r.doc, r)
  BY <1>3, <1>5 DEF Extended, TypeOK, BodyRevShaped
<1> QED BY <1>4, <1>6 DEF RevsGrow, BodyRevShaped

\* A rewind appends one revision of each document whose text it changes.
RewoundRev(d, c) == CheckpointRev(ChangeSeq(d, c), d, Comparable(HistoryBody(d, c)))

LEMMA RewindExtends ==
    ASSUME TypeOK, NEW c, RestoreWorkspace(c)
    PROVE  /\ RevsGrow
           /\ \A d \in Docs \ Rewritten(c) : DocRevs(d)' = DocRevs(d)
           /\ \A d \in Rewritten(c) : d \in Docs /\ Extended(d, RewoundRev(d, c))
<1>1. bodyRevs' = UNION {RewoundRevs(d, c) : d \in Docs}
  BY DEF RestoreWorkspace
<1>2. \A d \in Docs : \A x \in RewoundRevs(d, c) : x.doc = d
  <2> TAKE d \in Docs
  <2> DEFINE rev == CheckpointRev(ChangeSeq(d, c), d, Comparable(HistoryBody(d, c)))
  <2>1. \A x \in DocRevs(d) : BodyRevShaped(x) /\ x.doc = d
    BY DEF TypeOK, DocRevs
  <2>2. CASE d \in Rewritten(c)
    <3>1. d \in Changed(c) /\ ChangeSeq(d, c) \in Nat
      BY <2>2, ChangeSeqRange DEF Rewritten, TypeOK
    <3>2. BodyRevShaped(rev) /\ rev.doc = d
      BY <3>1, CheckpointShaped
    <3> HIDE DEF rev
    <3>3. \A x \in DocRevs(d) \cup {rev} : BodyRevShaped(x) /\ x.doc = d
      BY <2>1, <3>2
    <3>4. \A x \in Appended(rev, path[d]) : x.doc = d
      BY <3>2, <3>3, CompactShaped DEF Appended
    <3>5. RewoundRevs(d, c) = IF d \in live THEN Appended(rev, path[d]) ELSE DocRevs(d) \cup {rev}
      BY <2>2 DEF RewoundRevs, rev
    <3> QED BY <3>3, <3>4, <3>5
  <2>3. CASE d \notin Rewritten(c)
    BY <2>1, <2>3 DEF RewoundRevs
  <2> QED BY <2>2, <2>3
<1>3. \A d \in Docs : DocRevs(d)' = RewoundRevs(d, c)
  BY <1>1, <1>2 DEF DocRevs
<1>4. \A d \in Docs \ Rewritten(c) : DocRevs(d)' = DocRevs(d)
  BY <1>3 DEF RewoundRevs
<1>5. ASSUME NEW d \in Rewritten(c)
      PROVE  d \in Docs /\ Extended(d, RewoundRev(d, c))
  <2>1. /\ d \in Docs /\ d \in Changed(c) /\ ChangeSeq(d, c) \in Nat
        /\ cursor < ChangeSeq(d, c) /\ ChangeSeq(d, c) <= cursor'
    BY <1>5, ChangeSeqRange DEF Rewritten, TypeOK, RestoreWorkspace
  <2>2. /\ BodyRevShaped(RewoundRev(d, c)) /\ RewoundRev(d, c).doc = d
        /\ RewoundRev(d, c).seq = ChangeSeq(d, c)
    BY <2>1, CheckpointShaped DEF RewoundRev
  <2>3. DocRevs(d)' = IF d \in live THEN Appended(RewoundRev(d, c), path[d])
                      ELSE DocRevs(d) \cup {RewoundRev(d, c)}
    BY <1>3, <1>5, <2>1 DEF RewoundRevs, RewoundRev
  <2>4. d \in live => path[d] \in Paths
    BY DEF TypeOK, Known
  <2>5. Appended(RewoundRev(d, c), path[d]) = Compact(DocRevs(d) \cup {RewoundRev(d, c)}, PolicyFor(path[d]))
    BY <2>2 DEF Appended
  <2> QED BY <2>1, <2>2, <2>3, <2>4, <2>5 DEF Extended
<1> QED BY <1>4, <1>5 DEF RevsGrow

-----------------------------------------------------------------------------
(* Every version has a text.  That a rewind finds one for each document it *)
(* revives rests on the oldest revision's surviving compaction.            *)

RevInv ==
    /\ \A d \in Docs : Apart(DocRevs(d))
    /\ \A d \in Docs : path[d] # NoPath => DocRevs(d) # {}
    /\ \A r \in pathRevs : path[r.doc] # NoPath /\ \E b \in DocRevs(r.doc) : b.seq <= r.seq

\* A document once created stays known; one created now, or placed, has a
\* revision to show for it.
PathsGrow ==
    /\ \A d \in Docs : path[d] # NoPath => path'[d] # NoPath
    /\ \A d \in Docs : path[d] = NoPath /\ path'[d] # NoPath => \E n : Extended(d, n)
    /\ \A r \in pathRevs' \ pathRevs :
         /\ cursor < r.seq /\ path'[r.doc] # NoPath
         /\ path[r.doc] # NoPath \/ \E n : Extended(r.doc, n) /\ n.seq <= r.seq

LEMMA RevStep ==
    ASSUME TypeOK, HistoryAnchored, RevInv, TypeOK', RevsGrow, PathsGrow
    PROVE  RevInv'
<1>1. \A d \in Docs : Shaped(DocRevs(d)) /\ \A r \in DocRevs(d) : r.seq \in 1..cursor /\ r.doc = d
  BY DocRevsShaped
<1>2. ASSUME NEW d \in Docs
      PROVE  /\ Apart(DocRevs(d))'
             /\ \A r \in DocRevs(d) : \E k \in DocRevs(d)' : k.seq <= r.seq
             /\ \A n : Extended(d, n) => \E k \in DocRevs(d)' : k.seq <= n.seq
  <2>1. Apart(DocRevs(d))
    BY DEF RevInv
  <2>2. ASSUME NEW n, Extended(d, n)
        PROVE  /\ Apart(DocRevs(d))'
               /\ \A r \in DocRevs(d) \cup {n} : \E k \in DocRevs(d)' : k.seq <= r.seq
    BY <2>1, <2>2, ExtendedRevs
  <2>3. CASE DocRevs(d)' = DocRevs(d)
    <3>1. \A r \in DocRevs(d) : r.seq <= r.seq
      BY <1>1
    <3>2. Apart(DocRevs(d))'
      BY <2>1, <2>3 DEF Apart
    <3> QED BY <2>2, <2>3, <3>1, <3>2
  <2>4. CASE \E n : Extended(d, n)
    BY <2>2, <2>4
  <2> QED BY <2>3, <2>4 DEF RevsGrow
<1>3. ASSUME NEW d \in Docs, path'[d] # NoPath PROVE DocRevs(d)' # {}
  <2>1. CASE path[d] # NoPath
    BY <1>2, <2>1 DEF RevInv
  <2>2. CASE path[d] = NoPath
    BY <1>2, <1>3, <2>2 DEF PathsGrow
  <2> QED BY <2>1, <2>2
<1>4. ASSUME NEW r \in pathRevs'
      PROVE  path'[r.doc] # NoPath /\ \E b \in DocRevs(r.doc)' : b.seq <= r.seq
  <2>1. r.doc \in Docs /\ r.seq \in Nat /\ cursor \in Nat
    BY DEF TypeOK, PathRev
  <2>2. \A k \in DocRevs(r.doc)' : k.seq \in Nat
    BY DEF TypeOK, DocRevs, BodyRevShaped
  <2>3. ASSUME path[r.doc] # NoPath, cursor < r.seq
        PROVE  \E b \in DocRevs(r.doc)' : b.seq <= r.seq
    <3>1. PICK b \in DocRevs(r.doc) : b.seq \in 1..cursor
      BY <1>1, <2>1, <2>3 DEF RevInv
    <3>2. PICK k \in DocRevs(r.doc)' : k.seq <= b.seq
      BY <1>2, <2>1
    <3> QED BY <2>1, <2>2, <2>3, <3>1, <3>2
  <2>4. ASSUME NEW n, Extended(r.doc, n), n.seq <= r.seq
        PROVE  \E b \in DocRevs(r.doc)' : b.seq <= r.seq
    <3>1. PICK k \in DocRevs(r.doc)' : k.seq <= n.seq
      BY <1>2, <2>1, <2>4
    <3>2. n.seq \in Nat
      BY <2>4 DEF Extended, BodyRevShaped
    <3> QED BY <2>1, <2>2, <2>4, <3>1, <3>2
  <2>5. CASE r \in pathRevs
    <3>1. PICK b \in DocRevs(r.doc) : b.seq <= r.seq /\ b.seq \in 1..cursor
      BY <1>1, <2>1, <2>5 DEF RevInv
    <3>2. PICK k \in DocRevs(r.doc)' : k.seq <= b.seq
      BY <1>2, <2>1
    <3>3. k.seq <= r.seq
      BY <2>1, <2>2, <3>1, <3>2
    <3>4. path'[r.doc] # NoPath
      BY <2>1, <2>5 DEF RevInv, PathsGrow
    <3> QED BY <3>3, <3>4
  <2>6. CASE r \notin pathRevs
    BY <2>3, <2>4, <2>6 DEF PathsGrow
  <2> QED BY <2>5, <2>6
<1> QED BY <1>2, <1>3, <1>4 DEF RevInv

\* What is live in the history was created, and has a revision up to then.
LEMMA HistoryHasText ==
    ASSUME TypeOK, HistoryAnchored, RevInv, NEW c \in Nat, NEW d \in HistoryLive(c)
    PROVE  d \in Docs /\ path[d] # NoPath /\ LatestBody(d, c) # {}
<1>1. PICK r \in pathRevs : r.doc = d /\ r.seq <= c
  BY DEF HistoryLive, HistoryPaths, LatestPaths, Newest
<1>2. PICK b \in DocRevs(d) : b.seq <= r.seq
  BY <1>1 DEF RevInv
<1>3. r.seq \in Nat /\ Shaped(DocRevs(d)) /\ b.seq \in Nat
  BY DocRevsShaped DEF TypeOK, PathRev
<1>4. b.seq <= c
  BY <1>1, <1>2, <1>3
<1>5. Newest(DocRevs(d), c) # {}
  BY <1>3, <1>4, NewestFound
<1> QED BY <1>1, <1>5 DEF HistoryLive, RevInv, LatestBody

\* A created or updated document's revision is well-formed.
LEMMA UpdateRev ==
    ASSUME TypeOK, NEW d \in Docs, NEW a, NEW b, NEW t, UpdateDocument(d, a, b, t)
    PROVE  \E rev : /\ BodyRevShaped(rev) /\ rev.seq = cursor + 1 /\ rev.doc = d
                    /\ AppendBody(rev, path[d])
                    /\ LET result == Converged(a, b, t, canonical[d])
                       IN  rev = IF result.merge THEN MergeRev(cursor + 1, d, a, b, t)
                                 ELSE CheckpointRev(cursor + 1, d, result.state.text)
<1>0. cursor + 1 \in Nat
  BY DEF TypeOK
<1>1. LET m == MergeRev(cursor + 1, d, a, b, t)
      IN  BodyRevShaped(m) /\ m.seq = cursor + 1 /\ m.doc = d
  BY <1>0 DEF MergeRev, BodyRevShaped
<1>2. \A text : LET r == CheckpointRev(cursor + 1, d, text)
               IN  BodyRevShaped(r) /\ r.seq = cursor + 1 /\ r.doc = d
  BY <1>0, CheckpointShaped
<1> QED BY <1>1, <1>2 DEF UpdateDocument

\* Each operation's rows.
LEMMA CreateGrows ==
    ASSUME TypeOK, NEW d \in Docs, NEW p \in Paths, NEW t, CreateDocument(d, p, t)
    PROVE  /\ RevsGrow /\ PathsGrow /\ cursor \in Nat
           /\ Extended(d, CheckpointRev(cursor + 1, d, t))
           /\ \A e \in Docs : e # d => DocRevs(e)' = DocRevs(e)
<1>1. cursor \in Nat /\ cursor' = cursor + 1 /\ path \in [Docs -> Paths \cup {NoPath}]
  BY DEF TypeOK, CreateDocument, AppendEvent
<1>2. PICK n : /\ n = CheckpointRev(cursor + 1, d, t)
               /\ BodyRevShaped(n) /\ n.seq = cursor + 1 /\ n.doc = d /\ AppendBody(n, p)
               /\ p = path'[n.doc]
  BY <1>1, CheckpointShaped DEF CreateDocument
<1>3. RevsGrow /\ Extended(d, n) /\ \A e \in Docs : e # d => DocRevs(e)' = DocRevs(e)
  BY <1>1, <1>2, AppendExtends
<1>4. PathsGrow
  BY <1>1, <1>2, <1>3, PlacesAssumption DEF PathsGrow, CreateDocument, AppendPath
<1> QED BY <1>1, <1>2, <1>3, <1>4

LEMMA UpdateGrows ==
    ASSUME TypeOK, NEW d \in Docs, NEW a, NEW b, NEW t, UpdateDocument(d, a, b, t)
    PROVE  /\ RevsGrow /\ PathsGrow /\ cursor \in Nat
           /\ LET result == Converged(a, b, t, canonical[d])
                  rev == IF result.merge THEN MergeRev(cursor + 1, d, a, b, t)
                         ELSE CheckpointRev(cursor + 1, d, result.state.text)
              IN  Extended(d, rev)
           /\ \A e \in Docs : e # d => DocRevs(e)' = DocRevs(e)
<1> DEFINE result == Converged(a, b, t, canonical[d])
<1>1. cursor \in Nat /\ cursor' = cursor + 1 /\ path[d] \in Paths
  BY DEF TypeOK, UpdateDocument, AppendEvent, Known
<1>2. PICK n : /\ BodyRevShaped(n) /\ n.seq = cursor + 1 /\ n.doc = d /\ AppendBody(n, path[d])
               /\ n = IF result.merge THEN MergeRev(cursor + 1, d, a, b, t)
                      ELSE CheckpointRev(cursor + 1, d, result.state.text)
  BY UpdateRev
<1>3. RevsGrow /\ Extended(d, n) /\ \A e \in Docs : e # d => DocRevs(e)' = DocRevs(e)
  <2>1. \A p \in Paths : AppendBody(n, p) /\ p = path[n.doc] => RevsGrow /\ Extended(n.doc, n) /\ \A e \in Docs : e # n.doc => DocRevs(e)' = DocRevs(e)
    BY <1>1, <1>2, AppendExtends
  <2> QED BY <1>1, <1>2, <2>1
<1>4. PathsGrow
  BY DEF PathsGrow, UpdateDocument
<1> QED BY <1>1, <1>2, <1>3, <1>4

LEMMA RestoreGrows ==
    ASSUME TypeOK, NEW d \in Docs, NEW r \in DocRevs(d), NEW p \in Paths, RestoreDocument(d, r, p)
    PROVE  /\ RevsGrow /\ PathsGrow /\ cursor \in Nat
           /\ Extended(d, CheckpointRev(cursor + 1, d, r.own))
           /\ \A e \in Docs : e # d => DocRevs(e)' = DocRevs(e)
<1>1. cursor \in Nat /\ cursor' = cursor + 1 /\ path \in [Docs -> Paths \cup {NoPath}]
  BY DEF TypeOK, RestoreDocument, AppendEvent
<1>2. PICK n : /\ n = CheckpointRev(cursor + 1, d, r.own)
               /\ BodyRevShaped(n) /\ n.seq = cursor + 1 /\ n.doc = d /\ AppendBody(n, p)
               /\ p = path'[n.doc]
  BY <1>1, CheckpointShaped DEF RestoreDocument
<1>3. RevsGrow /\ Extended(d, n) /\ \A e \in Docs : e # d => DocRevs(e)' = DocRevs(e)
  BY <1>1, <1>2, AppendExtends
<1>4. PathsGrow
  <2>1. path[d] # NoPath /\ \A x \in pathRevs' \ pathRevs : x.doc = d /\ x.seq = cursor + 1
    BY DEF RestoreDocument, Known, AppendPath
  <2> QED BY <1>1, <2>1, PlacesAssumption DEF PathsGrow, RestoreDocument
<1> QED BY <1>1, <1>2, <1>3, <1>4

\* A rewind only changes documents that were created.
LEMMA RewindGrows ==
    ASSUME TypeOK, HistoryAnchored, RevInv, NEW c \in Nat, RestoreWorkspace(c)
    PROVE  RevsGrow /\ PathsGrow
<1>1. RevsGrow
  BY RewindExtends
<1>2. \A d \in HistoryLive(c) : path[d] # NoPath
  BY HistoryHasText
<1>3. \A d \in live : path[d] # NoPath
  BY DEF TypeOK, Known
<1>4. ASSUME NEW d \in Docs
      PROVE  (path'[d] = NoPath <=> path[d] = NoPath) /\ (d \in Changed(c) => path[d] # NoPath)
  <2>1. path'[d] = RewoundPath(d, c)
    BY DEF RestoreWorkspace
  <2>2. d \in Changed(c) => d \in live \/ d \in HistoryLive(c)
    BY ChangedPlaces
  <2> QED BY <1>2, <1>3, <2>1, <2>2, RewoundPlace, PlacesAssumption
<1>5. \A r \in pathRevs' \ pathRevs : \E d \in Changed(c) : r.doc = d /\ r.seq = ChangeSeq(d, c)
  BY DEF RestoreWorkspace
<1>6. \A d \in Changed(c) : d \in Docs /\ cursor < ChangeSeq(d, c)
  BY ChangeSeqRange DEF TypeOK
<1>7. PathsGrow
  BY <1>4, <1>5, <1>6 DEF PathsGrow
<1> QED BY <1>1, <1>7

LEMMA InitRevs == Init => RevInv
  BY DEF Init, RevInv, DocRevs, Apart

LEMMA StepRevs == TypeOK /\ HistoryAnchored /\ RevInv /\ [Next]_vars => RevInv'
<1> SUFFICES ASSUME TypeOK, HistoryAnchored, RevInv, [Next]_vars PROVE RevInv'
  OBVIOUS
<1>0. TypeOK'
  BY StepTyped
<1>1. ASSUME NEW d \in Docs, NEW p \in Paths, NEW t, CreateDocument(d, p, t) PROVE RevInv'
  BY <1>0, <1>1, CreateGrows, RevStep
<1>2. ASSUME NEW d \in Docs, NEW a, NEW b, NEW t, UpdateDocument(d, a, b, t) PROVE RevInv'
  BY <1>0, <1>2, UpdateGrows, RevStep
<1>3. ASSUME NEW d \in Docs, NEW r \in DocRevs(d), NEW p \in Paths, RestoreDocument(d, r, p)
      PROVE  RevInv'
  BY <1>0, <1>3, RestoreGrows, RevStep
<1>4. ASSUME NEW c \in 0..cursor, RestoreWorkspace(c) PROVE RevInv'
  <2>1. c \in Nat
    BY DEF TypeOK
  <2> QED BY <1>0, <1>4, <2>1, RewindGrows, RevStep
<1>5. ASSUME NEW d \in Docs, DeleteDocument(d) PROVE RevInv'
  <2>1. RevsGrow
    BY <1>5 DEF RevsGrow, DeleteDocument, DocRevs
  <2>2. cursor \in Nat /\ path[d] # NoPath
    BY <1>5 DEF TypeOK, DeleteDocument, Known
  <2>3. PathsGrow
    BY <1>5, <2>2 DEF PathsGrow, DeleteDocument, AppendPath
  <2> QED BY <1>0, <2>1, <2>3, RevStep
<1>6. ASSUME NEW d \in Docs, NEW p \in Paths, MoveDocument(d, p) PROVE RevInv'
  <2>1. RevsGrow
    BY <1>6 DEF RevsGrow, MoveDocument, DocRevs
  <2>2. cursor \in Nat /\ path[d] # NoPath /\ path \in [Docs -> Paths \cup {NoPath}]
    BY <1>6 DEF TypeOK, MoveDocument, Known
  <2>3. PathsGrow
    BY <1>6, <2>2, PlacesAssumption DEF PathsGrow, MoveDocument, AppendPath
  <2> QED BY <1>0, <2>1, <2>3, RevStep
<1>7. CASE \/ \E ms \in SUBSET Mounts : Bootstrap(ms)
           \/ \E k \in Keys, policy \in Policies : SetPolicy(k, policy)
           \/ \E k \in Keys : ClearPolicy(k)
           \/ UNCHANGED vars
  BY <1>7 DEF Bootstrap, SetPolicy, ClearPolicy, vars, RevInv, DocRevs
<1> QED BY <1>1, <1>2, <1>3, <1>4, <1>5, <1>6, <1>7 DEF Next

\* However often the history is compacted, a document that was live when an
\* operation ended keeps a revision from then or before.
THEOREM VersionsKeepText == Spec => []EveryVersionHasText
<1>1. TypeOK /\ HistoryAnchored /\ RevInv => EveryVersionHasText
  BY HistoryHasText DEF EveryVersionHasText, TypeOK, ViewShaped
<1>2. Init => HistoryAnchored
  BY DEF Init, HistoryAnchored
<1> QED BY <1>1, <1>2, InitTyped, InitRevs, StepTyped, StepAnchored, StepRevs, PTL DEF Spec

-----------------------------------------------------------------------------
(* The copies of a body.  Texts and states are any sets that edits and      *)
(* merges do not lead out of and the absent values are not in.              *)

Closed(Texts, States) ==
    /\ Edits \subseteq Texts /\ Empty \in Texts /\ NoBody \notin Texts
    /\ NoState \notin States
    /\ \A t \in Texts : Checkpoint(t) \in States
    /\ \A s \in States : s.text \in Texts
    /\ \A s \in States, a \in Actors, b \in Bases, t \in Edits : ApplyUpdate(s, a, b, t) \in States
    /\ \A b \in Bases, t \in Texts, u \in Edits : Union(b, t, u) \in Texts

BodyInv(Texts, States) ==
    /\ BodiesAgree
    /\ \A d \in live : canonical[d] \in States
    /\ \A r \in bodyRevs : r.own \in Texts /\ r.replayed \in States

\* Compaction flattens states and keeps their texts.
LEMMA CompactClosed ==
    ASSUME NEW Texts, NEW States, Closed(Texts, States), NEW R, NEW policy, Shaped(R),
           \A r \in R : r.own \in Texts /\ r.replayed \in States
    PROVE  \A r \in Compact(R, policy) : r.own \in Texts /\ r.replayed \in States
<1>1. ASSUME NEW r \in R
      PROVE  AsCheckpoint(r).own \in Texts /\ AsCheckpoint(r).replayed \in States
  BY DEF AsCheckpoint, Shaped, BodyRevShaped, Closed
<1>2. CASE Cardinality(R) <= policy.revisions
  BY <1>2 DEF Compact
<1>3. CASE ~(Cardinality(R) <= policy.revisions)
  BY <1>1, <1>3 DEF Compact
<1> QED BY <1>2, <1>3

\* A step whose new revisions are closed keeps all of them closed.
LEMMA RevsClosed ==
    ASSUME NEW Texts, NEW States, Closed(Texts, States), TypeOK, TypeOK', HistoryAnchored,
           BodyInv(Texts, States),
           \A d \in Docs : \/ DocRevs(d)' = DocRevs(d)
                           \/ \E n : Extended(d, n) /\ n.own \in Texts /\ n.replayed \in States
    PROVE  \A r \in bodyRevs' : r.own \in Texts /\ r.replayed \in States
<1>1. ASSUME NEW d \in Docs
      PROVE  \A r \in DocRevs(d)' : r.own \in Texts /\ r.replayed \in States
  <2>1. \A r \in DocRevs(d) : r.own \in Texts /\ r.replayed \in States
    BY DEF BodyInv, DocRevs
  <2>2. ASSUME NEW n, Extended(d, n), n.own \in Texts, n.replayed \in States
        PROVE  \A r \in DocRevs(d)' : r.own \in Texts /\ r.replayed \in States
    <3> DEFINE R == DocRevs(d) \cup {n}
    <3>1. Shaped(R) /\ \A r \in R : r.own \in Texts /\ r.replayed \in States
      BY <2>1, <2>2, DocRevsShaped DEF Shaped, Extended
    <3>2. DocRevs(d)' = R \/ \E policy : DocRevs(d)' = Compact(R, policy)
      BY <2>2 DEF Extended
    <3> HIDE DEF R
    <3> QED BY <3>1, <3>2, CompactClosed
  <2> QED BY <2>1, <2>2
<1>2. \A r \in bodyRevs' : r.doc \in Docs /\ r \in DocRevs(r.doc)'
  BY DEF TypeOK, BodyRevShaped, DocRevs
<1> QED BY <1>1, <1>2

\* A body is written everywhere at once.
LEMMA WriteAgrees ==
    ASSUME NEW Texts, NEW States, TypeOK, BodyInv(Texts, States), NEW d \in Docs,
           NEW state \in States, NoState \notin States, WriteBody(d, state), live' = live \cup {d}
    PROVE  BodiesAgree' /\ \A e \in live' : canonical'[e] \in States
<1>1. ASSUME NEW e \in Docs \ {d}
      PROVE  bodies'[e] = bodies[e] /\ canonical'[e] = canonical[e] /\ (e \in live' <=> e \in live)
  BY DEF WriteBody, TypeOK
<1>2. bodies'[d] = state.text /\ canonical'[d] = state /\ d \in live'
  BY DEF WriteBody, TypeOK
<1>3. live \subseteq Docs
  BY DEF TypeOK, Known
<1> QED BY <1>1, <1>2, <1>3 DEF BodyInv, BodiesAgree

LEMMA CreateAgrees ==
    ASSUME NEW Texts, NEW States, Closed(Texts, States), TypeOK, TypeOK', HistoryAnchored,
           BodyInv(Texts, States), NEW d \in Docs, NEW p \in Paths, NEW t \in Edits,
           CreateDocument(d, p, t)
    PROVE  BodyInv(Texts, States)'
<1>1. t \in Texts /\ Checkpoint(t) \in States /\ NoState \notin States
  BY DEF Closed
<1>2. BodiesAgree' /\ \A e \in live' : canonical'[e] \in States
  BY <1>1, WriteAgrees DEF CreateDocument
<1>3. \A r \in bodyRevs' : r.own \in Texts /\ r.replayed \in States
  <2>1. PICK n : n = CheckpointRev(cursor + 1, d, t) /\ Extended(d, n)
                 /\ \A e \in Docs : e # d => DocRevs(e)' = DocRevs(e)
    BY CreateGrows
  <2>2. n.own \in Texts /\ n.replayed \in States
    BY <1>1, <2>1 DEF CheckpointRev
  <2> QED BY <2>1, <2>2, RevsClosed
<1> QED BY <1>2, <1>3 DEF BodyInv

\* What an update converges to, and what its revision replays to.
LEMMA ConvergedClosed ==
    ASSUME NEW Texts, NEW States, Closed(Texts, States), NEW a \in Actors, NEW b \in Bases,
           NEW t \in Edits, NEW state \in States
    PROVE  Converged(a, b, t, state).state \in States
<1>1. /\ state.text \in Texts /\ t \in Texts /\ ApplyUpdate(state, a, b, t) \in States
      /\ Checkpoint(t) \in States /\ Checkpoint(Union(b, state.text, t)) \in States
  BY DEF Closed
<1> QED BY <1>1 DEF Converged

LEMMA UpdateAgrees ==
    ASSUME NEW Texts, NEW States, Closed(Texts, States), TypeOK, TypeOK', HistoryAnchored, RevInv,
           BodyInv(Texts, States), NEW d \in Docs, NEW a \in Actors, NEW b \in Bases,
           NEW t \in Edits, UpdateDocument(d, a, b, t)
    PROVE  BodyInv(Texts, States)'
<1> DEFINE result == Converged(a, b, t, canonical[d])
<1>1. d \in live /\ canonical[d] \in States /\ path[d] # NoPath /\ NoState \notin States
  BY DEF UpdateDocument, BodyInv, TypeOK, Known, Closed
<1>2. result.state \in States /\ result.state.text \in Texts /\ Checkpoint(result.state.text) \in States
  BY <1>1, ConvergedClosed DEF Closed
<1>3. BodiesAgree' /\ \A e \in live' : canonical'[e] \in States
  <2>1. live' = live \cup {d}
    BY <1>1 DEF UpdateDocument
  <2>2. PICK s \in States : s = result.state /\ WriteBody(d, s)
    BY <1>2 DEF UpdateDocument
  <2> QED BY <1>1, <2>1, <2>2, WriteAgrees
<1>4. HeldState(d) \in States
  <2>1. PICK r \in DocRevs(d) : r.seq \in 1..cursor
    BY <1>1, DocRevsShaped DEF RevInv
  <2>2. LatestBody(d, cursor) # {} /\ LatestBody(d, cursor) \subseteq bodyRevs
    <3>1. Shaped(DocRevs(d)) /\ cursor \in Nat /\ r.seq <= cursor
      BY <2>1, DocRevsShaped DEF TypeOK
    <3>2. Newest(DocRevs(d), cursor) # {}
      BY <2>1, <3>1, NewestFound
    <3>3. Newest(DocRevs(d), cursor) \subseteq bodyRevs
      BY DEF Newest, DocRevs
    <3> QED BY <3>2, <3>3 DEF LatestBody
  <2>3. (CHOOSE x \in LatestBody(d, cursor) : TRUE) \in bodyRevs
    BY <2>2
  <2> QED BY <2>3 DEF HeldState, BodyInv
<1>5. \A r \in bodyRevs' : r.own \in Texts /\ r.replayed \in States
  <2>1. PICK n : /\ n = IF result.merge THEN MergeRev(cursor + 1, d, a, b, t)
                        ELSE CheckpointRev(cursor + 1, d, result.state.text)
                 /\ Extended(d, n) /\ \A e \in Docs : e # d => DocRevs(e)' = DocRevs(e)
    BY UpdateGrows
  <2>2. n.own \in Texts /\ n.replayed \in States
    <3>1. CASE result.merge
      BY <1>4, <2>1, <3>1 DEF MergeRev, Closed
    <3>2. CASE ~result.merge
      BY <1>2, <2>1, <3>2 DEF CheckpointRev
    <3> QED BY <3>1, <3>2
  <2> QED BY <2>1, <2>2, RevsClosed
<1> QED BY <1>3, <1>5 DEF BodyInv

LEMMA RestoreAgrees ==
    ASSUME NEW Texts, NEW States, Closed(Texts, States), TypeOK, TypeOK', HistoryAnchored,
           BodyInv(Texts, States), NEW d \in Docs, NEW r \in DocRevs(d), NEW p \in Paths,
           RestoreDocument(d, r, p)
    PROVE  BodyInv(Texts, States)'
<1>1. r.own \in Texts /\ r.replayed \in States /\ Checkpoint(r.own) \in States /\ NoState \notin States
  BY DEF BodyInv, DocRevs, Closed
<1>2. BodiesAgree' /\ \A e \in live' : canonical'[e] \in States
  BY <1>1, WriteAgrees DEF RestoreDocument
<1>3. \A x \in bodyRevs' : x.own \in Texts /\ x.replayed \in States
  <2>1. PICK n : n = CheckpointRev(cursor + 1, d, r.own) /\ Extended(d, n)
                 /\ \A e \in Docs : e # d => DocRevs(e)' = DocRevs(e)
    BY RestoreGrows
  <2>2. n.own \in Texts /\ n.replayed \in States
    BY <1>1, <2>1 DEF CheckpointRev
  <2> QED BY <2>1, <2>2, RevsClosed
<1> QED BY <1>2, <1>3 DEF BodyInv

\* The history shows a text, never the absence of one, for what it shows live.
LEMMA HistoryBodyClosed ==
    ASSUME NEW Texts, NEW States, Closed(Texts, States), TypeOK, HistoryAnchored, RevInv,
           BodyInv(Texts, States), NEW c \in Nat, NEW d \in Docs
    PROVE  /\ d \in HistoryLive(c) => HistoryBody(d, c) \in Texts /\ HistoryBody(d, c) # NoBody
           /\ d \notin HistoryLive(c) => HistoryBody(d, c) = NoBody
<1>1. CASE d \in HistoryLive(c)
  <2>1. LatestBody(d, c) # {}
    BY <1>1, HistoryHasText
  <2>2. (CHOOSE x \in LatestBody(d, c) : TRUE) \in bodyRevs
    BY <2>1 DEF LatestBody, Newest, DocRevs
  <2>3. HistoryBody(d, c) \in Texts
    BY <1>1, <2>1, <2>2 DEF HistoryBody, BodyInv, Closed
  <2> QED BY <1>1, <2>3 DEF Closed
<1>2. CASE d \notin HistoryLive(c)
  BY <1>2 DEF HistoryBody
<1> QED BY <1>1, <1>2

LEMMA RewindAgrees ==
    ASSUME NEW Texts, NEW States, Closed(Texts, States), TypeOK, TypeOK', HistoryAnchored, RevInv,
           BodyInv(Texts, States), NEW c \in Nat, RestoreWorkspace(c)
    PROVE  BodyInv(Texts, States)'
<1>1. ASSUME NEW d \in HistoryLive(c)
      PROVE  /\ d \in Docs /\ HistoryBody(d, c) \in Texts /\ bodies'[d] = HistoryBody(d, c)
             /\ canonical'[d] = Checkpoint(HistoryBody(d, c))
  <2>1. d \in Docs
    BY DEF HistoryLive
  <2>2. HistoryBody(d, c) \in Texts /\ HistoryBody(d, c) # NoBody
    BY <2>1, HistoryBodyClosed
  <2> QED BY <2>1, <2>2 DEF RestoreWorkspace
<1>2. ASSUME NEW d \in Docs, d \notin HistoryLive(c) PROVE bodies'[d] = NoBody
  BY <1>2, HistoryBodyClosed DEF RestoreWorkspace
<1>3. live' = HistoryLive(c) /\ \A t : Checkpoint(t).text = t
  BY DEF RestoreWorkspace, Checkpoint
<1>4. \A d \in live' : canonical'[d] \in States
  BY <1>1, <1>3 DEF Closed
<1>5. BodiesAgree'
  BY <1>1, <1>2, <1>3, <1>4 DEF BodiesAgree, Closed
<1>6. \A r \in bodyRevs' : r.own \in Texts /\ r.replayed \in States
  <2>1. ASSUME NEW d \in Rewritten(c)
        PROVE  \E n : Extended(d, n) /\ n.own \in Texts /\ n.replayed \in States
    <3>1. d \in Docs /\ d \in HistoryLive(c)
      BY <2>1, RewindExtends DEF Rewritten
    <3>2. Comparable(HistoryBody(d, c)) \in Texts
      BY <1>1, <3>1 DEF Comparable, Closed
    <3>3. /\ RewoundRev(d, c).own = Comparable(HistoryBody(d, c))
          /\ RewoundRev(d, c).replayed = Checkpoint(Comparable(HistoryBody(d, c)))
      BY DEF RewoundRev, CheckpointRev
    <3>4. RewoundRev(d, c).own \in Texts /\ RewoundRev(d, c).replayed \in States
      BY <3>2, <3>3 DEF Closed
    <3> QED BY <2>1, <3>4, RewindExtends
  <2> QED BY <2>1, RewindExtends, RevsClosed
<1> QED BY <1>4, <1>5, <1>6 DEF BodyInv

LEMMA InitAgrees ==
    ASSUME NEW Texts, NEW States, Init PROVE BodyInv(Texts, States)
  BY DEF Init, BodyInv, BodiesAgree

LEMMA StepAgrees ==
    ASSUME NEW Texts, NEW States, Closed(Texts, States), TypeOK, HistoryAnchored, RevInv,
           BodyInv(Texts, States), [Next]_vars
    PROVE  BodyInv(Texts, States)'
<1>0. TypeOK'
  BY StepTyped
<1>1. ASSUME NEW c \in 0..cursor, RestoreWorkspace(c) PROVE BodyInv(Texts, States)'
  <2>1. c \in Nat
    BY DEF TypeOK
  <2> QED BY <1>0, <1>1, <2>1, RewindAgrees
<1>2. ASSUME NEW d \in Docs, DeleteDocument(d) PROVE BodyInv(Texts, States)'
  <2>1. \A e \in Docs : bodies'[e] = IF e = d THEN NoBody ELSE bodies[e]
    BY <1>2 DEF DeleteDocument, TypeOK
  <2> QED BY <1>2, <2>1 DEF DeleteDocument, BodyInv, BodiesAgree
<1>3. ASSUME NEW d \in Docs, NEW p \in Paths, MoveDocument(d, p) PROVE BodyInv(Texts, States)'
  BY <1>3 DEF MoveDocument, BodyInv, BodiesAgree
<1>4. CASE \/ \E ms \in SUBSET Mounts : Bootstrap(ms)
           \/ \E k \in Keys, policy \in Policies : SetPolicy(k, policy)
           \/ \E k \in Keys : ClearPolicy(k)
           \/ UNCHANGED vars
  BY <1>4 DEF Bootstrap, SetPolicy, ClearPolicy, vars, BodyInv, BodiesAgree
<1> QED BY <1>0, <1>1, <1>2, <1>3, <1>4, CreateAgrees, UpdateAgrees, RestoreAgrees DEF Next

\* What a live document's snapshot reads as is what its canonical row, which
\* updates are merged onto, reads as: also after a rewind to a cursor inside
\* another rewind, and after one that revives empty documents.
THEOREM BodiesStayAgreed ==
    ASSUME NEW Texts, NEW States, Closed(Texts, States)
    PROVE  Spec => []BodiesAgree
<1> DEFINE Inv == TypeOK /\ HistoryAnchored /\ RevInv /\ BodyInv(Texts, States)
<1>1. Init => Inv
  <2>1. Init => HistoryAnchored
    BY DEF Init, HistoryAnchored
  <2> QED BY <2>1, InitTyped, InitRevs, InitAgrees
<1>2. Inv /\ [Next]_vars => Inv'
  BY StepTyped, StepAnchored, StepRevs, StepAgrees
<1>3. Inv => BodiesAgree
  BY DEF BodyInv
<1> QED BY <1>1, <1>2, <1>3, PTL DEF Spec

-----------------------------------------------------------------------------
(* The newest retained revision.                                           *)

\* The newest revision of d replays to text t.
ReadsAs(d, t) ==
    \E r \in DocRevs(d) : (\A s \in DocRevs(d) : s.seq <= r.seq) /\ r.replayed.text = t

CurrentInv == \A d \in live \ blurred : ReadsAs(d, bodies[d])

LEMMA ExtendedReads ==
    ASSUME TypeOK, HistoryAnchored, RevInv, NEW d \in Docs, NEW n, Extended(d, n)
    PROVE  ReadsAs(d, n.replayed.text)'
<1>1. \A k \in DocRevs(d)' : k.seq <= n.seq
  BY ExtendedRevs DEF RevInv
<1>2. PICK k \in DocRevs(d)' : k.seq = n.seq /\ k.replayed.text = n.replayed.text
  BY ExtendedRevs DEF RevInv
<1> QED BY <1>1, <1>2 DEF ReadsAs

\* Reading the history back at the cursor finds it.
LEMMA NewestReads ==
    ASSUME TypeOK, HistoryAnchored, RevInv, NEW d \in Docs, NEW t, ReadsAs(d, t),
           d \in HistoryLive(cursor)
    PROVE  HistoryBody(d, cursor) = t
<1>1. PICK r \in DocRevs(d) : (\A s \in DocRevs(d) : s.seq <= r.seq) /\ r.replayed.text = t
  BY DEF ReadsAs
<1>2. /\ \A s \in DocRevs(d) : s.seq \in Nat /\ s.seq <= cursor /\ s.doc = d
      /\ Apart(DocRevs(d))
  BY DocRevsShaped DEF RevInv, TypeOK
<1>3. LatestBody(d, cursor) = {r}
  BY <1>1, <1>2 DEF LatestBody, Newest, Apart
<1> QED BY <1>1, <1>3 DEF HistoryBody

\* Only documents whose history is not extended rest on what it read before.
LEMMA UnmovedReads ==
    ASSUME NEW d, NEW t, ReadsAs(d, t), DocRevs(d)' = DocRevs(d)
    PROVE  ReadsAs(d, t)'
  BY DEF ReadsAs

LEMMA UpdateCurrent ==
    ASSUME TypeOK, HistoryAnchored, RevInv, CurrentInv, NEW d \in Docs, NEW a, NEW b, NEW t,
           UpdateDocument(d, a, b, t)
    PROVE  CurrentInv'
<1> DEFINE result == Converged(a, b, t, canonical[d])
<1>1. PICK n : /\ n = IF result.merge THEN MergeRev(cursor + 1, d, a, b, t)
                      ELSE CheckpointRev(cursor + 1, d, result.state.text)
               /\ Extended(d, n) /\ \A e \in Docs : e # d => DocRevs(e)' = DocRevs(e)
  BY UpdateGrows
<1>2. ReadsAs(d, n.replayed.text)'
  BY <1>1, ExtendedReads
<1>3. bodies' = [bodies EXCEPT ![d] = result.state.text] /\ live' = live /\ live \subseteq Docs
  BY DEF UpdateDocument, WriteBody, TypeOK, Known
<1>4. ASSUME d \notin blurred' PROVE n.replayed.text = bodies'[d]
  <2>1. bodies'[d] = result.state.text
    BY <1>3 DEF TypeOK
  <2>2. CASE result.merge
    <3>1. HeldState(d) = canonical[d]
      BY <1>4, <2>2 DEF UpdateDocument
    <3>2. result.state = ApplyUpdate(canonical[d], a, b, t)
      BY <2>2 DEF Converged
    <3>3. n.replayed = ApplyUpdate(HeldState(d), a, b, t)
      BY <1>1, <2>2 DEF MergeRev
    <3> QED BY <2>1, <3>1, <3>2, <3>3
  <2>3. CASE ~result.merge
    BY <1>1, <2>1, <2>3 DEF CheckpointRev, Checkpoint
  <2> QED BY <2>2, <2>3
<1>5. ASSUME NEW e \in live' \ blurred', e # d PROVE ReadsAs(e, bodies[e])'
  <2>1. e \in live \ blurred /\ e \in Docs /\ bodies'[e] = bodies[e] /\ DocRevs(e)' = DocRevs(e)
    BY <1>1, <1>3, <1>5 DEF UpdateDocument, TypeOK
  <2> QED BY <2>1, UnmovedReads DEF CurrentInv
<1> QED BY <1>2, <1>4, <1>5 DEF CurrentInv

\* A document created or restored reads as the text it was given.
LEMMA PlacedCurrent ==
    ASSUME TypeOK, HistoryAnchored, RevInv, CurrentInv, NEW d \in Docs, NEW text, NEW state,
           state.text = text, WriteBody(d, state), live' = live \cup {d},
           blurred' = blurred \/ blurred' = blurred \ {d},
           Extended(d, CheckpointRev(cursor + 1, d, text)),
           \A e \in Docs : e # d => DocRevs(e)' = DocRevs(e)
    PROVE  CurrentInv'
<1>1. CheckpointRev(cursor + 1, d, text).replayed.text = text
  BY DEF CheckpointRev, Checkpoint
<1>2. ReadsAs(d, text)'
  BY <1>1, ExtendedReads
<1>3. bodies'[d] = text /\ \A e \in Docs : e # d => bodies'[e] = bodies[e]
  BY DEF WriteBody, TypeOK
<1>4. ASSUME NEW e \in live' \ blurred', e # d PROVE ReadsAs(e, bodies[e])'
  <2>1. e \in live \ blurred /\ e \in Docs
    BY <1>4 DEF TypeOK, Known
  <2> QED BY <1>3, <1>4, <2>1, UnmovedReads DEF CurrentInv
<1> QED BY <1>2, <1>3, <1>4 DEF CurrentInv

\* A document whose revisions a rewind leaves alone keeps the text it has.
LEMMA UnwrittenKept ==
    ASSUME NEW Texts, NEW States, Closed(Texts, States), TypeOK, HistoryAnchored, RevInv,
           BodyInv(Texts, States), NEW c \in Nat, NEW d \in live, d \in HistoryLive(c),
           ~BodyChanged(d, c)
    PROVE  HistoryBody(d, c) = bodies[d]
<1>1. d \in Docs /\ bodies[d] \in Texts
  BY DEF TypeOK, Known, BodyInv, BodiesAgree, Closed
<1>2. HistoryBody(d, c) # NoBody /\ bodies[d] # NoBody
  BY <1>1, HistoryBodyClosed DEF Closed
<1> QED BY <1>2 DEF BodyChanged, Comparable

LEMMA RewindCurrent ==
    ASSUME NEW Texts, NEW States, Closed(Texts, States), ~ReviveEmpty, TypeOK, HistoryAnchored,
           RevInv, BodyInv(Texts, States), CurrentInv, NEW c \in Nat, RestoreWorkspace(c)
    PROVE  CurrentInv'
<1>1. ASSUME NEW d \in live' \ blurred' PROVE ReadsAs(d, bodies[d])'
  <2>1. d \in HistoryLive(c) /\ d \in Docs /\ bodies'[d] = HistoryBody(d, c)
        /\ (d \in blurred => d \in Rewritten(c))
    BY DEF RestoreWorkspace, HistoryLive
  <2>2. HistoryBody(d, c) # NoBody
    BY <2>1, HistoryBodyClosed
  <2>3. CASE d \in Rewritten(c)
    <3>1. RewoundRev(d, c).replayed.text = HistoryBody(d, c)
      BY <2>2 DEF RewoundRev, CheckpointRev, Checkpoint, Comparable
    <3> QED BY <2>1, <2>3, <3>1, RewindExtends, ExtendedReads
  <2>4. CASE d \notin Rewritten(c)
    <3>1. d \in live
      <4>1. d \notin live => HistoryBody(d, c) # Empty
        BY <2>1 DEF RestoreWorkspace
      <4>2. d \notin live => bodies[d] = NoBody
        BY <2>1 DEF BodyInv, BodiesAgree
      <4>3. d \notin live => d \in Changed(c)
        BY <2>1, ChangedPlaces
      <4> QED BY <2>1, <2>2, <2>4, <4>1, <4>2, <4>3 DEF Rewritten, BodyChanged, Comparable
    <3>2. ~BodyChanged(d, c)
      <4>1. d \notin Changed(c) \/ ~BodyChanged(d, c)
        BY <2>1, <2>4 DEF Rewritten
      <4> QED BY <2>1, <3>1, <4>1 DEF Changed, ChangeKind
    <3>3. HistoryBody(d, c) = bodies[d] /\ ReadsAs(d, bodies[d])
      BY <2>1, <2>4, <3>1, <3>2, UnwrittenKept DEF CurrentInv
    <3> QED BY <2>1, <2>4, <3>3, RewindExtends, UnmovedReads
  <2> QED BY <2>3, <2>4
<1> QED BY <1>1 DEF CurrentInv

LEMMA StepCurrent ==
    ASSUME NEW Texts, NEW States, Closed(Texts, States), ~ReviveEmpty, TypeOK, HistoryAnchored,
           RevInv, BodyInv(Texts, States), CurrentInv, [Next]_vars
    PROVE  CurrentInv'
<1>1. ASSUME NEW d \in Docs, NEW p \in Paths, NEW t \in Edits, CreateDocument(d, p, t)
      PROVE  CurrentInv'
  <2>1. Checkpoint(t).text = t
    BY DEF Checkpoint
  <2> QED BY <1>1, <2>1, CreateGrows, PlacedCurrent DEF CreateDocument
<1>2. ASSUME NEW d \in Docs, NEW r \in DocRevs(d), NEW p \in Paths, RestoreDocument(d, r, p)
      PROVE  CurrentInv'
  <2>1. PICK target : target.text = r.own /\ WriteBody(d, target)
    BY <1>2 DEF RestoreDocument, Checkpoint
  <2> QED BY <1>2, <2>1, RestoreGrows, PlacedCurrent DEF RestoreDocument
<1>3. ASSUME NEW d \in Docs, DeleteDocument(d) PROVE CurrentInv'
  <2>1. \A e \in live' : e \in live /\ bodies'[e] = bodies[e]
    BY <1>3 DEF DeleteDocument, TypeOK, Known
  <2> QED BY <1>3, <2>1 DEF DeleteDocument, CurrentInv, ReadsAs, DocRevs
<1>4. ASSUME NEW c \in 0..cursor, RestoreWorkspace(c) PROVE CurrentInv'
  <2>1. c \in Nat
    BY DEF TypeOK
  <2> QED BY <1>4, <2>1, RewindCurrent
<1>5. CASE \/ \E d \in Docs, p \in Paths : MoveDocument(d, p)
           \/ \E ms \in SUBSET Mounts : Bootstrap(ms)
           \/ \E k \in Keys, policy \in Policies : SetPolicy(k, policy)
           \/ \E k \in Keys : ClearPolicy(k)
           \/ UNCHANGED vars
  BY <1>5 DEF MoveDocument, Bootstrap, SetPolicy, ClearPolicy, vars, CurrentInv, ReadsAs, DocRevs
<1> QED BY <1>1, <1>2, <1>3, <1>4, <1>5, UpdateCurrent DEF Next

\* Everything the bodies of a store rest on.
StoreInv(Texts, States) ==
    /\ PathHistoryInv /\ HistoryAnchored /\ RevInv
    /\ BodyInv(Texts, States)
    /\ CurrentInv

LEMMA StoreInvInductive ==
    ASSUME NEW Texts, NEW States, Closed(Texts, States), ~AnyCursor, ~ReviveEmpty
    PROVE  /\ Init => StoreInv(Texts, States)
           /\ StoreInv(Texts, States) /\ [Next]_vars => StoreInv(Texts, States)'
<1>1. Init => HistoryAnchored /\ CurrentInv
  BY DEF Init, HistoryAnchored, CurrentInv
<1>2. Init => StoreInv(Texts, States)
  BY <1>1, InitHistory, InitRevs, InitAgrees DEF StoreInv
<1>3. PathHistoryInv => TypeOK
  BY DEF PathHistoryInv
<1>4. StoreInv(Texts, States) /\ [Next]_vars => StoreInv(Texts, States)'
  BY <1>3, StepHistory, StepAnchored, StepRevs, StepAgrees, StepCurrent DEF StoreInv
<1> QED BY <1>2, <1>4

LEMMA StoreReads ==
    ASSUME NEW Texts, NEW States, StoreInv(Texts, States)
    PROVE  NewestRevisionIsCurrent
<1>1. TypeOK /\ HistoryPaths(cursor) = LivePaths
  BY DEF StoreInv, PathHistoryInv, HistoryIsCurrent
<1>2. \A d \in live : d \in Docs /\ d \in HistoryLive(cursor)
  BY <1>1 DEF TypeOK, Known, HistoryLive, LivePaths
<1> QED BY <1>1, <1>2, NewestReads DEF StoreInv, CurrentInv, NewestRevisionIsCurrent

\* However the retained history of a live document was compacted, flattened,
\* merged into and rewound, its newest revision replays to the text the
\* document has: unless an edit was merged onto a flattened state, and while
\* no rewind revives a document with an empty text.
THEOREM NewestStaysCurrent ==
    ASSUME NEW Texts, NEW States, Closed(Texts, States), ~AnyCursor, ~ReviveEmpty
    PROVE  Spec => []NewestRevisionIsCurrent
<1>1. StoreInv(Texts, States) => NewestRevisionIsCurrent
  BY StoreReads
<1> QED BY <1>1, StoreInvInductive, PTL DEF Spec

-----------------------------------------------------------------------------
(* Every text remembered, while no document has more revisions than its    *)
(* policy keeps.                                                           *)

Roomy == \A policy \in Policies \cup {DefaultPolicy} : MaxCursor <= policy.revisions

\* Then a revision joins the others and none goes.
LEMMA RoomyExtends ==
    ASSUME TypeOK, HistoryAnchored, RevInv, Roomy, cursor < MaxCursor, NEW d \in Docs, NEW n,
           Extended(d, n)
    PROVE  DocRevs(d)' = DocRevs(d) \cup {n}
<1> DEFINE R == DocRevs(d) \cup {n}
<1>1. IsFiniteSet(DocRevs(d)) /\ Cardinality(DocRevs(d)) <= cursor /\ Cardinality(DocRevs(d)) \in Nat
  BY DocRevsFinite, FS_CardinalityType DEF RevInv
<1>2. Cardinality(R) <= cursor + 1 /\ Cardinality(R) \in Nat /\ cursor \in Nat
  <2>1. cursor \in Nat
    BY DEF TypeOK
  <2>2. \/ n \in DocRevs(d) /\ Cardinality(R) = Cardinality(DocRevs(d))
        \/ Cardinality(R) = Cardinality(DocRevs(d)) + 1
    BY <1>1, FS_AddElement
  <2> QED BY <1>1, <2>1, <2>2
<1>3. ASSUME NEW p \in Paths PROVE Cardinality(R) <= PolicyFor(p).revisions
  <2>1. PolicyFor(p) \in Policies \cup {DefaultPolicy} /\ PolicyFor(p).revisions \in Nat
    BY PolicyKnown, PolicyPositive DEF Policy
  <2>2. MaxCursor <= PolicyFor(p).revisions /\ MaxCursor \in Nat
    BY <2>1, PlacesAssumption DEF Roomy
  <2> HIDE DEF R
  <2> QED BY <1>2, <2>1, <2>2
<1>4. \A p \in Paths : Compact(R, PolicyFor(p)) = R
  <2> HIDE DEF R
  <2> QED BY <1>3 DEF Compact
<1> QED BY <1>4 DEF Extended

\* What a body read as at c it reads as after revisions numbered past c.
LEMMA BodyUnmoved ==
    ASSUME TypeOK, HistoryAnchored, RevInv, Roomy, RevsGrow, cursor < MaxCursor,
           NEW c \in Nat, c <= cursor, NEW d \in Docs
    PROVE  LatestBody(d, c)' = LatestBody(d, c)
<1>1. CASE DocRevs(d)' = DocRevs(d)
  BY <1>1 DEF LatestBody
<1>2. ASSUME NEW n, Extended(d, n) PROVE LatestBody(d, c)' = LatestBody(d, c)
  <2>1. n.seq \in Nat /\ c < n.seq
    BY <1>2 DEF Extended, BodyRevShaped, TypeOK
  <2>2. DocRevs(d)' = DocRevs(d) \cup {n}
    BY <1>2, RoomyExtends
  <2>3. Newest(DocRevs(d) \cup {n}, c) = Newest(DocRevs(d), c)
    <3>1. \A r \in {n} : r.seq \in Nat /\ c < r.seq
      BY <2>1
    <3>2. \A R, N : (\A r \in N : r.seq \in Nat /\ c < r.seq) => Newest(R \cup N, c) = Newest(R, c)
      BY ONLY NewestUnmoved, c \in Nat, Zenon
    <3> QED BY <3>1, <3>2
  <2> QED BY <2>2, <2>3 DEF LatestBody
<1> QED BY <1>1, <1>2 DEF RevsGrow

\* Which revisions each step adds.
LEMMA StepGrows ==
    ASSUME TypeOK, HistoryAnchored, RevInv, [Next]_vars
    PROVE  RevsGrow
<1>1. ASSUME NEW c \in 0..cursor, RestoreWorkspace(c) PROVE RevsGrow
  BY <1>1, RewindExtends
<1>2. CASE \/ \E d \in Docs : DeleteDocument(d)
           \/ \E d \in Docs, p \in Paths : MoveDocument(d, p)
           \/ \E ms \in SUBSET Mounts : Bootstrap(ms)
           \/ \E k \in Keys, policy \in Policies : SetPolicy(k, policy)
           \/ \E k \in Keys : ClearPolicy(k)
           \/ UNCHANGED vars
  BY <1>2 DEF DeleteDocument, MoveDocument, Bootstrap, SetPolicy, ClearPolicy, vars, RevsGrow, DocRevs
<1> QED BY <1>1, <1>2, CreateGrows, UpdateGrows, RestoreGrows DEF Next

\* An operation ends with its view remembered; the others end none.
LEMMA StepRemembers ==
    ASSUME [Next]_vars
    PROVE  \/ Remember /\ cursor < MaxCursor
           \/ past' = past /\ cursor' = cursor /\ bodyRevs' = bodyRevs /\ pathRevs' = pathRevs
<1>1. CASE \/ \E d \in Docs, p \in Paths, t \in Edits : CreateDocument(d, p, t)
           \/ \E d \in Docs, a \in Actors, b \in Bases, t \in Edits : UpdateDocument(d, a, b, t)
           \/ \E d \in Docs : DeleteDocument(d)
           \/ \E d \in Docs, p \in Paths : MoveDocument(d, p)
           \/ \E d \in Docs : \E r \in DocRevs(d), p \in Paths : RestoreDocument(d, r, p)
           \/ \E c \in 0..cursor : RestoreWorkspace(c)
  <2>1. \A d \in Docs, p \in Paths, t \in Edits : CreateDocument(d, p, t) => Remember /\ Open
    BY DEF CreateDocument
  <2>2. \A d \in Docs, a \in Actors, b \in Bases, t \in Edits :
          UpdateDocument(d, a, b, t) => Remember /\ Open
    BY DEF UpdateDocument
  <2>3. \A d \in Docs, p \in Paths : MoveDocument(d, p) => Remember /\ Open
    BY DEF MoveDocument
  <2>4. \A d \in Docs : DeleteDocument(d) => Remember /\ Open
    BY DEF DeleteDocument
  <2>5. \A d \in Docs : \A r \in DocRevs(d), p \in Paths : RestoreDocument(d, r, p) => Remember /\ Open
    BY DEF RestoreDocument
  <2>6. \A c \in 0..cursor : RestoreWorkspace(c) => Remember /\ Open
    BY DEF RestoreWorkspace
  <2> QED BY <1>1, <2>1, <2>2, <2>3, <2>4, <2>5, <2>6 DEF Open
<1>2. CASE \/ \E ms \in SUBSET Mounts : Bootstrap(ms)
           \/ \E k \in Keys, policy \in Policies : SetPolicy(k, policy)
           \/ \E k \in Keys : ClearPolicy(k)
           \/ UNCHANGED vars
  BY <1>2 DEF Bootstrap, SetPolicy, ClearPolicy, vars
<1> QED BY <1>1, <1>2 DEF Next

LEMMA StepRemembered ==
    ASSUME NEW Texts, NEW States, Closed(Texts, States), Roomy,
           StoreInv(Texts, States), StoreInv(Texts, States)', BodiesRemembered, [Next]_vars
    PROVE  BodiesRemembered'
<1>1. TypeOK /\ HistoryAnchored /\ RevInv /\ PathsRemembered /\ TypeOK' /\ PathsRemembered'
      /\ \A v \in past : v.cursor <= cursor
  BY DEF StoreInv, PathHistoryInv
<1>2. ASSUME NEW v \in past, v \in past',
             \A d \in Docs : LatestBody(d, v.cursor)' = LatestBody(d, v.cursor)
      PROVE  \A d \in Docs \ v.blurred : HistoryBody(d, v.cursor)' = v.bodies[d]
  <2>0. PICK c : c = v.cursor
    OBVIOUS
  <2>1. HistoryPaths(c)' = HistoryPaths(c) /\ \A d \in Docs : LatestBody(d, c)' = LatestBody(d, c)
    BY <1>1, <1>2, <2>0 DEF PathsRemembered, HistoryPaths, LatestPaths, LatestBody, DocRevs
  <2>2. ASSUME NEW d \in Docs PROVE HistoryBody(d, c)' = HistoryBody(d, c)
    <3>1. HistoryLive(c)' = HistoryLive(c)
      BY <2>1 DEF HistoryLive
    <3>2. LatestBody(d, c)' = LatestBody(d, c)
      BY <2>1
    <3>3. (CHOOSE r \in LatestBody(d, c)' : TRUE) = (CHOOSE r \in LatestBody(d, c) : TRUE)
      BY <3>2, Zenon
    <3> QED BY <3>1, <3>2, <3>3 DEF HistoryBody
  <2>3. \A d \in Docs \ v.blurred : HistoryBody(d, c) = v.bodies[d]
    BY <1>2, <2>0 DEF BodiesRemembered
  <2> QED BY <2>0, <2>2, <2>3 DEF HistoryBody, HistoryLive, HistoryPaths, LatestPaths, LatestBody, DocRevs
<1>3. CASE Remember /\ cursor < MaxCursor
  <2>1. ASSUME NEW v \in past, v \in past'
        PROVE  \A d \in Docs \ v.blurred : HistoryBody(d, v.cursor)' = v.bodies[d]
    <3>1. v.cursor \in Nat /\ v.cursor <= cursor
      BY <1>1 DEF TypeOK, ViewShaped
    <3>2. \A d \in Docs : LatestBody(d, v.cursor)' = LatestBody(d, v.cursor)
      BY <1>1, <1>3, <3>1, StepGrows, BodyUnmoved
    <3> QED BY <1>2, <2>1, <3>2
  <2>2. ASSUME NEW v, v.cursor = cursor', v.bodies = bodies', v.blurred = blurred'
        PROVE  \A d \in Docs \ v.blurred : HistoryBody(d, v.cursor)' = v.bodies[d]
    <3>1. NewestRevisionIsCurrent' /\ BodiesAgree' /\ HistoryPaths(cursor)' = LivePaths'
      <4>1. NewestRevisionIsCurrent'
        BY StoreReads, PTL
      <4> QED BY <4>1 DEF StoreInv, BodyInv, PathHistoryInv, HistoryIsCurrent
    <3>2. ASSUME NEW d \in Docs \ v.blurred PROVE HistoryBody(d, v.cursor)' = v.bodies[d]
      <4>1. CASE d \in live'
        BY <2>2, <3>1, <4>1 DEF NewestRevisionIsCurrent
      <4>2. CASE d \notin live'
        <5>1. d \notin HistoryLive(cursor)'
          BY <3>1, <4>2 DEF HistoryLive, LivePaths
        <5>2. HistoryBody(d, cursor)' = NoBody /\ bodies'[d] = NoBody
          BY <3>1, <4>2, <5>1 DEF HistoryBody, BodiesAgree
        <5> QED BY <2>2, <5>2
      <4> QED BY <4>1, <4>2
    <3> QED BY <3>2
  <2>3. \A v \in past' : v \in past \/ (v.cursor = cursor' /\ v.bodies = bodies' /\ v.blurred = blurred')
    BY <1>3 DEF Remember
  <2> QED BY <2>1, <2>2, <2>3 DEF BodiesRemembered
<1>4. CASE past' = past /\ cursor' = cursor /\ bodyRevs' = bodyRevs /\ pathRevs' = pathRevs
  BY <1>2, <1>4 DEF LatestBody, DocRevs, BodiesRemembered
<1> QED BY <1>3, <1>4, StepRemembers

RememberedInv(Texts, States) == StoreInv(Texts, States) /\ BodiesRemembered

LEMMA RememberedInductive ==
    ASSUME NEW Texts, NEW States, Closed(Texts, States), ~AnyCursor, ~ReviveEmpty, Roomy
    PROVE  /\ Init => RememberedInv(Texts, States)
           /\ RememberedInv(Texts, States) /\ [Next]_vars => RememberedInv(Texts, States)'
<1>1. Init => BodiesRemembered
  <2> SUFFICES ASSUME Init PROVE BodiesRemembered
    OBVIOUS
  <2>1. past = {[cursor |-> 0, paths |-> {}, bodies |-> [d \in Docs |-> NoBody], blurred |-> {}]}
    BY DEF Init
  <2>2. HistoryLive(0) = {}
    BY DEF Init, HistoryLive, HistoryPaths, LatestPaths, Newest
  <2> QED BY <2>1, <2>2 DEF BodiesRemembered, HistoryBody
<1> QED BY <1>1, StoreInvInductive, StepRemembered DEF RememberedInv

\* While nothing has been compacted, the history reads back every text the
\* store ever held, whatever was moved, deleted, merged, restored and rewound
\* since, unless it was merged onto a flattened state ...
THEOREM BodyHistoryExact ==
    ASSUME NEW Texts, NEW States, Closed(Texts, States), ~AnyCursor, ~ReviveEmpty, Roomy
    PROVE  Spec => []BodiesRemembered
<1>1. RememberedInv(Texts, States) => BodiesRemembered
  BY DEF RememberedInv
<1> QED BY <1>1, RememberedInductive, PTL DEF Spec

\* ... and a rewind to the end of an operation puts every text back.
THEOREM RewindTextsExact ==
    ASSUME NEW Texts, NEW States, Closed(Texts, States), ~AnyCursor, ~ReviveEmpty, Roomy
    PROVE  Spec => RewindRewrites
<1>1. RememberedInv(Texts, States) /\ [Next]_vars =>
        [\A v \in past : RestoreWorkspace(v.cursor) =>
           \A d \in Docs \ v.blurred : bodies'[d] = v.bodies[d]]_vars
  BY DEF RememberedInv, BodiesRemembered, RestoreWorkspace
<1> QED BY <1>1, RememberedInductive, PTL DEF Spec, RewindRewrites

-----------------------------------------------------------------------------
(* The window of newest revisions, whatever the policies.                  *)

\* A revision's index is the number of older ones.
LEMMA IndexOrders ==
    ASSUME NEW R, IsFiniteSet(R), Shaped(R), NEW r \in R, NEW s \in R
    PROVE  Index(r, R) < Index(s, R) <=> r.seq < s.seq
<1> DEFINE Older(x) == {y \in R : y.seq < x.seq}
<1>1. \A x \in R : x.seq \in Nat
  BY DEF Shaped, BodyRevShaped
<1>2. \A x : IsFiniteSet(Older(x)) /\ Cardinality(Older(x)) \in Nat
  <2> TAKE x
  <2>1. Older(x) \in SUBSET R
    OBVIOUS
  <2> HIDE DEF Older
  <2> QED BY <2>1, FS_Subset, FS_CardinalityType
<1>3. ASSUME NEW x \in R, NEW y \in R, x.seq < y.seq
      PROVE  Cardinality(Older(x)) < Cardinality(Older(y))
  <2>1. Older(x) \in SUBSET Older(y) /\ x \in Older(y) /\ x \notin Older(x)
    BY <1>1, <1>3
  <2>2. Older(x) # Older(y)
    BY <2>1
  <2> HIDE DEF Older
  <2> QED BY <1>2, <2>1, <2>2, FS_Subset
<1>4. \A x, y \in R : x.seq = y.seq => Older(x) = Older(y)
  OBVIOUS
<1>5. \A x : Index(x, R) = Cardinality(Older(x))
  BY DEF Index
<1> HIDE DEF Older
<1>6. CASE r.seq < s.seq
  BY <1>3, <1>5, <1>6
<1>7. CASE r.seq = s.seq
  BY <1>1, <1>2, <1>4, <1>5, <1>7
<1>8. CASE s.seq < r.seq
  <2>1. Cardinality(Older(s)) < Cardinality(Older(r))
    BY <1>3, <1>8
  <2> QED BY <1>1, <1>2, <1>5, <1>8, <2>1
<1> QED BY <1>1, <1>6, <1>7, <1>8

\* At least N revisions have one of the N last indices.
LEMMA WindowFull ==
    ASSUME NEW R, IsFiniteSet(R), Shaped(R), Apart(R), NEW N \in Nat, N < Cardinality(R)
    PROVE  LET K == {s \in R : Index(s, R) >= Cardinality(R) - N}
           IN  IsFiniteSet(K) /\ Cardinality(K) \in Nat /\ N <= Cardinality(K)
<1> DEFINE K == {s \in R : Index(s, R) >= Cardinality(R) - N}
           L == R \ K
           older == Cardinality(R) - N
           f == [s \in L |-> Index(s, R)]
<1>1. Cardinality(R) \in Nat /\ older \in Nat /\ \A s \in R : Index(s, R) \in Nat
  BY FS_CardinalityType, IndexBelow
<1>2. f \in Injection(L, 0..(older - 1))
  <2>1. \A s \in L : Index(s, R) \in 0..(older - 1)
    BY <1>1
  <2>2. \A r, s \in R : Index(r, R) = Index(s, R) => r = s
    <3> TAKE r, s \in R
    <3>1. r.seq \in Nat /\ s.seq \in Nat
      BY DEF Shaped, BodyRevShaped
    <3>2. Index(r, R) = Index(s, R) => ~(r.seq < s.seq) /\ ~(s.seq < r.seq)
      BY <1>1, IndexOrders
    <3> QED BY <3>1, <3>2 DEF Apart
  <2> HIDE DEF K, older
  <2> QED BY <2>1, <2>2 DEF Injection, IsInjective
<1>3. IsFiniteSet(0..(older - 1)) /\ Cardinality(0..(older - 1)) = older
  <2> HIDE DEF older
  <2>1. older - 1 \in Int /\ (0 > older - 1 => older = 0)
    BY <1>1
  <2>2. IsFiniteSet(0..(older - 1)) /\ Cardinality(0..(older - 1)) = IF 0 > older - 1 THEN 0 ELSE older - 1 - 0 + 1
    BY <2>1, FS_Interval
  <2> QED BY <1>1, <2>1, <2>2
<1>4. IsFiniteSet(L) /\ Cardinality(L) <= older /\ Cardinality(L) \in Nat
  <2>1. IsFiniteSet(L) /\ Cardinality(L) <= Cardinality(0..(older - 1))
    <3> HIDE DEF f, L, older
    <3> QED BY <1>2, <1>3, FS_Injection
  <2> QED BY <1>3, <2>1, FS_CardinalityType
<1>5. IsFiniteSet(K) /\ Cardinality(K) \in Nat /\ Cardinality(L) = Cardinality(R) - Cardinality(K)
  <2>1. K \in SUBSET R
    OBVIOUS
  <2>2. IsFiniteSet(K) /\ K \cap R = K
    BY <2>1, FS_Subset
  <2> HIDE DEF K
  <2>3. R \cap K = K
    BY <2>1
  <2> QED BY <2>2, <2>3, FS_Difference, FS_CardinalityType
<1> HIDE DEF K, L
<1>6. N <= Cardinality(K)
  BY <1>1, <1>4, <1>5
<1> QED BY <1>5, <1>6 DEF K

\* What compaction drops has at least the policy's number of newer revisions left.
LEMMA CompactKeepsWindow ==
    ASSUME NEW R, IsFiniteSet(R), Shaped(R), Apart(R), NEW policy \in Policy, NEW r \in R,
           \A k \in Compact(R, policy) : k.seq # r.seq
    PROVE  LET newer == {k \in Compact(R, policy) : k.seq > r.seq}
           IN  IsFiniteSet(newer) => ~(Cardinality(newer) < policy.revisions)
<1> DEFINE N == policy.revisions
           K == {s \in R : Index(s, R) >= Cardinality(R) - N}
           newer == {k \in Compact(R, policy) : k.seq > r.seq}
           f == [s \in K |-> AsCheckpoint(s)]
<1>1. N \in Nat /\ Cardinality(R) \in Nat /\ \A s \in R : Index(s, R) \in Nat /\ s.seq \in Nat
  BY FS_CardinalityType, IndexBelow DEF Policy, Shaped, BodyRevShaped
<1>2. N < Cardinality(R)
  <2>1. CASE Cardinality(R) <= N
    BY <2>1 DEF Compact
  <2> QED BY <1>1, <2>1
<1>3. \A s \in K : AsCheckpoint(s) \in Compact(R, policy) /\ AsCheckpoint(s).seq = s.seq
  <2>1. \A s \in K : AsCheckpoint(s) \in Compact(R, policy)
    BY <1>1, <1>2 DEF Compact
  <2>2. \A s \in K : AsCheckpoint(s).seq = s.seq
    BY DEF AsCheckpoint, Shaped, BodyRevShaped
  <2> QED BY <2>1, <2>2
<1>4. \A s \in K : s.seq > r.seq
  <2> TAKE s \in K
  <2>1. r \notin K
    BY <1>3
  <2>2. Index(r, R) < Index(s, R)
    BY <1>1, <2>1
  <2> QED BY <1>1, <2>2, IndexOrders
<1>5. f \in Injection(K, newer)
  <2>1. \A s \in K : AsCheckpoint(s) \in newer
    BY <1>3, <1>4
  <2>2. \A s, t \in K : AsCheckpoint(s) = AsCheckpoint(t) => s = t
    BY <1>3 DEF Apart
  <2> HIDE DEF newer, K
  <2> QED BY <2>1, <2>2 DEF Injection, IsInjective
<1>6. Cardinality(K) \in Nat /\ N <= Cardinality(K)
  <2> HIDE DEF N
  <2> QED BY <1>1, <1>2, WindowFull
<1> HIDE DEF f, K, newer, N
<1>7. IsFiniteSet(newer) => Cardinality(K) <= Cardinality(newer) /\ Cardinality(newer) \in Nat
  BY <1>5, FS_Injection, FS_CardinalityType
<1>8. IsFiniteSet(newer) => ~(Cardinality(newer) < N)
  BY <1>1, <1>6, <1>7
<1> QED BY <1>8 DEF newer, N

LEMMA StepKeepsWindow ==
    ASSUME TypeOK, HistoryAnchored, RevInv, TypeOK', HistoryAnchored', RevInv', [Next]_vars,
           NEW d \in live \cap live', path'[d] = path[d], NEW r \in DocRevs(d),
           Cardinality({s \in DocRevs(d)' : s.seq > r.seq}) < PolicyFor(path[d]).revisions
    PROVE  \E s \in DocRevs(d)' : s.seq = r.seq
<1>1. d \in Docs /\ path[d] \in Paths
  BY DEF TypeOK, Known
<1>2. CASE DocRevs(d)' = DocRevs(d)
  BY <1>2
<1>3. ASSUME NEW n, Extended(d, n) PROVE \E s \in DocRevs(d)' : s.seq = r.seq
  <2> DEFINE R == DocRevs(d) \cup {n}
             newer == {s \in DocRevs(d)' : s.seq > r.seq}
  <2>1. DocRevs(d)' = R \/ DocRevs(d)' = Compact(R, PolicyFor(path[d]))
    BY <1>3 DEF Extended
  <2>2. Shaped(R) /\ Apart(R)
    <3>1. cursor \in Nat /\ n.seq \in Nat /\ cursor < n.seq /\ BodyRevShaped(n)
      BY <1>3 DEF Extended, TypeOK, BodyRevShaped
    <3>2. \A x \in DocRevs(d) : BodyRevShaped(x) /\ x.seq \in 1..cursor
      BY DocRevsShaped DEF Shaped
    <3>3. Apart(DocRevs(d))
      BY <1>1 DEF RevInv
    <3> QED BY <3>1, <3>2, <3>3 DEF Shaped, Apart
  <2>3. IsFiniteSet(R)
    <3>1. IsFiniteSet(DocRevs(d))
      BY <1>1, DocRevsFinite DEF RevInv
    <3> QED BY <3>1, FS_AddElement
  <2>4. IsFiniteSet(newer)
    <3>1. IsFiniteSet(DocRevs(d)')
      <4>1. Apart(DocRevs(d)') /\ cursor' \in Nat
        BY <1>1 DEF RevInv, TypeOK, Apart
      <4>2. \A x \in DocRevs(d)' : x.seq \in 1..cursor'
        BY DEF HistoryAnchored, DocRevs
      <4> QED BY <4>1, <4>2, NumberedFinite
    <3>2. newer \in SUBSET (DocRevs(d)')
      OBVIOUS
    <3> HIDE DEF newer
    <3> QED BY <3>1, <3>2, FS_Subset
  <2>5. PolicyFor(path[d]) \in Policy
    BY <1>1, PolicyPositive
  <2>6. r \in R
    OBVIOUS
  <2>7. CASE DocRevs(d)' = R
    BY <2>6, <2>7
  <2>8. CASE DocRevs(d)' = Compact(R, PolicyFor(path[d]))
    <3> SUFFICES ASSUME \A k \in Compact(R, PolicyFor(path[d])) : k.seq # r.seq PROVE FALSE
      BY <2>8
    <3>1. newer = {k \in Compact(R, PolicyFor(path[d])) : k.seq > r.seq}
      BY <2>8
    <3>2. Cardinality(newer) < PolicyFor(path[d]).revisions
      OBVIOUS
    <3> HIDE DEF R, newer
    <3> QED BY <2>2, <2>3, <2>4, <2>5, <2>6, <3>1, <3>2, CompactKeepsWindow
  <2> QED BY <2>1, <2>7, <2>8
<1> QED BY <1>1, <1>2, <1>3, StepGrows DEF RevsGrow

\* A policy of N revisions keeps the N newest of a document, whoever else's
\* operation, or which later append to it, compacts.
THEOREM WindowsKept == Spec => RecentRevisionsKept
<1> DEFINE Inv == TypeOK /\ HistoryAnchored /\ RevInv
<1>1. Init => Inv
  BY InitTyped, InitRevs DEF Init, HistoryAnchored
<1>2. Inv /\ [Next]_vars => Inv'
  BY StepTyped, StepAnchored, StepRevs
<1>3. Inv /\ Inv' /\ [Next]_vars =>
        [\A d \in live \cap live' : path'[d] = path[d] =>
           \A r \in DocRevs(d) :
              Cardinality({s \in DocRevs(d)' : s.seq > r.seq}) < PolicyFor(path[d]).revisions
                => \E s \in DocRevs(d)' : s.seq = r.seq]_vars
  BY StepKeepsWindow
<1> QED BY <1>1, <1>2, <1>3, PTL DEF Spec, RecentRevisionsKept

-----------------------------------------------------------------------------
(* The store implements SharedWorkspace: the stamp of a document is the    *)
(* number of its latest event.                                             *)

\* s numbers d's latest event in E, or is 0 if it has none.
Latest(E, d, s) ==
    /\ s = 0 \/ \E e \in E : e.doc = d /\ e.seq = s
    /\ \A e \in E : e.doc = d => e.seq <= s

StampIn(E, k, d) ==
    CHOOSE s \in 0..k : /\ s = 0 \/ \E e \in E : e.doc = d /\ e.seq = s
                        /\ \A e \in E : e.doc = d => e.seq <= s

LEMMA StampIs ==
    ASSUME NEW E, NEW k \in Nat, NEW d, NEW s \in 0..k, Latest(E, d, s),
           \A e \in E : e.seq \in Nat
    PROVE  StampIn(E, k, d) = s
<1>1. \A t \in 0..k : Latest(E, d, t) => t = s
  BY DEF Latest
<1>2. StampIn(E, k, d) = CHOOSE t \in 0..k : Latest(E, d, t)
  BY DEF StampIn, Latest
<1> QED BY <1>1, <1>2

LEMMA StampExists ==
    ASSUME TypeOK, HistoryAnchored, NEW d
    PROVE  LET s == StampIn(events, cursor, d)
           IN  s \in 0..cursor /\ Latest(events, d, s)
<1> DEFINE seqs == {e.seq : e \in {x \in events : x.doc = d}}
<1>1. cursor \in Nat /\ \A e \in events : e.seq \in 1..cursor
  BY DEF TypeOK, HistoryAnchored
<1>2. \A e \in events : e.seq \in Nat
  BY <1>1
<1>3. CASE seqs = {}
  <2>1. Latest(events, d, 0)
    BY <1>3 DEF Latest
  <2> QED BY <1>1, <1>2, <2>1, StampIs
<1>4. CASE seqs # {}
  <2>1. seqs \in SUBSET Nat /\ \A i \in seqs : i <= cursor
    BY <1>1
  <2>2. PICK m \in seqs : \A i \in seqs : i <= m
    <3> HIDE DEF seqs
    <3> QED BY <1>1, <1>4, <2>1, GreatestExists
  <2>3. Latest(events, d, m) /\ m \in 0..cursor
    BY <1>1, <2>2 DEF Latest
  <2> QED BY <1>1, <1>2, <2>3, StampIs
<1> QED BY <1>3, <1>4

\* New events, numbered past the cursor, give their documents a stamp of the
\* new numbers and leave those of the others.
LEMMA StampMoves ==
    ASSUME TypeOK, HistoryAnchored, TypeOK', NEW E, events' = events \cup E, cursor <= cursor',
           \A e \in E : e.seq \in Nat /\ cursor < e.seq /\ e.seq <= cursor',
           \A e, f \in E : e.doc = f.doc => e.seq = f.seq,
           NEW d
    PROVE  /\ \A e \in E : e.doc = d => StampIn(events', cursor', d) = e.seq
           /\ (\A e \in E : e.doc # d) => StampIn(events', cursor', d) = StampIn(events, cursor, d)
<1>1. /\ cursor \in Nat /\ cursor' \in Nat
      /\ (\A e \in events : e.seq \in Nat /\ e.seq <= cursor) /\ \A e \in events' : e.seq \in Nat
  BY DEF TypeOK, HistoryAnchored, Event
<1>2. ASSUME NEW e \in E, e.doc = d PROVE StampIn(events', cursor', d) = e.seq
  <2>1. e.seq \in 0..cursor'
    BY <1>1
  <2>2. Latest(events', d, e.seq)
    <3>1. \A x \in events' : x.doc = d => x.seq <= e.seq
      BY <1>1, <1>2
    <3> QED BY <1>2, <3>1 DEF Latest
  <2> QED BY <1>1, <2>1, <2>2, StampIs
<1>3. ASSUME \A e \in E : e.doc # d
      PROVE  StampIn(events', cursor', d) = StampIn(events, cursor, d)
  <2> DEFINE s == StampIn(events, cursor, d)
  <2>1. s \in 0..cursor /\ Latest(events, d, s)
    BY StampExists
  <2>2. s \in 0..cursor' /\ Latest(events', d, s)
    BY <1>1, <1>3, <2>1 DEF Latest
  <2> HIDE DEF s
  <2>3. StampIn(events', cursor', d) = s
    BY <1>1, <2>2, StampIs
  <2> QED BY <2>3 DEF s
<1> QED BY <1>2, <1>3

stamp == [d \in Docs |-> StampIn(events, cursor, d)]

\* An operation on one document stamps it.
LEMMA Stamps ==
    ASSUME TypeOK, HistoryAnchored, TypeOK', NEW d \in Docs, NEW kind, AppendEvent(d, kind)
    PROVE  cursor' = cursor + 1 /\ stamp' = [stamp EXCEPT ![d] = cursor + 1]
<1> DEFINE e == [seq |-> cursor + 1, doc |-> d, kind |-> kind]
<1>1. cursor \in Nat /\ cursor' = cursor + 1 /\ events' = events \cup {e} /\ e.seq = cursor + 1 /\ e.doc = d
  BY DEF AppendEvent, TypeOK
<1> HIDE DEF e
<1> DEFINE E == {e}
<1>2. /\ events' = events \cup E /\ cursor <= cursor'
      /\ \A x \in E : x.seq \in Nat /\ cursor < x.seq /\ x.seq <= cursor'
      /\ \A x, y \in E : x.doc = y.doc => x.seq = y.seq
      /\ (\A x \in E : x.seq = cursor + 1 /\ x.doc = d) /\ e \in E
  BY <1>1
<1> HIDE DEF E
<1>3. StampIn(events', cursor', d) = cursor + 1
  BY <1>1, <1>2, StampMoves
<1>4. ASSUME NEW x \in Docs, x # d PROVE StampIn(events', cursor', x) = StampIn(events, cursor, x)
  <2>1. \A y \in E : y.doc # x
    BY <1>2, <1>4
  <2> QED BY <1>1, <1>2, <2>1, StampMoves
<1>5. stamp' = [x \in Docs |-> StampIn(events', cursor', x)]
  BY DEF stamp, StampIn
<1>6. [stamp EXCEPT ![d] = cursor + 1] = [x \in Docs |-> IF x = d THEN cursor + 1 ELSE StampIn(events, cursor, x)]
  BY DEF stamp
<1> QED BY <1>1, <1>3, <1>4, <1>5, <1>6

\* A rewind stamps the documents it changes, each with a number of its own.
LEMMA RewindStamps ==
    ASSUME TypeOK, HistoryAnchored, TypeOK', NEW c \in Nat, RestoreWorkspace(c)
    PROVE  \A d \in Docs : IF d \in Changed(c) THEN stamp'[d] = ChangeSeq(d, c)
                           ELSE stamp'[d] = stamp[d]
<1> DEFINE ev(d, k) == [seq |-> ChangeSeq(d, c), doc |-> d, kind |-> k]
           E == UNION {{ev(d, k) : k \in ChangeKind(d, c)} : d \in Docs}
<1>1. events' = events \cup E
  BY DEF RestoreWorkspace
<1>2. \A e \in E : e.doc \in Changed(c) /\ e.seq = ChangeSeq(e.doc, c)
  BY DEF Changed
<1>3. \A d \in Changed(c) : \E e \in E : e.doc = d
  <2> TAKE d \in Changed(c)
  <2>1. PICK k \in ChangeKind(d, c) : d \in Docs
    BY DEF Changed
  <2>2. ev(d, k) \in E /\ ev(d, k).doc = d
    BY <2>1
  <2> QED BY <2>2
<1> HIDE DEF E
<1>4. /\ cursor <= cursor'
      /\ \A e \in E : e.seq \in Nat /\ cursor < e.seq /\ e.seq <= cursor'
  <2>1. cursor \in Nat /\ Cardinality(Changed(c)) \in Nat /\ cursor' = cursor + Cardinality(Changed(c))
    BY ChangeSeqRange DEF TypeOK, RestoreWorkspace
  <2>2. \A d \in Changed(c) : /\ ChangeSeq(d, c) \in Nat /\ cursor < ChangeSeq(d, c)
                             /\ ChangeSeq(d, c) <= cursor'
    BY <2>1, ChangeSeqRange
  <2> QED BY <1>2, <2>1, <2>2
<1>5. \A e, f \in E : e.doc = f.doc => e.seq = f.seq
  BY <1>2
<1>6. stamp' = [d \in Docs |-> StampIn(events', cursor', d)]
  BY DEF stamp, StampIn
<1>7. ASSUME NEW d \in Docs
      PROVE  IF d \in Changed(c) THEN stamp'[d] = ChangeSeq(d, c) ELSE stamp'[d] = stamp[d]
  <2>1. CASE d \in Changed(c)
    <3>1. PICK e \in E : e.doc = d
      BY <1>3, <2>1
    <3>2. StampIn(events', cursor', d) = e.seq
      BY <1>1, <1>4, <1>5, <3>1, StampMoves
    <3> QED BY <1>2, <1>6, <2>1, <3>1, <3>2
  <2>2. CASE d \notin Changed(c)
    <3>1. \A e \in E : e.doc # d
      BY <1>2, <2>2
    <3>2. StampIn(events', cursor', d) = StampIn(events, cursor, d)
      BY <1>1, <1>4, <1>5, <3>1, StampMoves
    <3> QED BY <1>6, <2>2, <3>2 DEF stamp
  <2> QED BY <2>1, <2>2
<1> QED BY <1>7

LEMMA StampRange ==
    ASSUME TypeOK, HistoryAnchored, NEW d \in Docs
    PROVE  stamp[d] \in Nat /\ stamp[d] <= cursor
<1>1. stamp[d] \in 0..cursor
  BY StampExists DEF stamp
<1> QED BY <1>1 DEF TypeOK

\* What a rewind leaves alone is as it was.
LEMMA UnchangedSame ==
    ASSUME NEW Texts, NEW States, Closed(Texts, States), TypeOK, HistoryAnchored, RevInv,
           BodyInv(Texts, States), NEW c \in Nat, RestoreWorkspace(c), NEW d \in Docs \ Changed(c)
    PROVE  (d \in live' <=> d \in live) /\ path'[d] = path[d] /\ bodies'[d] = bodies[d]
<1>1. (d \in live <=> d \in HistoryLive(c)) /\ (RewoundPath(d, c) = path[d] \/ d \notin live)
  BY ChangedPlaces
<1>2. live' = HistoryLive(c) /\ path'[d] = RewoundPath(d, c) /\ bodies'[d] = HistoryBody(d, c)
  BY DEF RestoreWorkspace
<1>3. path'[d] = path[d]
  BY <1>1, <1>2, RewoundPlace
<1>4. CASE d \in live
  <2>1. ~BodyChanged(d, c)
    BY <1>1, <1>4 DEF Changed, ChangeKind
  <2>2. HistoryBody(d, c) = bodies[d]
    BY <1>1, <1>4, <2>1, UnwrittenKept
  <2> QED BY <1>1, <1>2, <1>3, <2>2
<1>5. CASE d \notin live
  <2>1. bodies[d] = NoBody /\ HistoryBody(d, c) = NoBody
    BY <1>1, <1>5, HistoryBodyClosed DEF BodyInv, BodiesAgree
  <2> QED BY <1>1, <1>2, <1>3, <2>1
<1> QED BY <1>4, <1>5

SharedInv(Texts, States) ==
    PathHistoryInv /\ HistoryAnchored /\ RevInv /\ BodyInv(Texts, States)

LEMMA SharedInvInductive ==
    ASSUME NEW Texts, NEW States, Closed(Texts, States), ~AnyCursor
    PROVE  /\ Init => SharedInv(Texts, States)
           /\ SharedInv(Texts, States) /\ [Next]_vars => SharedInv(Texts, States)'
<1>1. Init => HistoryAnchored
  BY DEF Init, HistoryAnchored
<1>2. Init => SharedInv(Texts, States)
  BY <1>1, InitHistory, InitRevs, InitAgrees DEF SharedInv
<1>3. PathHistoryInv => TypeOK
  BY DEF PathHistoryInv
<1>4. SharedInv(Texts, States) /\ [Next]_vars => SharedInv(Texts, States)'
  BY <1>3, StepHistory, StepAnchored, StepRevs, StepAgrees DEF SharedInv
<1> QED BY <1>2, <1>4

LEMMA RewindShared ==
    ASSUME NEW Texts, NEW States, Closed(Texts, States), ~AnyCursor,
           SharedInv(Texts, States), SharedInv(Texts, States)', NEW c \in Nat, RestoreWorkspace(c)
    PROVE  /\ cursor' >= cursor
           /\ \A d \in Docs : path'[d] = NoPath <=> path[d] = NoPath
           /\ \A d \in Docs :
                \/ /\ (d \in live' <=> d \in live) /\ path'[d] = path[d] /\ bodies'[d] = bodies[d]
                   /\ stamp'[d] = stamp[d]
                \/ stamp'[d] > cursor /\ stamp'[d] <= cursor'
           /\ \A d, e \in Docs : stamp'[d] = stamp'[e] /\ stamp'[d] > cursor => d = e
           /\ \A d, e \in live' : path'[d] = path'[e] => d = e
<1>1. /\ TypeOK /\ HistoryAnchored /\ RevInv /\ BodyInv(Texts, States) /\ TypeOK'
      /\ cursor \in Nat /\ LivePathsUnique'
  BY DEF SharedInv, PathHistoryInv, TypeOK
<1>2. /\ cursor' = cursor + Cardinality(Changed(c)) /\ Cardinality(Changed(c)) \in Nat
      /\ \A d \in Changed(c) : ChangeSeq(d, c) \in Nat /\ cursor < ChangeSeq(d, c) /\ ChangeSeq(d, c) <= cursor'
  <2>1. cursor' = cursor + Cardinality(Changed(c))
    BY DEF RestoreWorkspace
  <2> QED BY <1>1, <2>1, ChangeSeqRange
<1>3. \A d \in Docs : IF d \in Changed(c) THEN stamp'[d] = ChangeSeq(d, c) ELSE stamp'[d] = stamp[d]
  BY <1>1, RewindStamps
<1>4. \A d \in Docs \ Changed(c) :
        (d \in live' <=> d \in live) /\ path'[d] = path[d] /\ bodies'[d] = bodies[d]
  BY <1>1, UnchangedSame
<1>5. ASSUME NEW d \in Docs PROVE path'[d] = NoPath <=> path[d] = NoPath
  <2>1. path'[d] = RewoundPath(d, c)
    BY DEF RestoreWorkspace
  <2>2. d \in HistoryLive(c) => path[d] # NoPath
    BY <1>1, HistoryHasText
  <2> QED BY <2>1, <2>2, RewoundPlace, PlacesAssumption
<1>6. \A d \in Docs : stamp[d] \in Nat /\ stamp[d] <= cursor
  BY <1>1, StampRange
<1>7. ASSUME NEW d \in Docs, NEW e \in Docs, stamp'[d] = stamp'[e], stamp'[d] > cursor PROVE d = e
  <2>1. d \in Changed(c) /\ e \in Changed(c)
    BY <1>1, <1>3, <1>6, <1>7
  <2> QED BY <1>1, <1>3, <1>7, <2>1, ChangeSeqCovers
<1>8. cursor' >= cursor
  BY <1>1, <1>2
<1>9. \A d \in Docs :
        \/ /\ (d \in live' <=> d \in live) /\ path'[d] = path[d] /\ bodies'[d] = bodies[d]
           /\ stamp'[d] = stamp[d]
        \/ stamp'[d] > cursor /\ stamp'[d] <= cursor'
  BY <1>1, <1>2, <1>3, <1>4
<1> QED BY <1>1, <1>5, <1>7, <1>8, <1>9 DEF LivePathsUnique

\* Each operation is a step of the shared workspace or leaves it alone.
LEMMA StepShared ==
    ASSUME NEW Texts, NEW States, Closed(Texts, States), ~AnyCursor,
           SharedInv(Texts, States), SharedInv(Texts, States)', [Next]_vars
    PROVE  [Shared!SharedNext]_(Shared!shared)
<1> USE DEF Shared!Free, Shared!Stamp
<1>1. TypeOK /\ HistoryAnchored /\ TypeOK' /\ LivePathsUnique
  BY DEF SharedInv, PathHistoryInv
<1>2. ASSUME NEW d \in Docs, NEW kind, AppendEvent(d, kind)
      PROVE  Shared!Stamp(d)
  BY <1>1, <1>2, Stamps DEF stamp, StampIn
<1>3. ASSUME NEW d \in Docs, NEW p \in Paths, NEW t, CreateDocument(d, p, t)
      PROVE  Shared!Place(d, p, bodies'[d])
  <2>1. bodies' = [bodies EXCEPT ![d] = bodies'[d]] /\ Shared!Stamp(d)
    BY <1>1, <1>2, <1>3 DEF CreateDocument, WriteBody, TypeOK
  <2> HIDE DEF Shared!Stamp
  <2> QED BY <1>3, <2>1 DEF Shared!Place, CreateDocument, PathTaken
<1>4. ASSUME NEW d \in Docs, NEW a, NEW b, NEW t, UpdateDocument(d, a, b, t)
      PROVE  Shared!Rewrite(d, bodies'[d])
  <2>1. bodies' = [bodies EXCEPT ![d] = bodies'[d]] /\ Shared!Stamp(d)
    BY <1>1, <1>2, <1>4 DEF UpdateDocument, WriteBody, TypeOK
  <2> HIDE DEF Shared!Stamp
  <2> QED BY <1>4, <2>1 DEF Shared!Rewrite, UpdateDocument
<1>5. ASSUME NEW d \in Docs, DeleteDocument(d)
      PROVE  Shared!Delete(d)
  <2>1. Shared!Stamp(d)
    BY <1>2, <1>5 DEF DeleteDocument
  <2> HIDE DEF Shared!Stamp
  <2> QED BY <1>5, <2>1 DEF Shared!Delete, DeleteDocument
<1>6. ASSUME NEW d \in Docs, NEW p \in Paths, MoveDocument(d, p)
      PROVE  Shared!Move(d, p)
  <2>1. Shared!Stamp(d)
    BY <1>2, <1>6 DEF MoveDocument
  <2> HIDE DEF Shared!Stamp
  <2> QED BY <1>6, <2>1 DEF Shared!Move, MoveDocument, PathTaken
<1>7. ASSUME NEW d \in Docs, NEW r \in DocRevs(d), NEW p \in Paths, RestoreDocument(d, r, p)
      PROVE  Shared!Place(d, p, bodies'[d])
  <2>1. bodies' = [bodies EXCEPT ![d] = bodies'[d]] /\ Shared!Stamp(d)
    BY <1>1, <1>2, <1>7 DEF RestoreDocument, WriteBody, TypeOK
  <2>2. Shared!Free(p, d)
    BY <1>1, <1>7 DEF RestoreDocument, PathTaken, LivePathsUnique
  <2> HIDE DEF Shared!Stamp, Shared!Free
  <2> QED BY <1>7, <2>1, <2>2 DEF Shared!Place, RestoreDocument
<1>8. ASSUME NEW c \in 0..cursor, RestoreWorkspace(c) PROVE Shared!Rewind
  <2>1. c \in Nat
    BY <1>1 DEF TypeOK
  <2> QED BY <1>8, <2>1, RewindShared DEF Shared!Rewind, Shared!Same, stamp, StampIn
<1>9. CASE \/ \E ms \in SUBSET Mounts : Bootstrap(ms)
           \/ \E k \in Keys, policy \in Policies : SetPolicy(k, policy)
           \/ \E k \in Keys : ClearPolicy(k)
           \/ UNCHANGED vars
  <2>1. /\ events' = events /\ cursor' = cursor /\ path' = path /\ live' = live /\ bodies' = bodies
    BY <1>9 DEF Bootstrap, SetPolicy, ClearPolicy, vars
  <2>2. stamp' = [d \in Docs |-> StampIn(events', cursor', d)]
    BY DEF stamp, StampIn
  <2>3. stamp' = stamp
    BY <2>1, <2>2 DEF stamp
  <2> QED BY <2>1, <2>3 DEF Shared!shared, stamp, StampIn
<1> HIDE DEF Shared!Free, Shared!Stamp
<1> QED BY <1>3, <1>4, <1>5, <1>6, <1>7, <1>8, <1>9 DEF Next, Shared!SharedNext

LEMMA InitShared == Init => Shared!SharedInit
<1> SUFFICES ASSUME Init PROVE Shared!SharedInit
  OBVIOUS
<1>1. \A d : StampIn({}, 0, d) = 0
  <2> TAKE d
  <2>1. Latest({}, d, 0)
    BY DEF Latest
  <2> QED BY <2>1, StampIs
<1>2. stamp = [d \in Docs |-> 0]
  BY <1>1 DEF Init, stamp
<1> QED BY <1>2 DEF Init, Shared!SharedInit, stamp, StampIn

\* The store implements the workspace its clients are written against: every
\* change of a document gives it a stamp past the cursor, a rewind's each their
\* own, and nothing that did not change gets one.
THEOREM StoreImplementsShared ==
    ASSUME NEW Texts, NEW States, Closed(Texts, States), ~AnyCursor
    PROVE  Spec => ImplementsShared
<1>1. SharedInv(Texts, States) /\ SharedInv(Texts, States)' /\ [Next]_vars
        => [Shared!SharedNext]_(Shared!shared)
  BY StepShared
<1> QED BY <1>1, InitShared, SharedInvInductive, PTL DEF Spec, ImplementsShared, Shared!SharedSpec
=============================================================================
