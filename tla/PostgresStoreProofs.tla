------------------------ MODULE PostgresStoreProofs ------------------------
(***************************************************************************)
(* Theorems about PostgresStore, for every set of documents, paths and     *)
(* policies, and every way edits converge and are redacted.                *)
(***************************************************************************)
EXTENDS PostgresStore, Counting, SequenceTheorems

\* Texts and states are any sets that edits, merges and redactions do not lead
\* out of and the absent values are not in.
Closed(Texts, States) ==
    /\ Edits \subseteq Texts /\ Bases \subseteq Texts /\ Empty \in Texts /\ NoBody \notin Texts
    /\ NoState \notin States
    /\ \A t \in Texts : Checkpoint(t) \in States
    /\ \A s \in States : s.text \in Texts
    /\ \A s \in States, a \in Actors \cup {Editor}, b \in Texts, t \in Texts : ApplyUpdate(s, a, b, t) \in States
    /\ \A b \in Bases, t \in Texts, u \in Edits : Union(b, t, u) \in Texts
    /\ \A t \in Texts, x \in Secrets : Redacted(t, x) \in Texts

Update == [actor : Actors, base : Bases, text : Edits]

Row(Texts) == [at : Nat, kind : {"checkpoint", "update", "purged"}, actor : Actors \cup {Editor},
               base : Texts, text : Texts]

-----------------------------------------------------------------------------
(* Replaying logged updates.                                               *)

LoadSteps(state, updates) ==
    CHOOSE after : after = [k \in 0..Len(updates) |->
          IF k = 0 THEN state
          ELSE ApplyUpdate(after[k - 1], updates[k].actor, updates[k].base, updates[k].text)]

LEMMA LoadUnfolds ==
    ASSUME NEW state, NEW updates
    PROVE  LoadedFrom(state, updates) = LoadSteps(state, updates)[Len(updates)]
  BY DEF LoadedFrom, LoadSteps

\* The recursion has a value, whose steps are states.
LEMMA LoadStepsValue ==
    ASSUME NEW Texts, NEW States, Closed(Texts, States), NEW s \in States, NEW u \in Seq(Update)
    PROVE  \A k \in 0..Len(u) :
             /\ LoadSteps(s, u)[k] \in States
             /\ LoadSteps(s, u)[k] =
                  IF k = 0 THEN s
                  ELSE ApplyUpdate(LoadSteps(s, u)[k - 1], u[k].actor, u[k].base, u[k].text)
<1> DEFINE n == Len(u)
           g == [p \in (1..n) \X States |-> ApplyUpdate(p[2], u[p[1]].actor, u[p[1]].base, u[p[1]].text)]
           Follows(f) == f = [k \in 0..n |-> IF k = 0 THEN s
                                             ELSE ApplyUpdate(f[k - 1], u[k].actor, u[k].base, u[k].text)]
           h == LoadSteps(s, u)
<1>1. n \in Nat /\ \A k \in 1..n : u[k].actor \in Actors /\ u[k].base \in Texts /\ u[k].text \in Texts
  <2>1. n \in Nat /\ \A k \in 1..n : u[k] \in Update
    BY LenProperties, ElementOfSeq
  <2> QED BY <2>1 DEF Update, Closed
<1>2. g \in [(1..n) \X States -> States]
  BY <1>1 DEF Closed
<1>3. PICK f : f \in [0..n -> States] /\ Iterates(f, n, s, g)
  <2>1. n \in Nat /\ n <= n
    BY <1>1
  <2> HIDE DEF g, n, h, Follows
  <2> QED BY <2>1, <1>2, IterationExists, Zenon
<1>4. Follows(f)
  <2>1. \A k \in 0..n : f[k] = IF k = 0 THEN s ELSE g[<<k, f[k - 1]>>]
    BY <1>3 DEF Iterates
  <2>2. \A k \in 1..n : g[<<k, f[k - 1]>>] = ApplyUpdate(f[k - 1], u[k].actor, u[k].base, u[k].text)
    BY <1>1, <1>3
  <2>3. n \in Nat
    BY <1>1
  <2> HIDE DEF g, n
  <2>4. \A k \in 0..n : k # 0 => k \in 1..n
    BY <2>3
  <2>5. \A k \in 0..n : f[k] = IF k = 0 THEN s
                                 ELSE ApplyUpdate(f[k - 1], u[k].actor, u[k].base, u[k].text)
    BY <2>1, <2>2, <2>4, Zenon
  <2> QED BY <1>3, <2>5
<1>5. Follows(h)
  BY <1>4, Zenon DEF LoadSteps
<1>6. \A k \in 0..n : h[k] = IF k = 0 THEN s ELSE ApplyUpdate(h[k - 1], u[k].actor, u[k].base, u[k].text)
  <2> HIDE DEF h, n
  <2> QED BY <1>5
<1>7. \A k \in 0..n : f[k] = IF k = 0 THEN s ELSE ApplyUpdate(f[k - 1], u[k].actor, u[k].base, u[k].text)
  <2> HIDE DEF n
  <2> QED BY <1>4
<1> HIDE DEF h, n, g, Follows
<1>8. \A k \in 0..n : f[k] = h[k]
  <2>1. f[0] = h[0]
    BY <1>1, <1>6, <1>7
  <2>2. \A k \in 1..n : f[k - 1] = h[k - 1] => f[k] = h[k]
    BY <1>1, <1>6, <1>7
  <2>3. n \in Nat
    BY <1>1
  <2> QED BY <2>1, <2>2, <2>3, EqualUpTo, Zenon
<1>9. \A k \in 0..n : h[k] \in States
  BY <1>3, <1>8
<1> QED BY <1>6, <1>9 DEF h, n

LEMMA LoadedTyped ==
    ASSUME NEW Texts, NEW States, Closed(Texts, States), NEW s \in States, NEW u \in Seq(Update)
    PROVE  LoadedFrom(s, u) \in States
<1>1. Len(u) \in 0..Len(u)
  BY LenProperties
<1> QED BY <1>1, LoadUnfolds, LoadStepsValue

\* With nothing logged the held state is the loaded one; one more logged
\* update is applied last.
LEMMA LoadedEmpty ==
    ASSUME NEW Texts, NEW States, Closed(Texts, States), NEW s \in States
    PROVE  LoadedFrom(s, <<>>) = s
<1>1. PICK u \in Seq(Update) : u = <<>> /\ Len(u) = 0
  BY EmptySeq
<1>2. LoadSteps(s, u)[0] = s
  <2>1. \A k \in 0..Len(u) : LoadSteps(s, u)[k] =
          IF k = 0 THEN s ELSE ApplyUpdate(LoadSteps(s, u)[k - 1], u[k].actor, u[k].base, u[k].text)
    BY LoadStepsValue
  <2> QED BY <1>1, <2>1
<1>3. LoadedFrom(s, u) = s
  BY <1>1, <1>2, LoadUnfolds
<1> QED BY <1>1, <1>3

LEMMA LoadedAppend ==
    ASSUME NEW Texts, NEW States, Closed(Texts, States), NEW s \in States, NEW u \in Seq(Update),
           NEW x \in Update
    PROVE  LoadedFrom(s, Append(u, x)) = ApplyUpdate(LoadedFrom(s, u), x.actor, x.base, x.text)
<1> DEFINE n == Len(u)
           w == Append(u, x)
           f == LoadSteps(s, u)
           h == LoadSteps(s, w)
<1>1. /\ n \in Nat /\ w \in Seq(Update) /\ Len(w) = n + 1 /\ w[n + 1] = x
      /\ \A k \in 1..n : w[k] = u[k]
  BY LenProperties
<1>2. \A k \in 0..n : f[k] = IF k = 0 THEN s ELSE ApplyUpdate(f[k - 1], u[k].actor, u[k].base, u[k].text)
  BY LoadStepsValue
<1>3. \A k \in 0..(n + 1) : h[k] = IF k = 0 THEN s ELSE ApplyUpdate(h[k - 1], w[k].actor, w[k].base, w[k].text)
  <2> HIDE DEF w, n
  <2>1. \A k \in 0..Len(w) : h[k] = IF k = 0 THEN s ELSE ApplyUpdate(h[k - 1], w[k].actor, w[k].base, w[k].text)
    BY <1>1, LoadStepsValue
  <2> QED BY <1>1, <2>1
<1> HIDE DEF w, n, f, h
<1>4. \A k \in 0..n : f[k] = h[k]
  <2>1. f[0] = h[0]
    BY <1>1, <1>2, <1>3
  <2>2. \A k \in 1..n : f[k - 1] = h[k - 1] => f[k] = h[k]
    BY <1>1, <1>2, <1>3
  <2> QED BY <1>1, <2>1, <2>2, EqualUpTo
<1>5. h[n + 1] = ApplyUpdate(f[n], x.actor, x.base, x.text)
  <2>1. n \in 0..n /\ n + 1 \in 0..(n + 1) /\ n + 1 # 0 /\ (n + 1) - 1 = n
    BY <1>1
  <2> QED BY <1>1, <1>3, <1>4, <2>1
<1>6. LoadedFrom(s, w) = h[n + 1] /\ LoadedFrom(s, u) = f[n]
  BY <1>1, LoadUnfolds DEF f, h, n
<1> QED BY <1>5, <1>6 DEF w

-----------------------------------------------------------------------------
(* The n-th of some places.                                                *)

\* Each rank is some element's, and NthOf names it.
LEMMA NthIsIn ==
    ASSUME NEW S, IsFiniteSet(S), S \subseteq Nat
    PROVE  /\ Cardinality(S) \in Nat
           /\ \A i \in 1..Cardinality(S) : NthOf(S, i) \in S /\ RankIn(S, NthOf(S, i)) = i
<1> SUFFICES ASSUME NEW i \in 1..Cardinality(S) PROVE NthOf(S, i) \in S /\ RankIn(S, NthOf(S, i)) = i
  BY FS_CardinalityType
<1>1. PICK k \in S : RankIn(S, k) = i
  BY RankReached
<1> QED BY <1>1 DEF NthOf, RankIn

LEMMA NthOfRank ==
    ASSUME NEW S, IsFiniteSet(S), S \subseteq Nat, NEW k \in S
    PROVE  RankIn(S, k) \in 1..Cardinality(S) /\ NthOf(S, RankIn(S, k)) = k
<1> DEFINE i == RankIn(S, k)
           l == NthOf(S, i)
<1>1. i \in 1..Cardinality(S)
  BY RankRises
<1>2. l \in S /\ RankIn(S, l) = i
  <2> HIDE DEF l, i
  <2>1. NthOf(S, i) \in S /\ RankIn(S, NthOf(S, i)) = i
    BY <1>1, NthIsIn
  <2> QED BY <2>1 DEF l
<1> HIDE DEF l
<1>3. i \in Nat /\ k \in Nat /\ l \in Nat
  BY <1>1, <1>2
<1>4. (k < l => RankIn(S, k) < RankIn(S, l)) /\ (l < k => RankIn(S, l) < RankIn(S, k))
  BY <1>2, RankRises
<1>5. l = k
  BY <1>2, <1>3, <1>4
<1> QED BY <1>1, <1>5 DEF l

LEMMA NthOrders ==
    ASSUME NEW S, IsFiniteSet(S), S \subseteq Nat, NEW i \in 1..Cardinality(S), NEW j \in 1..Cardinality(S)
    PROVE  NthOf(S, i) <= NthOf(S, j) <=> i <= j
<1>1. /\ NthOf(S, i) \in S /\ RankIn(S, NthOf(S, i)) = i
      /\ NthOf(S, j) \in S /\ RankIn(S, NthOf(S, j)) = j
  BY NthIsIn
<1>2. NthOf(S, i) <= NthOf(S, j) <=> RankIn(S, NthOf(S, i)) <= RankIn(S, NthOf(S, j))
  BY <1>1, RankRises
<1> QED BY <1>1, <1>2

LEMMA NthOfInterval ==
    ASSUME NEW n \in Nat, NEW i \in 1..n
    PROVE  NthOf(1..n, i) = i /\ Cardinality(1..n) = n
<1>1. IsFiniteSet(1..n) /\ 1..n \subseteq Nat /\ Cardinality(1..n) = n
  BY FS_Interval
<1>2. RankIn(1..n, i) = i
  <2>1. {j \in 1..n : j <= i} = 1..i
    OBVIOUS
  <2>2. Cardinality(1..i) = i
    BY FS_Interval
  <2> QED BY <2>1, <2>2 DEF RankIn
<1>3. NthOf(1..n, RankIn(1..n, i)) = i
  BY <1>1, NthOfRank
<1> QED BY <1>1, <1>2, <1>3

-----------------------------------------------------------------------------
(* Replaying revisions.                                                    *)

ReplayStep(rows, k, state) ==
    IF rows[k].kind = "update" /\ k > 1
    THEN ApplyUpdate(state, rows[k].actor, rows[k].base, rows[k].text)
    ELSE Checkpoint(rows[k].text)

ReplaySteps(rows) ==
    CHOOSE after : after = [k \in 0..Len(rows) |->
          IF k = 0 THEN Checkpoint(Empty) ELSE ReplayStep(rows, k, after[k - 1])]

LEMMA ReplayUnfolds ==
    ASSUME NEW rows
    PROVE  Replayed(rows) = ReplaySteps(rows)[Len(rows)]
  BY DEF Replayed, ReplaySteps, ReplayStep

LEMMA RowTyped ==
    ASSUME NEW Texts, NEW rows \in Seq(Row(Texts))
    PROVE  /\ Len(rows) \in Nat /\ DOMAIN rows = 1..Len(rows)
           /\ \A k \in 1..Len(rows) : /\ rows[k] \in Row(Texts)
                                      /\ rows[k].actor \in Actors \cup {Editor}
                                      /\ rows[k].base \in Texts /\ rows[k].text \in Texts
<1>1. /\ Len(rows) \in Nat /\ DOMAIN rows = 1..Len(rows)
      /\ \A k \in 1..Len(rows) : rows[k] \in Row(Texts)
  BY LenProperties, ElementOfSeq
<1>2. \A r \in Row(Texts) : r.actor \in Actors \cup {Editor} /\ r.base \in Texts /\ r.text \in Texts
  BY DEF Row
<1> QED BY <1>1, <1>2

LEMMA ReplayStepsValue ==
    ASSUME NEW Texts, NEW States, Closed(Texts, States), NEW rows \in Seq(Row(Texts))
    PROVE  /\ \A k \in 0..Len(rows) : ReplaySteps(rows)[k] \in States
           /\ ReplaySteps(rows)[0] = Checkpoint(Empty)
           /\ \A k \in 1..Len(rows) :
                ReplaySteps(rows)[k] = ReplayStep(rows, k, ReplaySteps(rows)[k - 1])
<1> DEFINE n == Len(rows)
           s == Checkpoint(Empty)
           g == [p \in (1..n) \X States |-> ReplayStep(rows, p[1], p[2])]
           Follows(f) == f = [k \in 0..n |-> IF k = 0 THEN s ELSE ReplayStep(rows, k, f[k - 1])]
           h == ReplaySteps(rows)
<1>1. n \in Nat /\ n <= n
  BY RowTyped
<1>2. \A k \in 1..n, x \in States : ReplayStep(rows, k, x) \in States
  <2>1. \A k \in 1..n : rows[k].actor \in Actors \cup {Editor} /\ rows[k].base \in Texts /\ rows[k].text \in Texts
    BY RowTyped
  <2> HIDE DEF n
  <2> QED BY <2>1 DEF Closed, ReplayStep
<1>3. g \in [(1..n) \X States -> States]
  <2> HIDE DEF n
  <2> QED BY <1>2
<1>4. s \in States
  BY DEF Closed
<1>5. PICK f : f \in [0..n -> States] /\ Iterates(f, n, s, g)
  <2> HIDE DEF g, n, h, s, Follows
  <2> QED BY <1>1, <1>3, <1>4, IterationExists, Zenon
<1>6. \A k \in 0..n : f[k] = IF k = 0 THEN s ELSE ReplayStep(rows, k, f[k - 1])
  <2>1. \A k \in 0..n : f[k] = IF k = 0 THEN s ELSE g[<<k, f[k - 1]>>]
    BY <1>5 DEF Iterates
  <2>2. n \in Nat
    BY <1>1
  <2>3. \A k \in 1..n : g[<<k, f[k - 1]>>] = ReplayStep(rows, k, f[k - 1])
    <3> HIDE DEF n
    <3> QED BY <1>5, <2>2
  <2> HIDE DEF g, n, s
  <2>4. \A k \in 0..n : k # 0 => k \in 1..n
    BY <2>2
  <2> QED BY <2>1, <2>3, <2>4, Zenon
<1>7. Follows(f)
  <2> HIDE DEF n, s
  <2> QED BY <1>5, <1>6
<1>8. Follows(h)
  BY <1>7, Zenon DEF ReplaySteps
<1>9. \A k \in 0..n : h[k] = IF k = 0 THEN s ELSE ReplayStep(rows, k, h[k - 1])
  <2> HIDE DEF h, n, s
  <2> QED BY <1>8
<1> HIDE DEF h, n, g, s, Follows
<1>10. h[0] = s /\ \A k \in 1..n : h[k] = ReplayStep(rows, k, h[k - 1])
  BY <1>1, <1>9
<1>11. f[0] = s /\ \A k \in 1..n : f[k] = ReplayStep(rows, k, f[k - 1])
  BY <1>1, <1>6
<1>12. \A k \in 0..n : f[k] = h[k]
  <2>1. f[0] = h[0]
    BY <1>10, <1>11
  <2>2. \A k \in 1..n : f[k - 1] = h[k - 1] => f[k] = h[k]
    BY <1>10, <1>11
  <2> QED BY <1>1, <2>1, <2>2, EqualUpTo, Zenon
<1>13. \A k \in 0..n : h[k] \in States
  BY <1>5, <1>12
<1> QED BY <1>10, <1>13 DEF h, n, s

LEMMA ReplayTyped ==
    ASSUME NEW Texts, NEW States, Closed(Texts, States), NEW rows \in Seq(Row(Texts))
    PROVE  Replayed(rows) \in States /\ Replayed(rows).text \in Texts
<1>1. Len(rows) \in 0..Len(rows)
  BY RowTyped
<1>2. Replayed(rows) \in States
  BY <1>1, ReplayUnfolds, ReplayStepsValue
<1> QED BY <1>2 DEF Closed

\* Sequences that start alike replay alike up to there.
LEMMA ReplayAgrees ==
    ASSUME NEW Texts, NEW States, Closed(Texts, States), NEW rows \in Seq(Row(Texts)),
           NEW others \in Seq(Row(Texts)), NEW n \in Nat, n <= Len(rows), n <= Len(others),
           \A k \in 1..n : others[k] = rows[k]
    PROVE  \A k \in 0..n : ReplaySteps(rows)[k] = ReplaySteps(others)[k]
<1> DEFINE f == ReplaySteps(rows)
           h == ReplaySteps(others)
<1>1. Len(rows) \in Nat /\ Len(others) \in Nat
  BY RowTyped
<1>2. f[0] = h[0]
  BY ReplayStepsValue
<1>3. ASSUME NEW k \in 1..n, f[k - 1] = h[k - 1] PROVE f[k] = h[k]
  <2>1. k \in 1..Len(rows) /\ k \in 1..Len(others) /\ others[k] = rows[k]
    BY <1>1
  <2>2. f[k] = ReplayStep(rows, k, f[k - 1])
    BY <2>1, ReplayStepsValue
  <2>3. h[k] = ReplayStep(others, k, h[k - 1])
    BY <2>1, ReplayStepsValue
  <2> HIDE DEF f, h
  <2> QED BY <1>3, <2>1, <2>2, <2>3 DEF ReplayStep
<1> HIDE DEF f, h
<1>4. \A k \in 0..n : f[k] = h[k]
  BY <1>2, <1>3, EqualUpTo, Zenon
<1> QED BY <1>4 DEF f, h

LEMMA PrefixTyped ==
    ASSUME NEW Texts, NEW rows \in Seq(Row(Texts)), NEW n \in 0..Len(rows)
    PROVE  /\ SubSeq(rows, 1, n) \in Seq(Row(Texts)) /\ Len(SubSeq(rows, 1, n)) = n
           /\ \A k \in 1..n : SubSeq(rows, 1, n)[k] = rows[k]
<1>1. Len(rows) \in Nat /\ \A k \in 1..Len(rows) : rows[k] \in Row(Texts)
  BY RowTyped
<1>2. \A k \in 1..n : rows[k] \in Row(Texts)
  BY <1>1
<1>3. n \in Int /\ 1 \in Int /\ n \in Nat
  BY <1>1
<1>4. /\ SubSeq(rows, 1, n) \in Seq(Row(Texts))
      /\ Len(SubSeq(rows, 1, n)) = IF 1 <= n THEN n - 1 + 1 ELSE 0
      /\ \A k \in 1..(n - 1 + 1) : SubSeq(rows, 1, n)[k] = rows[1 + k - 1]
  BY <1>2, <1>3, SubSeqProperties
<1> QED BY <1>3, <1>4

\* A prefix replays to the state reached there.
LEMMA PrefixReplays ==
    ASSUME NEW Texts, NEW States, Closed(Texts, States), NEW rows \in Seq(Row(Texts)),
           NEW n \in 0..Len(rows)
    PROVE  Replayed(SubSeq(rows, 1, n)) = ReplaySteps(rows)[n]
<1> DEFINE others == SubSeq(rows, 1, n)
<1>1. n \in Nat /\ n <= Len(rows) /\ n \in 0..n
  BY RowTyped
<1>2. others \in Seq(Row(Texts)) /\ Len(others) = n /\ \A k \in 1..n : others[k] = rows[k]
  BY PrefixTyped
<1> HIDE DEF others
<1>3. n <= Len(others)
  BY <1>1, <1>2
<1>4. ReplaySteps(rows)[n] = ReplaySteps(others)[n]
  BY <1>1, <1>2, <1>3, ReplayAgrees
<1>5. Replayed(others) = ReplaySteps(rows)[n]
  BY <1>2, <1>4, ReplayUnfolds
<1> QED BY <1>5 DEF others

\* The last row decides: an update is applied to what came before, and any
\* other row is read alone.
LEMMA LastReplays ==
    ASSUME NEW Texts, NEW States, Closed(Texts, States), NEW rows \in Seq(Row(Texts)),
           NEW n \in 1..Len(rows), rows[n].kind # "update" \/ n = 1
    PROVE  ReplaySteps(rows)[n] = Checkpoint(rows[n].text)
<1>1. ReplaySteps(rows)[n] = ReplayStep(rows, n, ReplaySteps(rows)[n - 1])
  BY ReplayStepsValue
<1> QED BY <1>1 DEF ReplayStep

LEMMA AppendReplays ==
    ASSUME NEW Texts, NEW States, Closed(Texts, States), NEW rows \in Seq(Row(Texts)),
           NEW r \in Row(Texts)
    PROVE  /\ \A k \in 0..Len(rows) : ReplaySteps(Append(rows, r))[k] = ReplaySteps(rows)[k]
           /\ r.kind # "update" => Replayed(Append(rows, r)) = Checkpoint(r.text)
           /\ r.kind = "update" /\ rows # <<>> =>
                Replayed(Append(rows, r)) = ApplyUpdate(Replayed(rows), r.actor, r.base, r.text)
<1> DEFINE n == Len(rows)
           more == Append(rows, r)
<1>1. n \in Nat /\ (rows # <<>> => n # 0)
  BY RowTyped, EmptySeq
<1>2. /\ more \in Seq(Row(Texts)) /\ Len(more) = n + 1 /\ more[n + 1] = r
      /\ \A k \in 1..n : more[k] = rows[k]
  BY AppendProperties
<1>3. Replayed(rows) = ReplaySteps(rows)[n]
  BY ReplayUnfolds
<1> HIDE DEF more
<1>4. Replayed(more) = ReplaySteps(more)[n + 1]
  BY <1>2, ReplayUnfolds
<1>5. \A k \in 0..n : ReplaySteps(more)[k] = ReplaySteps(rows)[k]
  <2>1. n <= Len(rows) /\ n <= Len(more)
    BY <1>1, <1>2
  <2> QED BY <1>1, <1>2, <2>1, ReplayAgrees
<1>6. ReplaySteps(more)[n + 1] = ReplayStep(more, n + 1, ReplaySteps(rows)[n])
  <2>1. n + 1 \in 1..Len(more) /\ (n + 1) - 1 = n /\ n \in 0..n
    BY <1>1, <1>2
  <2>2. ReplaySteps(more)[n + 1] = ReplayStep(more, n + 1, ReplaySteps(more)[(n + 1) - 1])
    BY <1>2, <2>1, ReplayStepsValue
  <2> QED BY <1>5, <2>1, <2>2
<1>7. r.kind # "update" => Replayed(more) = Checkpoint(r.text)
  BY <1>2, <1>4, <1>6 DEF ReplayStep
<1>8. r.kind = "update" /\ rows # <<>> =>
        Replayed(more) = ApplyUpdate(Replayed(rows), r.actor, r.base, r.text)
  <2> SUFFICES ASSUME r.kind = "update", rows # <<>>
               PROVE  Replayed(more) = ApplyUpdate(Replayed(rows), r.actor, r.base, r.text)
    OBVIOUS
  <2>1. n + 1 > 1
    BY <1>1
  <2> QED BY <1>2, <1>3, <1>4, <1>6, <2>1 DEF ReplayStep
<1> QED BY <1>5, <1>7, <1>8 DEF more, n

-----------------------------------------------------------------------------
(* Compaction.                                                             *)

\* f picks rows, the first and the last among them, that read as before.
Thins(new, rows, f) ==
    /\ Len(new) \in 1..Len(rows)
    /\ f \in [1..Len(new) -> 1..Len(rows)]
    /\ f[1] = 1 /\ f[Len(new)] = Len(rows)
    /\ \A i, j \in 1..Len(new) : f[i] <= f[j] <=> i <= j
    /\ \A i \in 1..Len(new) : /\ new[i].at = rows[f[i]].at
                              /\ ReplaySteps(new)[i].text = ReplaySteps(rows)[f[i]].text

LEMMA CompactThins ==
    ASSUME NEW Texts, NEW States, Closed(Texts, States), NEW rows \in Seq(Row(Texts)), rows # <<>>,
           NEW policy \in Policy
    PROVE  /\ Compact(rows, policy) \in Seq(Row(Texts))
           /\ \E f : Thins(Compact(rows, policy), rows, f)
<1> DEFINE n == Len(rows)
           older == n - policy.revisions
           kept == {k \in DOMAIN rows : k > older \/ (k - 1) % policy.frequency = 0}
           m == Cardinality(kept)
           textAt(i) == Replayed(SubSeq(rows, 1, NthOf(kept, i))).text
           new == Compact(rows, policy)
<1>1. n \in Nat /\ n # 0 /\ DOMAIN rows = 1..n /\ policy.revisions \in Nat \ {0} /\ policy.frequency \in Nat \ {0}
  BY RowTyped, EmptySeq DEF Policy
<1>2. CASE n <= policy.revisions
  <2>1. new = rows
    BY <1>2 DEF Compact
  <2> DEFINE f == [i \in 1..n |-> i]
  <2>2. Thins(rows, rows, f)
    <3> HIDE DEF n
    <3> QED BY <1>1 DEF Thins, n
  <2> QED BY <2>1, <2>2
<1>3. CASE ~(n <= policy.revisions)
  <2>1. new = [i \in 1..m |-> CheckpointRow(rows[NthOf(kept, i)].at,
                                            IF i = 1 THEN rows[NthOf(kept, i)].base ELSE textAt(i - 1), textAt(i))]
    BY <1>3 DEF Compact
  <2>2. kept \subseteq 1..n /\ 1 \in kept /\ n \in kept
    <3>1. older \in Int /\ older < n
      BY <1>1
    <3>2. (1 - 1) % policy.frequency = 0
      BY <1>1
    <3> HIDE DEF older, n
    <3> QED BY <1>1, <3>1, <3>2
  <2> HIDE DEF older, n, m, kept, new
  <2>3. IsFiniteSet(kept) /\ kept \subseteq Nat
    <3>1. IsFiniteSet(1..n)
      BY <1>1, FS_Interval
    <3>2. kept \in SUBSET (1..n) /\ 1..n \subseteq Nat
      BY <1>1, <2>2
    <3>3. IsFiniteSet(kept)
      BY <3>1, <3>2, FS_Subset
    <3> QED BY <3>2, <3>3, Zenon
  <2>4. m \in Nat /\ \A i \in 1..m : NthOf(kept, i) \in kept /\ NthOf(kept, i) \in 1..n
    BY <2>2, <2>3, NthIsIn DEF m
  <2>5. \A i, j \in 1..m : NthOf(kept, i) <= NthOf(kept, j) <=> i <= j
    BY <2>3, NthOrders DEF m
  <2>6. /\ RankIn(kept, 1) \in 1..m /\ NthOf(kept, RankIn(kept, 1)) = 1
        /\ RankIn(kept, n) \in 1..m /\ NthOf(kept, RankIn(kept, n)) = n
    BY <2>2, <2>3, NthOfRank DEF m
  <2>7. m # 0 /\ 1 \in 1..m /\ m \in 1..m /\ NthOf(kept, 1) = 1 /\ NthOf(kept, m) = n
    <3>1. m # 0 /\ 1 \in 1..m /\ m \in 1..m /\ 1 <= RankIn(kept, 1) /\ RankIn(kept, n) <= m
      BY <2>4, <2>6
    <3>2. NthOf(kept, 1) <= 1 /\ n <= NthOf(kept, m)
      BY <2>5, <2>6, <3>1
    <3>3. NthOf(kept, 1) \in 1..n /\ NthOf(kept, m) \in 1..n
      BY <2>4, <3>1
    <3> QED BY <1>1, <3>1, <3>2, <3>3
  <2>8. m <= n
    <3>1. IsFiniteSet(1..n) /\ Cardinality(1..n) = n
      BY <1>1, FS_Interval
    <3> QED BY <2>2, <3>1, FS_Subset DEF m
  <2>9. \A i \in 1..m : textAt(i) \in Texts /\ textAt(i) = ReplaySteps(rows)[NthOf(kept, i)].text
    <3> TAKE i \in 1..m
    <3> DEFINE k == NthOf(kept, i)
    <3>1. k \in 0..Len(rows)
      BY <1>1, <2>4 DEF n
    <3> HIDE DEF k
    <3>2. SubSeq(rows, 1, k) \in Seq(Row(Texts)) /\ Replayed(SubSeq(rows, 1, k)) = ReplaySteps(rows)[k]
      BY <3>1, PrefixTyped, PrefixReplays
    <3>3. Replayed(SubSeq(rows, 1, k)).text \in Texts
      BY <3>2, ReplayTyped
    <3> QED BY <3>2, <3>3 DEF k
  <2>10. new \in [1..m -> Row(Texts)]
    <3>1. \A i \in 1..m : CheckpointRow(rows[NthOf(kept, i)].at,
             IF i = 1 THEN rows[NthOf(kept, i)].base ELSE textAt(i - 1), textAt(i)) \in Row(Texts)
      <4> TAKE i \in 1..m
      <4>1. rows[NthOf(kept, i)].at \in Nat /\ rows[NthOf(kept, i)].base \in Texts
        BY <2>4, RowTyped DEF Row, n
      <4>2. i # 1 => i - 1 \in 1..m
        BY <2>4
      <4>3. (i # 1 => textAt(i - 1) \in Texts) /\ textAt(i) \in Texts
        BY <2>9, <4>2
      <4> HIDE DEF textAt
      <4> QED BY <4>1, <4>3 DEF CheckpointRow, Row
    <3> HIDE DEF textAt
    <3> QED BY <2>1, <3>1
  <2>11. new \in Seq(Row(Texts)) /\ Len(new) = m
    BY <2>4, <2>10
  <2>12. \A i \in 1..m : /\ new[i].at = rows[NthOf(kept, i)].at
                         /\ new[i].kind = "checkpoint" /\ new[i].text = textAt(i)
    <3> HIDE DEF textAt
    <3> QED BY <2>1 DEF CheckpointRow
  <2>13. \A i \in 1..m : ReplaySteps(new)[i].text = textAt(i)
    <3> TAKE i \in 1..m
    <3>1. i \in 1..Len(new) /\ new[i].kind # "update"
      BY <2>11, <2>12
    <3>2. ReplaySteps(new)[i] = Checkpoint(new[i].text)
      BY <2>11, <3>1, LastReplays
    <3> HIDE DEF textAt
    <3> QED BY <2>12, <3>2 DEF Checkpoint
  <2> DEFINE f == [i \in 1..m |-> NthOf(kept, i)]
  <2>14. Thins(new, rows, f)
    <3>1. /\ f \in [1..m -> 1..n] /\ f[1] = 1 /\ f[m] = n /\ \A i \in 1..m : f[i] = NthOf(kept, i)
      BY <2>4, <2>7
    <3> HIDE DEF f, textAt
    <3>2. \A i, j \in 1..m : f[i] <= f[j] <=> i <= j
      BY <2>5, <3>1
    <3>3. \A i \in 1..m : /\ new[i].at = rows[f[i]].at
                          /\ ReplaySteps(new)[i].text = ReplaySteps(rows)[f[i]].text
      BY <2>9, <2>12, <2>13, <3>1
    <3>4. m \in 1..n
      BY <1>1, <2>4, <2>7, <2>8
    <3> QED BY <2>11, <3>1, <3>2, <3>3, <3>4 DEF Thins, n
  <2> QED BY <2>11, <2>14 DEF new
<1> QED BY <1>2, <1>3

-----------------------------------------------------------------------------
(* Reading the rows of a document.                                         *)

Ordered(rows) == \A i, j \in DOMAIN rows : i < j => rows[i].at < rows[j].at

RowsTo(rows, c) ==
    LET upTo == {k \in DOMAIN rows : rows[k].at <= c}
    IN  [i \in 1..Cardinality(upTo) |-> rows[NthOf(upTo, i)]]

\* The rows up to a cursor are the first few.
LEMMA RowsToPrefix ==
    ASSUME NEW Texts, NEW rows \in Seq(Row(Texts)), Ordered(rows), NEW c \in Nat
    PROVE  \E n \in 0..Len(rows) : /\ \A k \in 1..Len(rows) : rows[k].at <= c <=> k <= n
                                  /\ RowsTo(rows, c) = SubSeq(rows, 1, n)
<1> DEFINE m == Len(rows)
           upTo == {k \in DOMAIN rows : rows[k].at <= c}
<1>1. m \in Nat /\ DOMAIN rows = 1..m /\ \A k \in 1..m : rows[k].at \in Nat
  BY RowTyped DEF Row
<1>2. \E n \in 0..m : \A k \in 1..m : rows[k].at <= c <=> k <= n
  <2>1. CASE upTo = {}
    <3>1. \A k \in 1..m : ~(rows[k].at <= c) /\ ~(k <= 0)
      BY <1>1, <2>1
    <3> QED BY <1>1, <3>1
  <2>2. CASE upTo # {}
    <3>1. upTo \in SUBSET Nat /\ \A k \in upTo : k <= m
      BY <1>1
    <3>2. PICK n \in upTo : \A k \in upTo : k <= n
      <4> HIDE DEF upTo, m
      <4> QED BY <1>1, <2>2, <3>1, GreatestExists
    <3>3. n \in 1..m /\ rows[n].at <= c
      BY <1>1, <3>2
    <3>4. \A k \in 1..m : k <= n => rows[k].at <= c
      <4> HIDE DEF m
      <4> QED BY <1>1, <3>3 DEF Ordered
    <3>5. \A k \in 1..m : rows[k].at <= c => k <= n
      BY <1>1, <3>2
    <3> QED BY <1>1, <3>3, <3>4, <3>5
  <2> QED BY <2>1, <2>2
<1>3. PICK n \in 0..m : \A k \in 1..m : rows[k].at <= c <=> k <= n
  BY <1>2
<1>4. upTo = 1..n /\ n \in Nat
  <2> HIDE DEF m
  <2> QED BY <1>1, <1>3
<1>5. RowsTo(rows, c) = [i \in 1..Cardinality(1..n) |-> rows[NthOf(1..n, i)]]
  <2>1. RowsTo(rows, c) = [i \in 1..Cardinality(upTo) |-> rows[NthOf(upTo, i)]]
    BY DEF RowsTo
  <2> HIDE DEF upTo
  <2> QED BY <1>4, <2>1
<1>6. Cardinality(1..n) = n
  BY <1>4, FS_Interval
<1>7. RowsTo(rows, c) = [i \in 1..n |-> rows[i]]
  BY <1>4, <1>5, <1>6, NthOfInterval
<1>8. /\ SubSeq(rows, 1, n) \in Seq(Row(Texts)) /\ Len(SubSeq(rows, 1, n)) = n
      /\ \A k \in 1..n : SubSeq(rows, 1, n)[k] = rows[k]
  BY <1>3, PrefixTyped
<1>9. SubSeq(rows, 1, n) = [i \in 1..n |-> rows[i]]
  <2>1. SubSeq(rows, 1, n) \in [1..n -> Row(Texts)]
    BY <1>8, LenProperties
  <2> QED BY <1>8, <2>1
<1> QED BY <1>3, <1>7, <1>9

\* The text of the rows up to c.
Reading(rows, c) == Replayed(RowsTo(rows, c)).text

LEMMA ReadingSteps ==
    ASSUME NEW Texts, NEW States, Closed(Texts, States), NEW rows \in Seq(Row(Texts)),
           Ordered(rows), NEW c \in Nat
    PROVE  \E n \in 0..Len(rows) :
             /\ \A k \in 1..Len(rows) : rows[k].at <= c <=> k <= n
             /\ RowsTo(rows, c) = <<>> <=> n = 0
             /\ Reading(rows, c) = ReplaySteps(rows)[n].text
             /\ Reading(rows, c) \in Texts
<1>1. PICK n \in 0..Len(rows) : /\ \A k \in 1..Len(rows) : rows[k].at <= c <=> k <= n
                               /\ RowsTo(rows, c) = SubSeq(rows, 1, n)
  BY RowsToPrefix
<1> DEFINE few == SubSeq(rows, 1, n)
<1>2. few \in Seq(Row(Texts)) /\ Len(few) = n
  BY PrefixTyped
<1>3. Replayed(few) = ReplaySteps(rows)[n]
  BY PrefixReplays
<1> HIDE DEF few
<1>4. Replayed(few).text \in Texts
  BY <1>2, ReplayTyped
<1>5. few = <<>> <=> n = 0
  BY <1>2, EmptySeq
<1>6. RowsTo(rows, c) = few
  BY <1>1 DEF few
<1> QED BY <1>1, <1>3, <1>4, <1>5, <1>6 DEF Reading

LEMMA NewerIn ==
    ASSUME NEW n \in Nat, NEW S \in SUBSET (1..n)
    PROVE  /\ Newer(S) \in 0..n /\ \A t \in S : t <= Newer(S)
           /\ S # {} => Newer(S) \in S
<1>1. CASE S = {}
  BY <1>1 DEF Newer
<1>2. CASE S # {}
  <2>1. S \in SUBSET Nat /\ \A t \in S : t <= n
    OBVIOUS
  <2>2. \E s \in S : \A t \in S : t <= s
    BY <1>2, <2>1, GreatestExists
  <2>3. Newer(S) \in S /\ \A t \in S : t <= Newer(S)
    BY <1>2, <2>2 DEF Newer
  <2>4. Newer(S) \in 1..n
    BY <2>3
  <2> QED BY <2>3, <2>4
<1> QED BY <1>1, <1>2

\* Rows as the tables hold them.
RowsOK(Texts, rows) ==
    rows \in Seq(Row(Texts)) /\ Ordered(rows) /\ \A k \in DOMAIN rows : rows[k].at # 0

LEMMA RowsAt ==
    ASSUME NEW Texts, NEW rows, RowsOK(Texts, rows)
    PROVE  /\ rows \in Seq(Row(Texts)) /\ Len(rows) \in Nat /\ DOMAIN rows = 1..Len(rows)
           /\ \A k \in DOMAIN rows : rows[k] \in Row(Texts) /\ rows[k].at \in Nat
           /\ rows # <<>> => 1 \in DOMAIN rows
<1>1. rows \in Seq(Row(Texts))
  BY DEF RowsOK
<1>2. Len(rows) \in Nat /\ DOMAIN rows = 1..Len(rows) /\ \A k \in DOMAIN rows : rows[k] \in Row(Texts)
  BY <1>1, RowTyped
<1>3. \A r \in Row(Texts) : r.at \in Nat
  BY DEF Row
<1>4. rows # <<>> => 1 \in DOMAIN rows
  BY <1>1, <1>2, EmptySeq
<1> QED BY <1>1, <1>2, <1>3, <1>4

LEMMA TipIs ==
    ASSUME NEW Texts, NEW rows, RowsOK(Texts, rows), NEW c \in Nat, NEW n \in 0..Len(rows),
           \A k \in 1..Len(rows) : rows[k].at <= c <=> k <= n
    PROVE  Tip(rows, c) = IF n = 0 THEN 0 ELSE rows[n].at
<1> DEFINE m == Len(rows)
           S == {rows[k].at : k \in {j \in DOMAIN rows : rows[j].at <= c}}
<1>1. rows \in Seq(Row(Texts))
  BY DEF RowsOK
<1>2. m \in Nat /\ DOMAIN rows = 1..m /\ \A k \in 1..m : rows[k].at \in Nat /\ rows[k].at # 0
  BY <1>1, RowTyped DEF Row, RowsOK
<1>3. S \in SUBSET (1..c)
  <2> HIDE DEF m
  <2> QED BY <1>2
<1>4. Newer(S) \in 0..c /\ (\A t \in S : t <= Newer(S)) /\ (S # {} => Newer(S) \in S)
  <2> HIDE DEF S
  <2> QED BY <1>3, NewerIn
<1>5. Tip(rows, c) = Newer(S)
  BY DEF Tip
<1>6. CASE n = 0
  <2>1. S = {}
    <3>1. \A k \in 1..m : ~(rows[k].at <= c)
      BY <1>2, <1>6
    <3> QED BY <1>2, <3>1
  <2> HIDE DEF S
  <2> QED BY <1>5, <1>6, <2>1 DEF Newer
<1>7. CASE n # 0
  <2>1. n \in 1..m /\ rows[n].at \in S
    <3>1. n \in 1..m /\ n <= n
      BY <1>2, <1>7
    <3>2. rows[n].at <= c
      BY <3>1
    <3> QED BY <1>2, <3>1, <3>2
  <2>2. \A t \in S : t \in Nat /\ t <= rows[n].at
    <3>1. ASSUME NEW k \in 1..m, rows[k].at <= c PROVE rows[k].at <= rows[n].at
      <4>1. k <= n
        BY <3>1
      <4> HIDE DEF m
      <4> QED BY <1>2, <2>1, <4>1 DEF RowsOK, Ordered
    <3> HIDE DEF m
    <3> QED BY <1>2, <3>1
  <2>3. Newer(S) \in S /\ rows[n].at <= Newer(S) /\ rows[n].at \in Nat
    <3> HIDE DEF S
    <3> QED BY <1>2, <1>4, <2>1
  <2>4. Newer(S) = rows[n].at
    <3> HIDE DEF S
    <3> QED BY <2>2, <2>3
  <2> QED BY <1>5, <1>7, <2>4
<1> QED BY <1>6, <1>7

LEMMA ThinsKeeps ==
    ASSUME NEW Texts, NEW rows, RowsOK(Texts, rows), rows # <<>>,
           NEW new \in Seq(Row(Texts)), NEW f, Thins(new, rows, f)
    PROVE  /\ RowsOK(Texts, new) /\ new # <<>> /\ new[1].at = rows[1].at
           /\ \A k \in DOMAIN new : \E j \in DOMAIN rows : new[k].at = rows[j].at
           /\ Replayed(new).text = Replayed(rows).text
<1> DEFINE m == Len(new)
           n == Len(rows)
<1>1. rows \in Seq(Row(Texts))
  BY DEF RowsOK
<1>2. /\ n \in Nat /\ DOMAIN rows = 1..n /\ m \in Nat /\ DOMAIN new = 1..m /\ m # 0 /\ n # 0
      /\ \A k \in 1..n : rows[k].at \in Nat /\ rows[k].at # 0
  <2>1. \A k \in DOMAIN rows : rows[k].at # 0
    BY DEF RowsOK
  <2>2. m \in 1..n
    BY DEF Thins
  <2>3. n \in Nat /\ DOMAIN rows = 1..n /\ DOMAIN new = 1..m
    BY <1>1, RowTyped
  <2>4. \A k \in 1..n : rows[k].at \in Nat
    BY <1>1, RowTyped DEF Row
  <2> QED BY <2>1, <2>2, <2>3, <2>4
<1>3. /\ f \in [1..m -> 1..n] /\ f[1] = 1 /\ f[m] = n
      /\ \A i, j \in 1..m : f[i] <= f[j] <=> i <= j
      /\ \A i \in 1..m : /\ new[i].at = rows[f[i]].at
                         /\ ReplaySteps(new)[i].text = ReplaySteps(rows)[f[i]].text
  BY DEF Thins
<1>4. Replayed(new).text = Replayed(rows).text
  <2>1. Replayed(new) = ReplaySteps(new)[m] /\ Replayed(rows) = ReplaySteps(rows)[n]
    BY ReplayUnfolds
  <2> HIDE DEF m, n
  <2>2. m \in 1..m
    BY <1>2
  <2> QED BY <1>3, <2>1, <2>2
<1> HIDE DEF m, n
<1>5. Ordered(new)
  <2> SUFFICES ASSUME NEW i \in 1..m, NEW j \in 1..m, i < j PROVE new[i].at < new[j].at
    BY <1>2 DEF Ordered
  <2>1. f[i] \in 1..n /\ f[j] \in 1..n /\ ~(f[j] <= f[i])
    BY <1>3
  <2>2. f[i] < f[j]
    BY <1>2, <2>1
  <2>3. rows[f[i]].at < rows[f[j]].at
    BY <1>2, <2>1, <2>2 DEF RowsOK, Ordered
  <2> QED BY <1>3, <2>3
<1>6. \A k \in 1..m : f[k] \in 1..n /\ new[k].at = rows[f[k]].at
  BY <1>3
<1>7. 1 \in 1..m /\ new[1].at = rows[1].at
  BY <1>2, <1>3
<1>8. new # <<>>
  BY <1>2, EmptySeq DEF m
<1> QED BY <1>2, <1>4, <1>5, <1>6, <1>7, <1>8 DEF RowsOK

\* Where the newest row up to c is kept, so is the text up to c.
LEMMA ThinsReads ==
    ASSUME NEW Texts, NEW States, Closed(Texts, States), NEW rows, RowsOK(Texts, rows), rows # <<>>,
           NEW new \in Seq(Row(Texts)), NEW f, Thins(new, rows, f),
           NEW c \in Nat, Tip(new, c) = Tip(rows, c)
    PROVE  Reading(new, c) = Reading(rows, c) /\ (RowsTo(new, c) = <<>> <=> RowsTo(rows, c) = <<>>)
<1>1. rows \in Seq(Row(Texts)) /\ Ordered(rows) /\ RowsOK(Texts, new) /\ Ordered(new)
  BY ThinsKeeps DEF RowsOK
<1>2. PICK n \in 0..Len(rows) :
             /\ \A k \in 1..Len(rows) : rows[k].at <= c <=> k <= n
             /\ RowsTo(rows, c) = <<>> <=> n = 0
             /\ Reading(rows, c) = ReplaySteps(rows)[n].text
  BY <1>1, ReadingSteps
<1>3. PICK m \in 0..Len(new) :
             /\ \A k \in 1..Len(new) : new[k].at <= c <=> k <= m
             /\ RowsTo(new, c) = <<>> <=> m = 0
             /\ Reading(new, c) = ReplaySteps(new)[m].text
  BY <1>1, ReadingSteps
<1>4. Tip(rows, c) = IF n = 0 THEN 0 ELSE rows[n].at
  BY <1>2, TipIs
<1>5. Tip(new, c) = IF m = 0 THEN 0 ELSE new[m].at
  BY <1>1, <1>3, TipIs
<1>6. /\ Len(rows) \in Nat /\ DOMAIN rows = 1..Len(rows) /\ Len(new) \in Nat
      /\ \A k \in 1..Len(rows) : rows[k].at \in Nat /\ rows[k].at # 0
      /\ \A k \in 1..Len(new) : new[k].at # 0
  <2>1. Len(rows) \in Nat /\ DOMAIN rows = 1..Len(rows) /\ Len(new) \in Nat /\ DOMAIN new = 1..Len(new)
    BY <1>1, RowTyped
  <2>2. \A k \in 1..Len(rows) : rows[k].at \in Nat
    BY <1>1, RowTyped DEF Row
  <2> QED BY <1>1, <2>1, <2>2 DEF RowsOK
<1>7. CASE n = 0
  <2>1. m = 0
    <3>1. m # 0 => m \in 1..Len(new)
      BY <1>6
    <3> QED BY <1>4, <1>5, <1>6, <1>7, <3>1
  <2>2. ReplaySteps(new)[0] = ReplaySteps(rows)[0]
    BY <1>1, ReplayStepsValue
  <2> QED BY <1>2, <1>3, <1>7, <2>1, <2>2
<1>8. CASE n # 0
  <2>1. n \in 1..Len(rows)
    BY <1>6, <1>8
  <2>2. m \in 1..Len(new) /\ new[m].at = rows[n].at
    <3>1. rows[n].at # 0
      BY <1>6, <2>1
    <3> QED BY <1>4, <1>5, <1>6, <1>8, <3>1
  <2>3. f[m] \in 1..Len(rows) /\ new[m].at = rows[f[m]].at
        /\ ReplaySteps(new)[m].text = ReplaySteps(rows)[f[m]].text
    BY <2>2 DEF Thins
  <2>4. f[m] = n
    <3>1. /\ f[m] < n => rows[f[m]].at < rows[n].at
          /\ n < f[m] => rows[n].at < rows[f[m]].at
      BY <1>1, <1>6, <2>1, <2>3 DEF Ordered
    <3>2. rows[f[m]].at = rows[n].at /\ rows[n].at \in Nat /\ f[m] \in Nat /\ n \in Nat
      BY <1>6, <2>1, <2>2, <2>3
    <3> QED BY <3>1, <3>2
  <2>5. m # 0
    BY <1>6, <2>2
  <2> QED BY <1>2, <1>3, <1>8, <2>3, <2>4, <2>5
<1> QED BY <1>7, <1>8

\* A newer row is appended.
LEMMA AppendKeeps ==
    ASSUME NEW Texts, NEW States, Closed(Texts, States), NEW old, RowsOK(Texts, old),
           NEW row \in Row(Texts), row.at # 0, \A k \in DOMAIN old : old[k].at < row.at
    PROVE  /\ RowsOK(Texts, Append(old, row)) /\ Append(old, row) # <<>>
           /\ Append(old, row)[1].at = IF old = <<>> THEN row.at ELSE old[1].at
           /\ \A k \in DOMAIN Append(old, row) : \/ Append(old, row)[k].at = row.at
                                               \/ \E j \in DOMAIN old : Append(old, row)[k].at = old[j].at
           /\ \A c \in Nat : c < row.at =>
                /\ Tip(Append(old, row), c) = Tip(old, c)
                /\ Reading(Append(old, row), c) = Reading(old, c)
                /\ RowsTo(Append(old, row), c) = <<>> <=> RowsTo(old, c) = <<>>
<1> DEFINE n == Len(old)
           more == Append(old, row)
<1>1. old \in Seq(Row(Texts)) /\ Ordered(old) /\ \A k \in DOMAIN old : old[k].at # 0
  BY DEF RowsOK
<1>2. /\ n \in Nat /\ DOMAIN old = 1..n /\ row.at \in Nat
      /\ \A k \in 1..n : old[k].at \in Nat /\ old[k].at # 0 /\ old[k].at < row.at
  <2>1. n \in Nat /\ DOMAIN old = 1..n
    BY <1>1, RowTyped
  <2>2. row.at \in Nat /\ \A k \in 1..n : old[k].at \in Nat
    BY <1>1, RowTyped DEF Row
  <2> QED BY <1>1, <2>1, <2>2
<1>3. /\ more \in Seq(Row(Texts)) /\ more # <<>> /\ Len(more) = n + 1 /\ more[n + 1] = row
      /\ \A k \in 1..n : more[k] = old[k]
  BY <1>1, AppendProperties
<1>4. DOMAIN more = 1..(n + 1)
  BY <1>3, LenProperties
<1>5. old = <<>> <=> n = 0
  BY <1>1, EmptySeq
<1> HIDE DEF more
<1>6. \A k \in 1..(n + 1) : more[k] = IF k = n + 1 THEN row ELSE old[k]
  <2> HIDE DEF n
  <2> QED BY <1>2, <1>3
<1>7. RowsOK(Texts, more)
  <2> HIDE DEF n
  <2>1. Ordered(more)
    <3> SUFFICES ASSUME NEW i \in 1..(n + 1), NEW j \in 1..(n + 1), i < j PROVE more[i].at < more[j].at
      BY <1>4 DEF Ordered
    <3>1. i \in 1..n /\ more[i] = old[i]
      BY <1>2, <1>3
    <3>2. CASE j = n + 1
      BY <1>2, <1>3, <3>1, <3>2
    <3>3. CASE j # n + 1
      <4>1. j \in 1..n /\ more[j] = old[j]
        BY <1>2, <1>3, <3>3
      <4>2. old[i].at < old[j].at
        BY <1>1, <1>2, <3>1, <4>1 DEF Ordered
      <4> QED BY <3>1, <4>1, <4>2
    <3> QED BY <3>2, <3>3
  <2>2. \A k \in DOMAIN more : more[k].at # 0
    BY <1>2, <1>4, <1>6
  <2> QED BY <1>3, <2>1, <2>2 DEF RowsOK
<1>8. more[1].at = IF old = <<>> THEN row.at ELSE old[1].at
  <2> HIDE DEF n
  <2> QED BY <1>2, <1>5, <1>6
<1>9. \A k \in DOMAIN more : more[k].at = row.at \/ \E j \in DOMAIN old : more[k].at = old[j].at
  <2> HIDE DEF n
  <2> QED BY <1>2, <1>4, <1>6
<1>10. ASSUME NEW c \in Nat, c < row.at
       PROVE  /\ Tip(more, c) = Tip(old, c) /\ Reading(more, c) = Reading(old, c)
              /\ RowsTo(more, c) = <<>> <=> RowsTo(old, c) = <<>>
  <2>1. PICK a \in 0..Len(old) :
             /\ \A k \in 1..Len(old) : old[k].at <= c <=> k <= a
             /\ RowsTo(old, c) = <<>> <=> a = 0
             /\ Reading(old, c) = ReplaySteps(old)[a].text
    BY <1>1, ReadingSteps
  <2>2. PICK b \in 0..Len(more) :
             /\ \A k \in 1..Len(more) : more[k].at <= c <=> k <= b
             /\ RowsTo(more, c) = <<>> <=> b = 0
             /\ Reading(more, c) = ReplaySteps(more)[b].text
    BY <1>3, <1>7, ReadingSteps DEF RowsOK
  <2>3. Tip(old, c) = IF a = 0 THEN 0 ELSE old[a].at
    BY <2>1, TipIs
  <2>4. Tip(more, c) = IF b = 0 THEN 0 ELSE more[b].at
    BY <1>7, <2>2, TipIs
  <2> HIDE DEF n
  <2>5. a \in 0..n /\ b \in 0..(n + 1) /\ (\A k \in 1..n : old[k].at <= c <=> k <= a)
        /\ (\A k \in 1..(n + 1) : more[k].at <= c <=> k <= b)
    BY <1>3, <2>1, <2>2 DEF n
  <2>6. b \in 0..n
    <3>1. n + 1 \in 1..(n + 1) /\ ~(row.at <= c)
      BY <1>2, <1>10
    <3>2. ~(n + 1 <= b)
      BY <1>3, <2>5, <3>1
    <3> QED BY <1>2, <2>5, <3>2
  <2>7. \A k \in 1..n : k <= a <=> k <= b
    <3>1. \A k \in 1..n : more[k] = old[k] /\ k \in 1..(n + 1)
      BY <1>2, <1>3
    <3> QED BY <2>5, <3>1
  <2>8. a = b
    <3>1. a \in Nat /\ b \in Nat /\ (a # 0 => a \in 1..n) /\ (b # 0 => b \in 1..n)
      BY <1>2, <2>5, <2>6
    <3>2. (a # 0 => a <= b) /\ (b # 0 => b <= a)
      BY <2>7, <3>1
    <3> QED BY <3>1, <3>2
  <2>9. ReplaySteps(more)[b] = ReplaySteps(old)[b]
    BY <1>1, <2>6, AppendReplays DEF more, n
  <2>10. b # 0 => more[b] = old[b]
    BY <1>2, <1>3, <2>6
  <2> QED BY <2>1, <2>2, <2>3, <2>4, <2>8, <2>9, <2>10
<1> QED BY <1>3, <1>7, <1>8, <1>9, <1>10 DEF more

LEMMA CompactKeeps ==
    ASSUME NEW Texts, NEW States, Closed(Texts, States), NEW old, RowsOK(Texts, old),
           NEW row \in Row(Texts), row.at # 0, \A k \in DOMAIN old : old[k].at < row.at,
           NEW policy \in Policy, NEW new, new = Compact(Append(old, row), policy)
    PROVE  /\ RowsOK(Texts, new) /\ new # <<>>
           /\ new[1].at = IF old = <<>> THEN row.at ELSE old[1].at
           /\ \A k \in DOMAIN new : new[k].at = row.at \/ \E j \in DOMAIN old : new[k].at = old[j].at
           /\ Replayed(new).text = Replayed(Append(old, row)).text
           /\ \A c \in Nat : c < row.at /\ Tip(new, c) = Tip(old, c) =>
                /\ Reading(new, c) = Reading(old, c)
                /\ RowsTo(new, c) = <<>> <=> RowsTo(old, c) = <<>>
<1>1. PICK more : more = Append(old, row)
  OBVIOUS
<1>2. /\ RowsOK(Texts, more) /\ more # <<>>
      /\ more[1].at = IF old = <<>> THEN row.at ELSE old[1].at
      /\ \A k \in DOMAIN more : more[k].at = row.at \/ \E j \in DOMAIN old : more[k].at = old[j].at
      /\ \A c \in Nat : c < row.at =>
           /\ Tip(more, c) = Tip(old, c) /\ Reading(more, c) = Reading(old, c)
           /\ RowsTo(more, c) = <<>> <=> RowsTo(old, c) = <<>>
  BY <1>1, AppendKeeps
<1>3. more \in Seq(Row(Texts))
  BY <1>2 DEF RowsOK
<1>4. new \in Seq(Row(Texts)) /\ \E f : Thins(new, more, f)
  BY <1>1, <1>2, <1>3, CompactThins
<1>5. PICK f : Thins(new, more, f)
  BY <1>4
<1>6. /\ RowsOK(Texts, new) /\ new # <<>> /\ new[1].at = more[1].at
      /\ \A k \in DOMAIN new : \E j \in DOMAIN more : new[k].at = more[j].at
      /\ Replayed(new).text = Replayed(more).text
  BY <1>2, <1>4, <1>5, ThinsKeeps
<1>7. ASSUME NEW c \in Nat, c < row.at, Tip(new, c) = Tip(old, c)
      PROVE  Reading(new, c) = Reading(old, c) /\ (RowsTo(new, c) = <<>> <=> RowsTo(old, c) = <<>>)
  <2>1. Tip(new, c) = Tip(more, c)
    BY <1>2, <1>7
  <2>2. Reading(new, c) = Reading(more, c) /\ (RowsTo(new, c) = <<>> <=> RowsTo(more, c) = <<>>)
    BY <1>2, <1>4, <1>5, <2>1, ThinsReads
  <2> QED BY <1>2, <1>7, <2>2
<1>8. \A k \in DOMAIN new : new[k].at = row.at \/ \E j \in DOMAIN old : new[k].at = old[j].at
  BY <1>2, <1>6
<1> QED BY <1>1, <1>2, <1>6, <1>7, <1>8

-----------------------------------------------------------------------------
(* The invariant.  Merging onto the loaded state keeps ServedIsMerged only  *)
(* if what a rewind reads back is a text: the rows of a document may not    *)
(* begin after a path revision that shows it.                               *)

TablesOK(Texts, States) ==
    /\ mounts \subseteq Mounts
    /\ path \in [Docs -> Paths \cup {NoPath}]
    /\ live \subseteq Known
    /\ DOMAIN served = Docs /\ DOMAIN held = Docs /\ DOMAIN log = Docs /\ DOMAIN history = Docs
    /\ number \in Nat
    /\ events \subseteq [at : 1..number, doc : Docs]
    /\ pathRevs \subseteq [at : 1..number, doc : Docs, path : Paths, live : BOOLEAN]
    /\ DOMAIN policies \subseteq Keys /\ \A k \in DOMAIN policies : policies[k] \in Policies
    /\ blurred \subseteq Docs
    /\ \A d \in Docs : /\ log[d] \in Seq(Update)
                       /\ RowsOK(Texts, history[d])
                       /\ \A k \in DOMAIN history[d] : history[d][k].at <= number
    /\ \A d \in Known : served[d] \in States /\ held[d] \in States /\ history[d] # <<>>
    /\ \A r \in pathRevs : r.doc \in Known /\ history[r.doc][1].at <= r.at

PastOK(Texts) ==
    past \subseteq [cursor : 0..number, paths : SUBSET (Docs \X Paths),
                   bodies : [Docs -> Texts \cup {NoBody}], lost : SUBSET Docs]

StoreInv(Texts, States) == TablesOK(Texts, States) /\ PastOK(Texts) /\ ServedIsMerged

LEMMA StoreTyped ==
    ASSUME NEW Texts, NEW States, TablesOK(Texts, States), PastOK(Texts)
    PROVE  TypeOK
<1>1. ASSUME NEW d \in Docs, NEW k \in DOMAIN history[d] PROVE RowShaped(history[d][k])
  <2>1. RowsOK(Texts, history[d]) /\ history[d][k].at <= number /\ number \in Nat
    BY DEF TablesOK
  <2>2. history[d] \in Seq(Row(Texts)) /\ history[d][k].at # 0
    BY <2>1 DEF RowsOK
  <2>3. k \in 1..Len(history[d])
    BY <2>2, RowTyped
  <2>4. history[d][k] \in Row(Texts)
    BY <2>2, <2>3, RowTyped
  <2> QED BY <2>1, <2>2, <2>4 DEF RowShaped, Row
<1>2. \A v \in past : v.cursor \in 0..number /\ v.paths \subseteq Docs \X Paths /\ DOMAIN v.bodies = Docs
  BY DEF PastOK
<1> QED BY <1>1, <1>2 DEF TablesOK, TypeOK

\* The views, old and new, that a step leaves.
LEMMA PastKept ==
    ASSUME NEW Texts, NEW States, Closed(Texts, States), PastOK(Texts), number \in Nat, number <= number',
           TablesOK(Texts, States)',
           Remember \/ \E d \in Docs : Forget(d)
    PROVE  PastOK(Texts)'
<1> DEFINE Past == [cursor : 0..number', paths : SUBSET (Docs \X Paths),
                    bodies : [Docs -> Texts \cup {NoBody}], lost : SUBSET Docs]
<1>1. View' \in Past
  <2>1. Cursor' \in 0..number'
    <3> DEFINE S == {e.at : e \in events'}
    <3>1. S \in SUBSET (1..number') /\ number' \in Nat
      BY DEF TablesOK
    <3> HIDE DEF S
    <3>2. Newer(S) \in 0..number'
      BY <3>1, NewerIn
    <3> QED BY <3>2 DEF Cursor, S
  <2>2. LivePaths' \in SUBSET (Docs \X Paths)
    BY DEF TablesOK, LivePaths, Known
  <2>3. [d \in Docs |-> Body(d)]' \in [Docs -> Texts \cup {NoBody}]
    <3>1. ASSUME NEW d \in Docs PROVE Body(d)' \in Texts \cup {NoBody}
      <4>1. d \in live' => served'[d] \in States
        BY DEF TablesOK
      <4> QED BY <4>1 DEF Closed, Body
    <3> QED BY <3>1
  <2>4. blurred' \in SUBSET Docs
    BY DEF TablesOK
  <2> QED BY <2>1, <2>2, <2>3, <2>4 DEF View
<1>2. number' \in Nat
  BY DEF TablesOK
<1>3. ASSUME NEW v \in past, NEW D \in SUBSET Docs PROVE [v EXCEPT !.lost = @ \cup D] \in Past
  <2>1. v \in Past
    BY <1>2 DEF PastOK
  <2> QED BY <2>1
<1>4. \A c : Dropped(c) \in SUBSET Docs
  BY DEF Dropped
<1> HIDE DEF Past
<1>5. ASSUME Remember PROVE past' \subseteq Past
  BY <1>1, <1>3, <1>4, <1>5 DEF Remember
<1>6. ASSUME NEW d \in Docs, Forget(d) PROVE past' \subseteq Past
  <2>1. \A v \in past : [v EXCEPT !.lost = @ \cup {d}] \in Past
    <3>1. {d} \in SUBSET Docs
      OBVIOUS
    <3> QED BY <1>3, <3>1
  <2> QED BY <1>1, <1>6, <2>1 DEF Forget
<1>7. past' \subseteq Past
  BY <1>5, <1>6
<1> QED BY <1>7 DEF PastOK, Past

LEMMA PolicyForTyped ==
    ASSUME NEW Texts, NEW States, TablesOK(Texts, States), NEW p \in Paths
    PROVE  PolicyFor(p) \in Policy
<1> DEFINE set == {i \in DOMAIN Chain[p] : Chain[p][i] \in DOMAIN policies}
           nearest == CHOOSE i \in set : \A j \in set : i <= j
<1>1. CASE set = {}
  BY <1>1, PolicyAssumption DEF PolicyFor
<1>2. CASE set # {}
  <2>1. set \in SUBSET Nat
    BY PolicyAssumption
  <2>2. \E i \in set : \A j \in set : i <= j
    <3> HIDE DEF set
    <3> QED BY <1>2, <2>1, LeastExists
  <2>3. nearest \in set
    <3> HIDE DEF set
    <3> QED BY <2>2
  <2>4. PolicyFor(p) = policies[Chain[p][nearest]]
    BY <1>2 DEF PolicyFor
  <2>5. Chain[p][nearest] \in DOMAIN policies
    <3> HIDE DEF nearest
    <3> QED BY <2>3
  <2> HIDE DEF nearest
  <2> QED BY <2>4, <2>5, PolicyAssumption DEF TablesOK
<1> QED BY <1>1, <1>2

\* A document's rows after a row is appended.
LEMMA RowsWritten ==
    ASSUME NEW Texts, NEW States, Closed(Texts, States), TablesOK(Texts, States),
           NEW d \in Docs, NEW p \in Paths, NEW row \in Row(Texts), number < row.at,
           NEW new, new = Appended(d, row, p)
    PROVE  /\ RowsOK(Texts, new) /\ new # <<>> /\ \A k \in DOMAIN new : new[k].at <= row.at
           /\ new[1].at = IF history[d] = <<>> THEN row.at ELSE history[d][1].at
           /\ Replayed(new).text = Replayed(Append(history[d], row)).text
           /\ \A c \in Nat : c <= number /\ Tip(new, c) = Tip(history[d], c) =>
                /\ Reading(new, c) = Reading(history[d], c)
                /\ RowsTo(new, c) = <<>> <=> RowsTo(history[d], c) = <<>>
<1>1. PICK old : old = history[d]
  OBVIOUS
<1>2. PICK policy \in Policy : policy = PolicyFor(p)
  BY PolicyForTyped
<1>3. number \in Nat /\ row.at \in Nat
  BY DEF TablesOK, Row
<1>4. RowsOK(Texts, old) /\ \A k \in DOMAIN old : old[k].at <= number
  BY <1>1 DEF TablesOK
<1>5. \A k \in DOMAIN old : old[k].at \in Nat
  <2>1. old \in Seq(Row(Texts))
    BY <1>4 DEF RowsOK
  <2> QED BY <2>1, RowTyped DEF Row
<1>6. row.at # 0 /\ \A k \in DOMAIN old : old[k].at < row.at
  BY <1>3, <1>4, <1>5
<1>7. new = Compact(Append(old, row), policy)
  BY <1>1, <1>2 DEF Appended
<1>8. /\ RowsOK(Texts, new) /\ new # <<>>
      /\ new[1].at = IF old = <<>> THEN row.at ELSE old[1].at
      /\ \A k \in DOMAIN new : new[k].at = row.at \/ \E j \in DOMAIN old : new[k].at = old[j].at
      /\ Replayed(new).text = Replayed(Append(old, row)).text
      /\ \A c \in Nat : c < row.at /\ Tip(new, c) = Tip(old, c) =>
           /\ Reading(new, c) = Reading(old, c)
           /\ RowsTo(new, c) = <<>> <=> RowsTo(old, c) = <<>>
  BY <1>4, <1>6, <1>7, CompactKeeps
<1>9. \A k \in DOMAIN new : new[k].at <= row.at
  BY <1>3, <1>5, <1>6, <1>8
<1>10. \A c \in Nat : c <= number => c < row.at
  BY <1>3
<1> QED BY <1>1, <1>8, <1>9, <1>10

\* An operation that writes the body of one document.
LEMMA DocWritten ==
    ASSUME NEW Texts, NEW States, Closed(Texts, States), TablesOK(Texts, States),
           NEW d \in Docs, NEW p \in Paths, NEW row \in Row(Texts), row.at = number + 1,
           history' = [history EXCEPT ![d] = Appended(d, row, p)],
           DOMAIN served' = Docs, DOMAIN held' = Docs, DOMAIN log' = Docs,
           \A e \in Docs \ {d} : served'[e] = served[e] /\ held'[e] = held[e] /\ log'[e] = log[e],
           served'[d] \in States, held'[d] \in States, log'[d] \in Seq(Update),
           path' = [path EXCEPT ![d] = p], live' = live \cup {d},
           InsertEvent(d), InsertPath(d, p, TRUE) \/ UNCHANGED pathRevs,
           blurred' \subseteq Docs, UNCHANGED <<mounts, policies>>
    PROVE  TablesOK(Texts, States)'
<1>1. PICK new : new = Appended(d, row, p)
  OBVIOUS
<1>2. number \in Nat /\ number' = number + 1 /\ number' \in Nat
  BY DEF TablesOK, InsertEvent
<1>3. /\ RowsOK(Texts, new) /\ new # <<>> /\ \A k \in DOMAIN new : new[k].at <= row.at
      /\ new[1].at = IF history[d] = <<>> THEN row.at ELSE history[d][1].at
  BY <1>1, <1>2, RowsWritten
<1>4. /\ DOMAIN history = Docs /\ DOMAIN history' = Docs /\ history'[d] = new
      /\ \A e \in Docs \ {d} : history'[e] = history[e]
  BY <1>1 DEF TablesOK
<1>5. path' \in [Docs -> Paths \cup {NoPath}] /\ live' \subseteq Known' /\ Known' = Known \cup {d}
  BY PlacesAssumption DEF TablesOK, Known
<1>6. events' \subseteq [at : 1..number', doc : Docs]
  BY <1>2 DEF TablesOK, InsertEvent
<1>7. \A r \in pathRevs' : r \in pathRevs \/ r = [at |-> number + 1, doc |-> d, path |-> p, live |-> TRUE]
  BY DEF InsertPath
<1>8. pathRevs' \subseteq [at : 1..number', doc : Docs, path : Paths, live : BOOLEAN]
  <2>1. \A r \in pathRevs : r \in [at : 1..number', doc : Docs, path : Paths, live : BOOLEAN]
    BY <1>2 DEF TablesOK
  <2>2. [at |-> number + 1, doc |-> d, path |-> p, live |-> TRUE]
           \in [at : 1..number', doc : Docs, path : Paths, live : BOOLEAN]
    BY <1>2
  <2> QED BY <1>7, <2>1, <2>2
<1>9. ASSUME NEW e \in Docs
      PROVE  /\ log'[e] \in Seq(Update) /\ RowsOK(Texts, history'[e])
             /\ \A k \in DOMAIN history'[e] : history'[e][k].at <= number'
  <2>1. CASE e = d
    BY <1>2, <1>3, <1>4, <2>1
  <2>2. CASE e # d
    <3>1. log[e] \in Seq(Update) /\ RowsOK(Texts, history[e]) /\ history'[e] = history[e] /\ log'[e] = log[e]
          /\ \A k \in DOMAIN history[e] : history[e][k].at <= number
      BY <1>4, <2>2 DEF TablesOK
    <3>2. \A k \in DOMAIN history[e] : history[e][k].at \in Nat
      BY <3>1, RowsAt
    <3> QED BY <1>2, <3>1, <3>2
  <2> QED BY <2>1, <2>2
<1>10. ASSUME NEW e \in Known' PROVE served'[e] \in States /\ held'[e] \in States /\ history'[e] # <<>>
  BY <1>3, <1>4, <1>5 DEF TablesOK, Known
<1>11. ASSUME NEW r \in pathRevs' PROVE r.doc \in Known' /\ history'[r.doc][1].at <= r.at
  <2>1. CASE r \in pathRevs
    <3>1. r.doc \in Known /\ history[r.doc][1].at <= r.at /\ history[r.doc] # <<>>
      BY <2>1 DEF TablesOK
    <3>2. r.doc = d => new[1].at = history[d][1].at
      BY <1>3, <3>1
    <3> QED BY <1>4, <1>5, <3>1, <3>2 DEF Known
  <2>2. CASE r = [at |-> number + 1, doc |-> d, path |-> p, live |-> TRUE]
    <3>1. 1 \in DOMAIN new
      <4>1. new \in Seq(Row(Texts))
        BY <1>3 DEF RowsOK
      <4> QED BY <1>3, <4>1, RowTyped, EmptySeq
    <3>2. new[1].at <= number + 1
      BY <1>3, <3>1
    <3> QED BY <1>4, <1>5, <2>2, <3>2
  <2> QED BY <1>7, <2>1, <2>2
<1> QED BY <1>2, <1>4, <1>5, <1>6, <1>8, <1>9, <1>10, <1>11 DEF TablesOK

\* An operation that changes no rows: the other tables as they may become.
LEMMA RowsKept ==
    ASSUME NEW Texts, NEW States, TablesOK(Texts, States),
           UNCHANGED <<served, held, log, history>>,
           number' \in Nat, number <= number',
           events' \subseteq [at : 1..number', doc : Docs],
           \A r \in pathRevs' : \/ r \in pathRevs
                                \/ /\ r \in [at : 1..number', doc : Docs, path : Paths, live : BOOLEAN]
                                   /\ number < r.at /\ r.doc \in Known,
           path' \in [Docs -> Paths \cup {NoPath}], Known' = Known, live' \subseteq Known,
           mounts' \subseteq Mounts, blurred' \subseteq Docs,
           DOMAIN policies' \subseteq Keys, \A k \in DOMAIN policies' : policies'[k] \in Policies
    PROVE  TablesOK(Texts, States)'
<1>1. number \in Nat
  BY DEF TablesOK
<1>2. \A d \in Docs : \A k \in DOMAIN history[d] : history[d][k].at \in Nat /\ history[d][k].at <= number
  <2> TAKE d \in Docs
  <2>1. history[d] \in Seq(Row(Texts)) /\ \A k \in DOMAIN history[d] : history[d][k].at <= number
    BY DEF TablesOK, RowsOK
  <2> QED BY <2>1, RowTyped DEF Row
<1>3. pathRevs' \subseteq [at : 1..number', doc : Docs, path : Paths, live : BOOLEAN]
  <2>1. \A r \in pathRevs : r \in [at : 1..number', doc : Docs, path : Paths, live : BOOLEAN]
    BY <1>1 DEF TablesOK
  <2> QED BY <2>1
<1>4. ASSUME NEW r \in pathRevs' PROVE r.doc \in Known' /\ history[r.doc][1].at <= r.at
  <2>1. CASE r \in pathRevs
    BY <2>1 DEF TablesOK
  <2>2. CASE r \notin pathRevs
    <3>1. r.doc \in Known /\ number < r.at /\ r.at \in Nat
      BY <2>2, <1>1
    <3>2. history[r.doc] # <<>> /\ history[r.doc] \in Seq(Row(Texts)) /\ r.doc \in Docs
      BY <3>1 DEF TablesOK, RowsOK, Known
    <3>3. 1 \in DOMAIN history[r.doc]
      BY <3>2, RowTyped, EmptySeq
    <3> QED BY <1>1, <1>2, <3>1, <3>2, <3>3
  <2> QED BY <2>1, <2>2
<1>5. \A d \in Docs : \A k \in DOMAIN history[d] : history[d][k].at <= number'
  BY <1>1, <1>2
<1> QED BY <1>3, <1>4, <1>5 DEF TablesOK

LEMMA CheckpointTyped ==
    ASSUME NEW Texts, NEW at \in Nat, NEW base \in Texts, NEW text \in Texts
    PROVE  /\ CheckpointRow(at, base, text) \in Row(Texts)
           /\ CheckpointRow(at, base, text).at = at /\ CheckpointRow(at, base, text).kind # "update"
           /\ CheckpointRow(at, base, text).text = text
  BY DEF CheckpointRow, Row

\* A loaded document is a state, whatever its log.
LEMMA LoadedState ==
    ASSUME NEW Texts, NEW States, Closed(Texts, States), TablesOK(Texts, States), NEW d \in Known
    PROVE  Loaded(d) \in States /\ Loaded(d).text \in Texts
<1>1. held[d] \in States /\ log[d] \in Seq(Update)
  BY DEF TablesOK, Known
<1>2. LoadedFrom(held[d], log[d]) \in States
  BY <1>1, LoadedTyped
<1> QED BY <1>2 DEF Loaded, Closed

\* A checkpoint makes the served state the held one and empties the log.
LEMMA WriteKeeps ==
    ASSUME NEW Texts, NEW States, Closed(Texts, States), TablesOK(Texts, States),
           NEW d \in Docs, NEW p \in Paths, NEW state \in States, NEW base \in Texts,
           WriteCheckpoint(d, state, base, p),
           path' = [path EXCEPT ![d] = p], live' = live \cup {d},
           InsertEvent(d), InsertPath(d, p, TRUE) \/ UNCHANGED pathRevs,
           blurred' \subseteq Docs, UNCHANGED <<mounts, policies>>
    PROVE  TablesOK(Texts, States)' /\ (ServedIsMerged => ServedIsMerged')
<1>1. TablesOK(Texts, States) /\ number \in Nat /\ DOMAIN served = Docs /\ DOMAIN held = Docs /\ DOMAIN log = Docs
  BY DEF TablesOK
<1>2. PICK row \in Row(Texts) : row = CheckpointRow(number + 1, base, state.text) /\ row.at = number + 1
  <2>1. state.text \in Texts /\ number + 1 \in Nat
    BY <1>1 DEF Closed
  <2>2. /\ CheckpointRow(number + 1, base, state.text) \in Row(Texts)
        /\ CheckpointRow(number + 1, base, state.text).at = number + 1
    BY <2>1, CheckpointTyped
  <2> QED BY <2>2
<1>3. /\ DOMAIN served' = Docs /\ DOMAIN held' = Docs /\ DOMAIN log' = Docs
      /\ served'[d] = state /\ held'[d] = state /\ log'[d] = <<>>
      /\ \A e \in Docs \ {d} : served'[e] = served[e] /\ held'[e] = held[e] /\ log'[e] = log[e]
  BY <1>1 DEF WriteCheckpoint
<1>4. history' = [history EXCEPT ![d] = Appended(d, row, p)]
  BY <1>2 DEF WriteCheckpoint
<1>5. <<>> \in Seq(Update)
  BY EmptySeq
<1>6. TablesOK(Texts, States)'
  BY <1>1, <1>2, <1>3, <1>4, <1>5, DocWritten
<1>7. ASSUME ServedIsMerged, NEW e \in live' PROVE served'[e].text = LoadedFrom(held'[e], log'[e]).text
  <2>1. CASE e = d
    BY <1>3, <2>1, LoadedEmpty
  <2>2. CASE e # d
    <3>1. e \in live /\ e \in Docs
      BY <1>1, <2>2 DEF TablesOK, Known
    <3> QED BY <1>3, <1>7, <2>2, <3>1 DEF ServedIsMerged, Loaded
  <2> QED BY <2>1, <2>2
<1> QED BY <1>6, <1>7 DEF ServedIsMerged, Loaded

LEMMA CreateKeeps ==
    ASSUME NEW Texts, NEW States, Closed(Texts, States), TablesOK(Texts, States),
           NEW d \in Docs, NEW p \in Paths, NEW t \in Edits, CreateDocument(d, p, t)
    PROVE  TablesOK(Texts, States)' /\ (ServedIsMerged => ServedIsMerged')
<1>1. Checkpoint(t) \in States /\ Empty \in Texts
  BY DEF Closed
<1>2. /\ WriteCheckpoint(d, Checkpoint(t), Empty, p) /\ path' = [path EXCEPT ![d] = p]
      /\ live' = live \cup {d} /\ InsertEvent(d) /\ InsertPath(d, p, TRUE)
      /\ blurred' \subseteq Docs /\ UNCHANGED <<mounts, policies>>
  BY DEF CreateDocument, TablesOK
<1> QED BY <1>1, <1>2, WriteKeeps

\* The state a restore brings back.
LEMMA RestoredState ==
    ASSUME NEW Texts, NEW States, Closed(Texts, States), NEW rows, RowsOK(Texts, rows), NEW k \in DOMAIN rows
    PROVE  (IF Replayed(SubSeq(rows, 1, k)).text = rows[k].text THEN Replayed(SubSeq(rows, 1, k))
            ELSE Checkpoint(rows[k].text)) \in States
<1>1. rows \in Seq(Row(Texts)) /\ Len(rows) \in Nat /\ k \in 1..Len(rows) /\ rows[k] \in Row(Texts)
  BY RowsAt
<1>2. k \in 0..Len(rows) /\ rows[k].text \in Texts /\ Checkpoint(rows[k].text) \in States
  BY <1>1 DEF Row, Closed
<1>3. SubSeq(rows, 1, k) \in Seq(Row(Texts))
  BY <1>1, <1>2, PrefixTyped
<1>4. Replayed(SubSeq(rows, 1, k)) \in States
  BY <1>3, ReplayTyped
<1> QED BY <1>2, <1>4

LEMMA RestoreKeeps ==
    ASSUME NEW Texts, NEW States, Closed(Texts, States), TablesOK(Texts, States),
           NEW d \in Docs, NEW k \in DOMAIN history[d], NEW p \in Paths, RestoreDocument(d, k, p)
    PROVE  TablesOK(Texts, States)' /\ (ServedIsMerged => ServedIsMerged')
<1> DEFINE own == history[d][k].text
           replay == Replayed(SubSeq(history[d], 1, k))
           target == IF replay.text = own THEN replay ELSE Checkpoint(own)
<1>1. TablesOK(Texts, States) /\ RowsOK(Texts, history[d]) /\ d \in Known
  BY DEF TablesOK, RestoreDocument
<1>2. target \in States
  BY <1>1, RestoredState
<1>3. Loaded(d).text \in Texts
  BY <1>1, LoadedState
<1>4. /\ WriteCheckpoint(d, target, Loaded(d).text, p) /\ path' = [path EXCEPT ![d] = p]
      /\ live' = live \cup {d} /\ InsertEvent(d) /\ (InsertPath(d, p, TRUE) \/ UNCHANGED pathRevs)
      /\ blurred' = blurred \ {d} /\ UNCHANGED <<mounts, policies>>
  BY DEF RestoreDocument
<1>5. blurred' \subseteq Docs
  BY <1>1, <1>4 DEF TablesOK
<1> HIDE DEF target
<1> QED BY <1>2, <1>3, <1>4, <1>5, WriteKeeps

LEMMA ConvergedTyped ==
    ASSUME NEW Texts, NEW States, Closed(Texts, States), NEW a \in Actors, NEW b \in Bases,
           NEW t \in Edits, NEW current \in States, NEW result, result = Converged(a, b, t, current)
    PROVE  /\ result.state \in States /\ result.merge \in BOOLEAN
           /\ result.merge => result.state = ApplyUpdate(current, a, b, t)
           /\ ~result.merge => result.state = Checkpoint(result.state.text)
<1>1. ApplyUpdate(current, a, b, t) \in States /\ Checkpoint(t) \in States
      /\ Checkpoint(Union(b, current.text, t)) \in States
  BY DEF Closed
<1> QED BY <1>1 DEF Converged, Checkpoint

\* An edit is logged only if it is the whole step from the held state.
LEMMA UpdateKeeps ==
    ASSUME NEW Texts, NEW States, Closed(Texts, States), TablesOK(Texts, States),
           NEW d \in Docs, NEW a \in Actors, NEW b \in Bases, NEW t \in Edits, UpdateDocument(d, a, b, t)
    PROVE  TablesOK(Texts, States)' /\ (ServedIsMerged => ServedIsMerged')
<1> DEFINE current == Loaded(d)
           result == Converged(a, b, t, current)
           row == IF result.merge THEN UpdateRow(number + 1, a, b, t)
                  ELSE CheckpointRow(number + 1, b, result.state.text)
           logs == result.merge /\ OneUpdate(b, t)
           x == [actor |-> a, base |-> b, text |-> t]
<1>1. /\ TablesOK(Texts, States) /\ number \in Nat
      /\ DOMAIN served = Docs /\ DOMAIN held = Docs /\ DOMAIN log = Docs
      /\ d \in live /\ d \in Known /\ path[d] \in Paths /\ path \in [Docs -> Paths \cup {NoPath}]
      /\ held[d] \in States /\ log[d] \in Seq(Update)
  BY DEF TablesOK, UpdateDocument, Known
<1>2. current \in States
  BY <1>1, LoadedState
<1>3. /\ result.state \in States /\ result.state.text \in Texts
      /\ result.merge => result.state = ApplyUpdate(current, a, b, t)
  <2> HIDE DEF current
  <2>1. /\ result.state \in States
        /\ result.merge => result.state = ApplyUpdate(current, a, b, t)
    BY <1>2, ConvergedTyped
  <2> QED BY <2>1 DEF Closed
<1>4. /\ served' = [served EXCEPT ![d] = result.state]
      /\ held' = IF logs THEN held ELSE [held EXCEPT ![d] = result.state]
      /\ log' = [log EXCEPT ![d] = IF logs THEN Append(@, x) ELSE <<>>]
      /\ history' = [history EXCEPT ![d] = Appended(d, row, path[d])]
      /\ InsertEvent(d) /\ UNCHANGED <<mounts, path, live, pathRevs, policies>>
      /\ blurred' \subseteq blurred \cup {d}
  BY DEF UpdateDocument
<1>5. x \in Update /\ a \in Actors \cup {Editor} /\ b \in Texts /\ t \in Texts
  BY DEF Update, Closed
<1>6. row \in Row(Texts) /\ row.at = number + 1
  <2>1. UpdateRow(number + 1, a, b, t) \in Row(Texts) /\ UpdateRow(number + 1, a, b, t).at = number + 1
    BY <1>1, <1>5 DEF UpdateRow, Row
  <2>2. CheckpointRow(number + 1, b, result.state.text) \in Row(Texts)
        /\ CheckpointRow(number + 1, b, result.state.text).at = number + 1
    <3>1. number + 1 \in Nat /\ b \in Texts /\ result.state.text \in Texts
      BY <1>1, <1>3, <1>5
    <3> HIDE DEF result
    <3> QED BY <3>1, CheckpointTyped
  <2> HIDE DEF result
  <2> QED BY <2>1, <2>2
<1> HIDE DEF result, row, logs, x, current
<1>7. /\ DOMAIN served' = Docs /\ DOMAIN held' = Docs /\ DOMAIN log' = Docs
      /\ served'[d] = result.state
      /\ held'[d] = IF logs THEN held[d] ELSE result.state
      /\ log'[d] = IF logs THEN Append(log[d], x) ELSE <<>>
      /\ \A e \in Docs \ {d} : served'[e] = served[e] /\ held'[e] = held[e] /\ log'[e] = log[e]
  BY <1>1, <1>4
<1>8. Append(log[d], x) \in Seq(Update) /\ <<>> \in Seq(Update)
  BY <1>1, <1>5, EmptySeq, AppendProperties
<1>9. TablesOK(Texts, States)'
  <2>1. held'[d] \in States /\ log'[d] \in Seq(Update) /\ served'[d] \in States
    BY <1>1, <1>3, <1>7, <1>8
  <2>2. path' = [path EXCEPT ![d] = path[d]] /\ live' = live \cup {d} /\ blurred' \subseteq Docs
    BY <1>1, <1>4 DEF TablesOK
  <2> QED BY <1>1, <1>4, <1>6, <1>7, <2>1, <2>2, DocWritten
<1>10. LoadedFrom(held'[d], log'[d]) = result.state
  <2>1. CASE logs
    <3>1. LoadedFrom(held[d], Append(log[d], x)) = ApplyUpdate(LoadedFrom(held[d], log[d]), x.actor, x.base, x.text)
      BY <1>1, <1>5, LoadedAppend
    <3>2. x.actor = a /\ x.base = b /\ x.text = t /\ current = LoadedFrom(held[d], log[d]) /\ result.merge
      BY <2>1 DEF x, current, Loaded, logs
    <3> QED BY <1>3, <1>7, <2>1, <3>1, <3>2
  <2>2. CASE ~logs
    BY <1>3, <1>7, <2>2, LoadedEmpty
  <2> QED BY <2>1, <2>2
<1>11. ASSUME ServedIsMerged, NEW e \in live' PROVE served'[e].text = LoadedFrom(held'[e], log'[e]).text
  <2>1. CASE e = d
    BY <1>7, <1>10, <2>1
  <2>2. CASE e # d
    <3>1. e \in live /\ e \in Docs
      BY <1>1, <1>4 DEF TablesOK, Known
    <3> QED BY <1>7, <1>11, <2>2, <3>1 DEF ServedIsMerged, Loaded
  <2> QED BY <2>1, <2>2
<1> QED BY <1>9, <1>11 DEF ServedIsMerged, Loaded

LEMMA DeleteMoveKeep ==
    ASSUME NEW Texts, NEW States, TablesOK(Texts, States), NEW d \in Docs,
           DeleteDocument(d) \/ \E p \in Paths : MoveDocument(d, p)
    PROVE  TablesOK(Texts, States)' /\ (ServedIsMerged => ServedIsMerged')
<1>1. /\ number \in Nat /\ d \in live /\ live \subseteq Known /\ d \in Known /\ path[d] \in Paths
      /\ path \in [Docs -> Paths \cup {NoPath}] /\ mounts \subseteq Mounts /\ blurred \subseteq Docs
      /\ DOMAIN policies \subseteq Keys /\ \A k \in DOMAIN policies : policies[k] \in Policies
  BY DEF TablesOK, DeleteDocument, MoveDocument, Known
<1>2. PICK p \in Paths, isLive \in BOOLEAN :
         /\ InsertEvent(d) /\ InsertPath(d, p, isLive)
         /\ UNCHANGED <<served, held, log, history>> /\ UNCHANGED <<mounts, policies, blurred>>
         /\ live' \subseteq live /\ path' = [path EXCEPT ![d] = p]
  <2>1. CASE DeleteDocument(d)
    <3>1. path' = [path EXCEPT ![d] = path[d]]
      BY <1>1, <2>1 DEF DeleteDocument
    <3> QED BY <1>1, <2>1, <3>1 DEF DeleteDocument, bodyVars
  <2>2. ASSUME NEW p \in Paths, MoveDocument(d, p)
        PROVE  /\ InsertEvent(d) /\ InsertPath(d, p, TRUE)
               /\ UNCHANGED <<served, held, log, history>> /\ UNCHANGED <<mounts, policies, blurred>>
               /\ live' \subseteq live /\ path' = [path EXCEPT ![d] = p]
    BY <2>2 DEF MoveDocument, bodyVars
  <2> QED BY <2>1, <2>2
<1>3. path' \in [Docs -> Paths \cup {NoPath}] /\ Known' = Known /\ live' \subseteq Known
  BY <1>1, <1>2, PlacesAssumption DEF Known
<1>4. number' = number + 1 /\ number' \in Nat /\ number <= number' /\ events' \subseteq [at : 1..number', doc : Docs]
  BY <1>1, <1>2 DEF InsertEvent, TablesOK
<1>5. ASSUME NEW r \in pathRevs', r \notin pathRevs
      PROVE  r \in [at : 1..number', doc : Docs, path : Paths, live : BOOLEAN] /\ number < r.at /\ r.doc \in Known
  <2>1. r = [at |-> number + 1, doc |-> d, path |-> p, live |-> isLive]
    BY <1>2, <1>5 DEF InsertPath
  <2> QED BY <1>1, <1>4, <2>1
<1>6. TablesOK(Texts, States)'
  BY <1>1, <1>2, <1>3, <1>4, <1>5, RowsKept
<1> QED BY <1>2, <1>6 DEF ServedIsMerged, Loaded

LEMMA SurgeryKeeps ==
    ASSUME NEW Texts, NEW States, TablesOK(Texts, States), NEW d \in Docs,
           NEW rows \in [DOMAIN history[d] -> Row(Texts)],
           \A k \in DOMAIN history[d] : rows[k].at = history[d][k].at,
           history' = [history EXCEPT ![d] = rows],
           DOMAIN log' = Docs, \A e \in Docs : log'[e] \in Seq(Update),
           InsertEvent(d), blurred' \subseteq Docs,
           UNCHANGED <<mounts, path, live, served, held, pathRevs, policies>>
    PROVE  TablesOK(Texts, States)'
<1>1. /\ number \in Nat /\ number' = number + 1 /\ number' \in Nat
      /\ events' \subseteq [at : 1..number', doc : Docs]
  BY DEF TablesOK, InsertEvent
<1>2. /\ DOMAIN history = Docs /\ DOMAIN history' = Docs /\ history'[d] = rows
      /\ \A e \in Docs \ {d} : history'[e] = history[e]
  BY DEF TablesOK
<1>3. \A e \in Docs : RowsOK(Texts, history[e]) /\ \A k \in DOMAIN history[e] : history[e][k].at <= number
  BY DEF TablesOK
<1>4. PICK old : old = history[d]
  OBVIOUS
<1>5. /\ RowsOK(Texts, old) /\ old \in Seq(Row(Texts)) /\ Len(old) \in Nat /\ DOMAIN old = 1..Len(old)
      /\ \A k \in DOMAIN old : old[k].at \in Nat
  BY <1>3, <1>4, RowsAt
<1>6. rows \in [1..Len(old) -> Row(Texts)] /\ rows \in Seq(Row(Texts)) /\ DOMAIN rows = DOMAIN old
  <2>1. PICK m \in Nat : m = Len(old)
    BY <1>5
  <2>2. rows \in [1..m -> Row(Texts)]
    BY <1>4, <1>5, <2>1
  <2>3. rows \in Seq(Row(Texts)) /\ DOMAIN rows = 1..m
    BY <2>1, <2>2
  <2> QED BY <1>5, <2>1, <2>2, <2>3
<1>7. RowsOK(Texts, rows)
  <2>1. \A k \in DOMAIN rows : rows[k].at = old[k].at
    BY <1>4, <1>6
  <2>2. Ordered(old) /\ \A k \in DOMAIN old : old[k].at # 0
    BY <1>5 DEF RowsOK
  <2>3. Ordered(rows)
    BY <1>6, <2>1, <2>2 DEF Ordered
  <2> QED BY <1>6, <2>1, <2>2, <2>3 DEF RowsOK
<1>8. old # <<>> => rows # <<>> /\ rows[1].at = old[1].at
  <2>1. old # <<>> => 1 \in DOMAIN old
    BY <1>5, RowsAt
  <2> QED BY <1>4, <1>6, <2>1, EmptySeq
<1>9. \A e \in Docs : RowsOK(Texts, history'[e]) /\ \A k \in DOMAIN history'[e] : history'[e][k].at <= number'
  <2> TAKE e \in Docs
  <2>1. CASE e = d
    BY <1>1, <1>2, <1>3, <1>4, <1>5, <1>6, <1>7, <2>1
  <2>2. CASE e # d
    <3>1. \A k \in DOMAIN history[e] : history[e][k].at \in Nat
      BY <1>3, RowsAt
    <3> QED BY <1>1, <1>2, <1>3, <2>2, <3>1
  <2> QED BY <2>1, <2>2
<1>10. \A e \in Known : e \in Docs /\ history[e] # <<>> /\ history'[e] # <<>> /\ history'[e][1].at = history[e][1].at
  <2>1. \A e \in Known : e \in Docs /\ history[e] # <<>>
    BY DEF TablesOK, Known
  <2> QED BY <1>2, <1>4, <1>8, <2>1
<1>11. Known' = Known
  BY DEF Known
<1>12. pathRevs' \subseteq [at : 1..number', doc : Docs, path : Paths, live : BOOLEAN]
  <2>1. \A r \in pathRevs : r \in [at : 1..number', doc : Docs, path : Paths, live : BOOLEAN]
    BY <1>1 DEF TablesOK
  <2> QED BY <2>1
<1>13. \A r \in pathRevs' : r.doc \in Known' /\ history'[r.doc][1].at <= r.at
  <2>1. \A r \in pathRevs : r.doc \in Known /\ history[r.doc][1].at <= r.at
    BY DEF TablesOK
  <2> QED BY <1>10, <1>11, <2>1
<1>14. \A e \in Known' : served'[e] \in States /\ held'[e] \in States /\ history'[e] # <<>>
  <2>1. \A e \in Known : served[e] \in States /\ held[e] \in States
    BY DEF TablesOK
  <2> QED BY <1>10, <1>11, <2>1
<1> QED BY <1>1, <1>2, <1>9, <1>11, <1>12, <1>13, <1>14 DEF TablesOK

LEMMA PurgeKeeps ==
    ASSUME NEW Texts, NEW States, Closed(Texts, States), TablesOK(Texts, States), NEW d \in Docs,
           PurgeHistory(d)
    PROVE  TablesOK(Texts, States)' /\ (~PurgeLogged /\ ServedIsMerged => ServedIsMerged')
<1> DEFINE rows == [k \in DOMAIN history[d] |-> Blank(history[d][k])]
<1>1. /\ history' = [history EXCEPT ![d] = rows] /\ log' = [log EXCEPT ![d] = <<>>]
      /\ InsertEvent(d) /\ blurred' = blurred \cup {d} /\ (PurgeLogged \/ log[d] = <<>>)
      /\ UNCHANGED <<mounts, path, live, served, held, pathRevs, policies>>
  BY DEF PurgeHistory
<1>2. \A k \in DOMAIN history[d] : history[d][k] \in Row(Texts)
  <2>1. RowsOK(Texts, history[d])
    BY DEF TablesOK
  <2> QED BY <2>1, RowsAt
<1>3. \A r \in Row(Texts) : Blank(r) \in Row(Texts) /\ Blank(r).at = r.at
  BY DEF Closed, Row, Blank
<1>4. rows \in [DOMAIN history[d] -> Row(Texts)] /\ \A k \in DOMAIN history[d] : rows[k].at = history[d][k].at
  BY <1>2, <1>3
<1>5. DOMAIN log' = Docs /\ \A e \in Docs : log'[e] \in Seq(Update)
  BY <1>1, EmptySeq DEF TablesOK
<1>6. blurred' \subseteq Docs
  BY <1>1 DEF TablesOK
<1> HIDE DEF rows
<1>7. TablesOK(Texts, States)'
  BY <1>1, <1>4, <1>5, <1>6, SurgeryKeeps
<1>8. ASSUME ~PurgeLogged, ServedIsMerged, NEW e \in live' PROVE served'[e].text = LoadedFrom(held'[e], log'[e]).text
  <2>1. e \in live /\ e \in Docs /\ DOMAIN log = Docs
    BY <1>1 DEF TablesOK, Known
  <2>2. log'[e] = log[e]
    BY <1>1, <1>8, <2>1
  <2> QED BY <1>1, <1>8, <2>1, <2>2 DEF ServedIsMerged, Loaded
<1> QED BY <1>7, <1>8 DEF ServedIsMerged, Loaded

LEMMA RedactKeeps ==
    ASSUME NEW Texts, NEW States, Closed(Texts, States), TablesOK(Texts, States), NEW d \in Docs,
           NEW x \in Secrets, RedactHistory(d, x)
    PROVE  TablesOK(Texts, States)' /\ (ServedIsMerged => ServedIsMerged')
<1> DEFINE rows == [k \in DOMAIN history[d] |-> RedactedRow(history[d][k], x)]
<1>1. /\ history' = [history EXCEPT ![d] = rows]
      /\ InsertEvent(d) /\ blurred' = blurred \cup {d}
      /\ UNCHANGED <<mounts, path, live, served, held, log, pathRevs, policies>>
  BY DEF RedactHistory
<1>2. \A k \in DOMAIN history[d] : history[d][k] \in Row(Texts)
  <2>1. RowsOK(Texts, history[d])
    BY DEF TablesOK
  <2> QED BY <2>1, RowsAt
<1>3. \A r \in Row(Texts) : RedactedRow(r, x) \in Row(Texts) /\ RedactedRow(r, x).at = r.at
  BY DEF Closed, Row, RedactedRow
<1>4. rows \in [DOMAIN history[d] -> Row(Texts)] /\ \A k \in DOMAIN history[d] : rows[k].at = history[d][k].at
  BY <1>2, <1>3
<1>5. DOMAIN log' = Docs /\ (\A e \in Docs : log'[e] \in Seq(Update)) /\ blurred' \subseteq Docs
  BY <1>1 DEF TablesOK
<1> HIDE DEF rows
<1>6. TablesOK(Texts, States)'
  BY <1>1, <1>4, <1>5, SurgeryKeeps
<1> QED BY <1>1, <1>6 DEF ServedIsMerged, Loaded

-----------------------------------------------------------------------------
(* Rewinding.                                                              *)

\* Its changes are numbered one by one from the next number on.
LEMMA ChangesNumbered ==
    ASSUME number \in Nat, NEW c
    PROVE  /\ Changed(c) \subseteq Docs /\ IsFiniteSet(Changed(c)) /\ Cardinality(Changed(c)) \in Nat
           /\ \A d \in Changed(c) : /\ ChangeNumber(d, c) \in Nat /\ number < ChangeNumber(d, c)
                                    /\ ChangeNumber(d, c) <= number + Cardinality(Changed(c))
           /\ \A d, e \in Changed(c) : ChangeNumber(d, c) = ChangeNumber(e, c) => d = e
<1> DEFINE S == Changed(c)
<1>1. S \in SUBSET Docs /\ S \subseteq Nat /\ S \subseteq Docs
  BY PlacesAssumption DEF Changed
<1> HIDE DEF S
<1>2. IsFiniteSet(S)
  BY <1>1, PlacesAssumption, FS_Subset
<1>3. Cardinality(S) \in Nat
  BY <1>2, FS_CardinalityType
<1>4. \A d \in S : ChangeNumber(d, c) = number + RankIn(S, d)
  BY DEF ChangeNumber, RankIn, S
<1>5. \A d \in S : RankIn(S, d) \in 1..Cardinality(S)
  BY <1>1, <1>2, RankRises
<1>6. \A d, e \in S : d < e => RankIn(S, d) < RankIn(S, e)
  BY <1>1, <1>2, RankRises
<1>7. ASSUME NEW d \in S, NEW e \in S, ChangeNumber(d, c) = ChangeNumber(e, c) PROVE d = e
  <2>1. RankIn(S, d) = RankIn(S, e) /\ RankIn(S, d) \in Nat
    BY <1>3, <1>4, <1>5, <1>7
  <2>2. ~(d < e) /\ ~(e < d)
    BY <1>6, <2>1
  <2> QED BY <1>1, <2>2
<1>8. \A d \in S : /\ ChangeNumber(d, c) \in Nat /\ number < ChangeNumber(d, c)
                    /\ ChangeNumber(d, c) <= number + Cardinality(S)
  BY <1>3, <1>4, <1>5
<1> QED BY <1>1, <1>2, <1>3, <1>7, <1>8 DEF S

\* A document the history shows is known, was placed, and has a text there.
LEMMA ShownHasText ==
    ASSUME NEW Texts, NEW States, Closed(Texts, States), TablesOK(Texts, States), NEW c \in Nat,
           NEW d \in HistoryLive(c)
    PROVE  /\ d \in Known /\ RewoundPath(d, c) \in Paths /\ <<d, RewoundPath(d, c)>> \in HistoryPaths(c)
           /\ RowsTo(history[d], c) # <<>> /\ HistoryBody(d, c) = Reading(history[d], c)
           /\ HistoryBody(d, c) \in Texts
<1>1. d \in Docs /\ \E p \in Paths : <<d, p>> \in HistoryPaths(c)
  BY DEF HistoryLive
<1>2. RewoundPath(d, c) \in Paths /\ <<d, RewoundPath(d, c)>> \in HistoryPaths(c)
  BY <1>1 DEF RewoundPath
<1>3. \E r \in pathRevs : r.doc = d /\ r.at <= c
  BY <1>1 DEF HistoryPaths, Newest
<1>4. PICK r \in pathRevs : r.doc = d /\ r.at <= c
  BY <1>3
<1>5. d \in Known /\ history[d][1].at <= r.at /\ r.at \in Nat /\ history[d] # <<>> /\ RowsOK(Texts, history[d])
  BY <1>1, <1>4 DEF TablesOK
<1>6. PICK rows : rows = history[d]
  OBVIOUS
<1>7. /\ rows \in Seq(Row(Texts)) /\ Ordered(rows) /\ 1 \in DOMAIN rows /\ DOMAIN rows = 1..Len(rows)
      /\ rows[1].at \in Nat
  BY <1>5, <1>6, RowsAt DEF RowsOK
<1>8. rows[1].at <= c
  BY <1>4, <1>5, <1>6, <1>7
<1>9. PICK n \in 0..Len(rows) :
             /\ \A k \in 1..Len(rows) : rows[k].at <= c <=> k <= n
             /\ RowsTo(rows, c) = <<>> <=> n = 0
             /\ Reading(rows, c) \in Texts
  BY <1>7, ReadingSteps
<1>10. RowsTo(rows, c) # <<>>
  <2>1. 1 <= n
    BY <1>7, <1>8, <1>9
  <2> QED BY <1>9, <2>1
<1>11. RowsUpTo(d, c) = RowsTo(rows, c)
  BY <1>6 DEF RowsUpTo, RowsTo
<1>12. HistoryBody(d, c) = Reading(rows, c)
  BY <1>10, <1>11 DEF HistoryBody, Reading
<1> QED BY <1>2, <1>5, <1>6, <1>9, <1>10, <1>12

\* What a rewind leaves alone.
LEMMA UnchangedStays ==
    ASSUME NEW c, NEW d \in Docs
    PROVE  /\ d \notin HistoryLive(c) => RewoundPath(d, c) = path[d]
           /\ d \in Changed(c) => d \in live \/ d \in HistoryLive(c)
           /\ d \notin Changed(c) => /\ d \in live <=> d \in HistoryLive(c)
                                     /\ RewoundPath(d, c) = path[d]
                                     /\ d \in live => ~BodyChanged(d, c)
           /\ d \in HistoryLive(c) /\ d \notin Rewritten(c) => ~BodyChanged(d, c)
<1>1. d \notin HistoryLive(c) => RewoundPath(d, c) = path[d]
  BY DEF RewoundPath
<1>2. d \in Changed(c) => d \in live \/ d \in HistoryLive(c)
  BY DEF Changed
<1>3. d \notin Changed(c) => /\ d \in live <=> d \in HistoryLive(c)
                             /\ RewoundPath(d, c) = path[d]
                             /\ d \in live => ~BodyChanged(d, c)
  BY <1>1 DEF Changed
<1>4. d \in HistoryLive(c) /\ d \notin Rewritten(c) => ~BodyChanged(d, c)
  BY <1>3 DEF Rewritten
<1> QED BY <1>1, <1>2, <1>3, <1>4

\* The row a rewind appends reads as what it brings back.
LEMMA RewoundRows ==
    ASSUME NEW Texts, NEW States, Closed(Texts, States), TablesOK(Texts, States), NEW c \in Nat,
           NEW d \in Rewritten(c), NEW new, new = Appended(d, RewoundRow(d, c), RewoundPath(d, c))
    PROVE  /\ RowsOK(Texts, new) /\ new # <<>> /\ new[1].at = history[d][1].at
           /\ \A k \in DOMAIN new : /\ new[k].at <= ChangeNumber(d, c)
                                   /\ new[k].at <= number + Cardinality(Changed(c))
           /\ Replayed(new).text = HistoryBody(d, c)
           /\ \A b \in Nat : b <= number /\ Tip(new, b) = Tip(history[d], b) =>
                /\ Reading(new, b) = Reading(history[d], b)
                /\ RowsTo(new, b) = <<>> <=> RowsTo(history[d], b) = <<>>
<1>1. number \in Nat /\ d \in Changed(c) /\ d \in HistoryLive(c)
  BY DEF TablesOK, Rewritten
<1>2. PICK at \in Nat : at = ChangeNumber(d, c) /\ number < at /\ at <= number + Cardinality(Changed(c))
  BY <1>1, ChangesNumbered
<1>3. /\ d \in Docs /\ d \in Known /\ RewoundPath(d, c) \in Paths /\ HistoryBody(d, c) \in Texts
      /\ RowsOK(Texts, history[d]) /\ history[d] # <<>>
  BY <1>1, ShownHasText DEF TablesOK, Known
<1>4. Comparable(Body(d)) \in Texts
  <2>1. d \in live => served[d] \in States
    BY DEF TablesOK
  <2> QED BY <2>1 DEF Comparable, Body, Closed
<1>5. PICK row \in Row(Texts) : /\ row = RewoundRow(d, c) /\ row.at = at /\ row.kind # "update"
                               /\ row.text = HistoryBody(d, c)
  <2>1. PICK base \in Texts, text \in Texts : base = Comparable(Body(d)) /\ text = HistoryBody(d, c)
    BY <1>3, <1>4
  <2>2. /\ CheckpointRow(at, base, text) \in Row(Texts) /\ CheckpointRow(at, base, text).at = at
        /\ CheckpointRow(at, base, text).kind # "update" /\ CheckpointRow(at, base, text).text = text
    BY CheckpointTyped
  <2>3. RewoundRow(d, c) = CheckpointRow(at, base, text)
    BY <1>2, <2>1 DEF RewoundRow
  <2> QED BY <2>1, <2>2, <2>3
<1>6. PICK p \in Paths : p = RewoundPath(d, c)
  BY <1>3
<1>7. /\ RowsOK(Texts, new) /\ new # <<>> /\ \A k \in DOMAIN new : new[k].at <= at
      /\ new[1].at = history[d][1].at
      /\ Replayed(new).text = Replayed(Append(history[d], row)).text
      /\ \A b \in Nat : b <= number /\ Tip(new, b) = Tip(history[d], b) =>
           /\ Reading(new, b) = Reading(history[d], b)
           /\ RowsTo(new, b) = <<>> <=> RowsTo(history[d], b) = <<>>
  <2>1. new = Appended(d, row, p) /\ number < row.at
    BY <1>2, <1>5, <1>6
  <2> QED BY <1>3, <1>5, <2>1, RowsWritten
<1>8. Replayed(Append(history[d], row)) = Checkpoint(row.text)
  <2>1. history[d] \in Seq(Row(Texts))
    BY <1>3 DEF RowsOK
  <2> QED BY <1>5, <2>1, AppendReplays
<1>9. Replayed(new).text = HistoryBody(d, c)
  BY <1>5, <1>7, <1>8 DEF Checkpoint
<1>10. \A k \in DOMAIN new : new[k].at <= number + Cardinality(Changed(c))
  <2>1. \A k \in DOMAIN new : new[k].at \in Nat
    BY <1>7, RowsAt
  <2>2. number + Cardinality(Changed(c)) \in Nat
    BY <1>1, ChangesNumbered
  <2> QED BY <1>2, <1>7, <2>1, <2>2
<1> QED BY <1>2, <1>7, <1>9, <1>10

LEMMA RewindKeeps ==
    ASSUME NEW Texts, NEW States, Closed(Texts, States), TablesOK(Texts, States), NEW c \in Nat,
           RestoreWorkspace(c)
    PROVE  TablesOK(Texts, States)' /\ (~ReviveEmpty /\ ServedIsMerged => ServedIsMerged')
<1>1. /\ number \in Nat /\ number' = number + Cardinality(Changed(c)) /\ number' \in Nat /\ number <= number'
      /\ path \in [Docs -> Paths \cup {NoPath}] /\ live \subseteq Known /\ Known \subseteq Docs
  <2>1. number \in Nat
    BY DEF TablesOK
  <2>2. Cardinality(Changed(c)) \in Nat
    BY <2>1, ChangesNumbered
  <2> QED BY <2>1, <2>2 DEF TablesOK, RestoreWorkspace, Known
<1>2. /\ path' = [d \in Docs |-> RewoundPath(d, c)] /\ live' = HistoryLive(c)
      /\ UNCHANGED <<mounts, policies>> /\ blurred' = blurred \ Rewritten(c)
      /\ DOMAIN served' = Docs /\ DOMAIN held' = Docs /\ DOMAIN log' = Docs /\ DOMAIN history' = Docs
  BY DEF RestoreWorkspace
<1>3. \A d \in HistoryLive(c) : d \in Known /\ d \in Docs /\ RewoundPath(d, c) \in Paths /\ HistoryBody(d, c) \in Texts
  BY <1>1, ShownHasText
<1>4. \A d \in Docs : path'[d] = RewoundPath(d, c) /\ (d \notin HistoryLive(c) => path'[d] = path[d])
  BY <1>2, UnchangedStays
<1>5. path' \in [Docs -> Paths \cup {NoPath}] /\ Known' = Known /\ live' \subseteq Known'
  <2>1. \A d \in Docs : path'[d] \in Paths \cup {NoPath}
    BY <1>1, <1>3, <1>4
  <2>2. \A d \in Docs : path'[d] # NoPath <=> path[d] # NoPath
    BY <1>3, <1>4, PlacesAssumption DEF Known
  <2>3. Known' = Known
    BY <2>2 DEF Known
  <2> QED BY <1>2, <1>3, <2>1, <2>3
<1>6. Changed(c) \subseteq Known
  BY <1>1, <1>3, UnchangedStays DEF Changed
<1>7. /\ events' = events \cup {[at |-> ChangeNumber(d, c), doc |-> d] : d \in Changed(c)}
      /\ pathRevs' = pathRevs \cup
           {[at |-> ChangeNumber(d, c), doc |-> d, path |-> RewoundPath(d, c),
             live |-> d \in HistoryLive(c)] : d \in Changed(c)}
  BY DEF RestoreWorkspace
<1>8. \A d \in Changed(c) : ChangeNumber(d, c) \in 1..number' /\ number < ChangeNumber(d, c)
  BY <1>1, ChangesNumbered
<1>9. events' \subseteq [at : 1..number', doc : Docs]
  <2>1. \A e \in events : e \in [at : 1..number', doc : Docs]
    BY <1>1 DEF TablesOK
  <2> QED BY <1>1, <1>6, <1>7, <1>8, <2>1
<1>10. ASSUME NEW d \in Changed(c), NEW r,
              r = [at |-> ChangeNumber(d, c), doc |-> d, path |-> RewoundPath(d, c), live |-> d \in HistoryLive(c)]
       PROVE  /\ r \in [at : 1..number', doc : Docs, path : Paths, live : BOOLEAN]
              /\ number < r.at /\ r.doc \in Known /\ r.doc = d
  <2>1. RewoundPath(d, c) \in Paths
    <3>1. d \in Docs /\ path[d] \in Paths
      BY <1>1, <1>6 DEF Known
    <3> QED BY <1>3, <3>1, UnchangedStays
  <2>2. (d \in HistoryLive(c)) \in BOOLEAN
    OBVIOUS
  <2> QED BY <1>1, <1>6, <1>8, <1>10, <2>1, <2>2
<1>11. \A r \in pathRevs' : \/ r \in pathRevs
                            \/ /\ r \in [at : 1..number', doc : Docs, path : Paths, live : BOOLEAN]
                               /\ number < r.at /\ r.doc \in Known
  BY <1>7, <1>10
<1>12. ASSUME NEW d \in Docs
       PROVE  /\ log'[d] \in Seq(Update) /\ RowsOK(Texts, history'[d])
              /\ \A k \in DOMAIN history'[d] : history'[d][k].at <= number'
              /\ d \in Known => history'[d] # <<>> /\ history'[d][1].at = history[d][1].at
  <2>1. log'[d] = IF d \in Rewritten(c) THEN <<>> ELSE log[d]
    BY DEF RestoreWorkspace
  <2>2. history'[d] = IF d \in Rewritten(c) THEN Appended(d, RewoundRow(d, c), RewoundPath(d, c)) ELSE history[d]
    BY DEF RestoreWorkspace
  <2>3. log'[d] \in Seq(Update)
    BY <2>1, EmptySeq DEF TablesOK
  <2>4. CASE d \in Rewritten(c)
    <3>1. PICK new : new = Appended(d, RewoundRow(d, c), RewoundPath(d, c))
      OBVIOUS
    <3>2. /\ RowsOK(Texts, new) /\ new # <<>> /\ new[1].at = history[d][1].at
          /\ \A k \in DOMAIN new : new[k].at <= number + Cardinality(Changed(c))
      BY <2>4, <3>1, RewoundRows
    <3> QED BY <1>1, <2>2, <2>3, <2>4, <3>1, <3>2
  <2>5. CASE d \notin Rewritten(c)
    <3>1. /\ RowsOK(Texts, history[d]) /\ \A k \in DOMAIN history[d] : history[d][k].at <= number
          /\ d \in Known => history[d] # <<>>
      BY DEF TablesOK
    <3>2. \A k \in DOMAIN history[d] : history[d][k].at \in Nat
      BY <3>1, RowsAt
    <3> QED BY <1>1, <2>2, <2>3, <2>5, <3>1, <3>2
  <2> QED BY <2>4, <2>5
<1>13. ASSUME NEW d \in Docs
       PROVE  /\ served'[d] = IF d \in HistoryLive(c) THEN Checkpoint(HistoryBody(d, c)) ELSE served[d]
              /\ held'[d] = IF d \in Rewritten(c) THEN Checkpoint(HistoryBody(d, c)) ELSE held[d]
              /\ log'[d] = IF d \in Rewritten(c) THEN <<>> ELSE log[d]
              /\ d \in Rewritten(c) => d \in HistoryLive(c)
  BY DEF RestoreWorkspace, Rewritten
<1>14. ASSUME NEW d \in Known PROVE served'[d] \in States /\ held'[d] \in States
  <2>1. served[d] \in States /\ held[d] \in States /\ d \in Docs
    BY <1>1 DEF TablesOK
  <2>2. d \in HistoryLive(c) => Checkpoint(HistoryBody(d, c)) \in States
    BY <1>3 DEF Closed
  <2> QED BY <1>13, <2>1, <2>2
<1>15. \A r \in pathRevs' : r.doc \in Known' /\ history'[r.doc][1].at <= r.at
  <2> TAKE r \in pathRevs'
  <2>1. CASE r \in pathRevs
    <3>1. r.doc \in Known /\ history[r.doc][1].at <= r.at
      BY <2>1 DEF TablesOK
    <3>2. history'[r.doc][1].at = history[r.doc][1].at
      BY <1>1, <1>12, <3>1
    <3> QED BY <1>5, <3>1, <3>2
  <2>2. CASE r \notin pathRevs
    <3>1. PICK d \in Known : r.doc = d /\ number < r.at /\ r.at \in Nat /\ d \in Docs
      BY <1>1, <1>11, <2>2
    <3>2. RowsOK(Texts, history[d]) /\ history[d] # <<>> /\ \A k \in DOMAIN history[d] : history[d][k].at <= number
      BY <3>1 DEF TablesOK
    <3>3. history[d][1].at <= number /\ history[d][1].at \in Nat
      BY <3>2, RowsAt
    <3>4. history'[d][1].at = history[d][1].at
      BY <1>12, <3>1
    <3> QED BY <1>1, <1>5, <3>1, <3>3, <3>4
  <2> QED BY <2>1, <2>2
<1>16. pathRevs' \subseteq [at : 1..number', doc : Docs, path : Paths, live : BOOLEAN]
  <2>1. \A r \in pathRevs : r \in [at : 1..number', doc : Docs, path : Paths, live : BOOLEAN]
    BY <1>1 DEF TablesOK
  <2> QED BY <1>11, <2>1
<1>17. mounts' \subseteq Mounts /\ blurred' \subseteq Docs
       /\ DOMAIN policies' \subseteq Keys /\ \A k \in DOMAIN policies' : policies'[k] \in Policies
  BY <1>2 DEF TablesOK
<1>18. TablesOK(Texts, States)'
  BY <1>1, <1>2, <1>5, <1>9, <1>12, <1>14, <1>15, <1>16, <1>17 DEF TablesOK
<1>19. ASSUME ~ReviveEmpty, ServedIsMerged, NEW d \in live'
       PROVE  served'[d].text = LoadedFrom(held'[d], log'[d]).text
  <2>1. d \in HistoryLive(c) /\ d \in Docs /\ d \in Known
    BY <1>2, <1>3
  <2>2. served'[d] = Checkpoint(HistoryBody(d, c)) /\ Checkpoint(HistoryBody(d, c)) \in States
    BY <1>3, <1>13, <2>1 DEF Closed
  <2>3. CASE d \in Rewritten(c)
    BY <1>13, <2>1, <2>2, <2>3, LoadedEmpty
  <2>4. CASE d \notin Rewritten(c)
    <3>1. Comparable(Body(d)) = Comparable(HistoryBody(d, c)) /\ HistoryBody(d, c) # NoBody
      BY <1>3, <2>1, <2>4, UnchangedStays DEF BodyChanged, Closed
    <3>2. d \in live
      <4>1. d \notin live => HistoryBody(d, c) # Empty
        BY <1>19, <2>1 DEF RestoreWorkspace
      <4>2. d \notin live => Comparable(Body(d)) = Empty
        BY DEF Comparable, Body
      <4> QED BY <3>1, <4>1, <4>2 DEF Comparable
    <3>3. served[d].text # NoBody
      BY <2>1 DEF TablesOK, Closed
    <3>4. served[d].text = HistoryBody(d, c)
      BY <3>1, <3>2, <3>3 DEF Comparable, Body
    <3>5. served[d].text = LoadedFrom(held[d], log[d]).text
      BY <1>19, <3>2 DEF ServedIsMerged, Loaded
    <3>6. held'[d] = held[d] /\ log'[d] = log[d]
      BY <1>13, <2>1, <2>4
    <3>7. served'[d].text = HistoryBody(d, c)
      BY <2>2 DEF Checkpoint
    <3> QED BY <3>4, <3>5, <3>6, <3>7
  <2> QED BY <2>3, <2>4
<1> QED BY <1>18, <1>19 DEF ServedIsMerged, Loaded

-----------------------------------------------------------------------------
LEMMA InitKeeps ==
    ASSUME NEW Texts, NEW States, Closed(Texts, States), Init
    PROVE  TablesOK(Texts, States) /\ PastOK(Texts) /\ ServedIsMerged
<1>1. Known = {}
  BY DEF Init, Known
<1>2. RowsOK(Texts, <<>>) /\ <<>> \in Seq(Update)
  <2>1. <<>> \in Seq(Row(Texts)) /\ <<>> \in Seq(Update)
    BY EmptySeq
  <2> QED BY <2>1 DEF RowsOK, Ordered
<1>3. TablesOK(Texts, States)
  BY <1>1, <1>2 DEF Init, TablesOK
<1>4. Cursor = 0 /\ LivePaths = {} /\ [d \in Docs |-> Body(d)] \in [Docs -> Texts \cup {NoBody}]
  <2>1. {e.at : e \in events} = {}
    BY DEF Init
  <2> QED BY <2>1 DEF Init, Cursor, Newer, LivePaths, Body
<1>5. View \in [cursor : 0..number, paths : SUBSET (Docs \X Paths),
               bodies : [Docs -> Texts \cup {NoBody}], lost : SUBSET Docs]
  BY <1>4 DEF Init, View
<1>6. PastOK(Texts)
  BY <1>5 DEF PastOK, Init
<1> QED BY <1>3, <1>6 DEF Init, ServedIsMerged

\* A step that touches neither rows nor paths.
LEMMA OtherKeeps ==
    ASSUME NEW Texts, NEW States, TablesOK(Texts, States), PastOK(Texts),
           \/ \E ms \in SUBSET Mounts : Bootstrap(ms)
           \/ DrawNumber
           \/ \E k \in Keys, policy \in Policies : SetPolicy(k, policy)
           \/ \E k \in Keys : ClearPolicy(k)
           \/ UNCHANGED vars
    PROVE  TablesOK(Texts, States)' /\ PastOK(Texts)' /\ (ServedIsMerged => ServedIsMerged')
<1>1. /\ UNCHANGED <<path, live, served, held, log, history, events, pathRevs, past, blurred>>
      /\ mounts' \subseteq Mounts /\ number' \in Nat /\ number <= number'
      /\ DOMAIN policies' \subseteq Keys /\ \A k \in DOMAIN policies' : policies'[k] \in Policies
  <2> DEFINE Calm == /\ UNCHANGED <<path, live, served, held, log, history, events, pathRevs, past, blurred>>
                     /\ mounts' \subseteq Mounts /\ number' \in Nat /\ number <= number'
                     /\ DOMAIN policies' \subseteq Keys
                     /\ \A k \in DOMAIN policies' : policies'[k] \in Policies
  <2>1. /\ mounts \subseteq Mounts /\ number \in Nat /\ number + 1 \in Nat
        /\ number <= number /\ number <= number + 1
        /\ DOMAIN policies \subseteq Keys /\ \A k \in DOMAIN policies : policies[k] \in Policies
    BY DEF TablesOK
  <2>2. ASSUME NEW ms \in SUBSET Mounts, Bootstrap(ms) PROVE Calm
    BY <2>1, <2>2 DEF Bootstrap, bodyVars
  <2>3. ASSUME DrawNumber PROVE Calm
    BY <2>1, <2>3 DEF DrawNumber, bodyVars
  <2>4. ASSUME NEW k \in Keys, NEW policy \in Policies, SetPolicy(k, policy) PROVE Calm
    <3>1. /\ UNCHANGED <<mounts, path, live, served, held, log, history, number, events, pathRevs, past, blurred>>
          /\ policies' = [x \in DOMAIN policies \cup {k} |-> IF x = k THEN policy ELSE policies[x]]
      BY <2>4 DEF SetPolicy, bodyVars
    <3>2. DOMAIN policies' = DOMAIN policies \cup {k}
      BY <3>1
    <3>3. ASSUME NEW x \in DOMAIN policies' PROVE policies'[x] \in Policies
      BY <2>1, <3>1, <3>2, <3>3
    <3> QED BY <2>1, <3>1, <3>2, <3>3
  <2>5. ASSUME NEW k \in Keys, ClearPolicy(k) PROVE Calm
    <3>1. /\ UNCHANGED <<mounts, path, live, served, held, log, history, number, events, pathRevs, past, blurred>>
          /\ policies' = [x \in DOMAIN policies \ {k} |-> policies[x]]
      BY <2>5 DEF ClearPolicy, bodyVars
    <3> QED BY <2>1, <3>1
  <2>6. ASSUME UNCHANGED vars PROVE Calm
    BY <2>1, <2>6 DEF vars, bodyVars
  <2> QED BY <2>2, <2>3, <2>4, <2>5, <2>6
<1>2. /\ number \in Nat /\ Known' = Known /\ path' \in [Docs -> Paths \cup {NoPath}] /\ live' \subseteq Known
      /\ blurred' \subseteq Docs
  BY <1>1 DEF TablesOK, Known
<1>3. events' \subseteq [at : 1..number', doc : Docs]
  <2>1. \A e \in events : e \in [at : 1..number', doc : Docs]
    BY <1>1, <1>2 DEF TablesOK
  <2> QED BY <1>1, <2>1
<1>4. TablesOK(Texts, States)'
  BY <1>1, <1>2, <1>3, RowsKept
<1>5. PastOK(Texts)'
  <2>1. 0..number \subseteq 0..number'
    BY <1>1, <1>2
  <2> QED BY <1>1, <2>1 DEF PastOK
<1> QED BY <1>1, <1>4, <1>5 DEF ServedIsMerged, Loaded

LEMMA StepKeeps ==
    ASSUME NEW Texts, NEW States, Closed(Texts, States), TablesOK(Texts, States), PastOK(Texts), [Next]_vars
    PROVE  /\ TablesOK(Texts, States)' /\ PastOK(Texts)'
           /\ ~PurgeLogged /\ ~ReviveEmpty /\ ServedIsMerged => ServedIsMerged'
<1> DEFINE Kept == /\ TablesOK(Texts, States)' /\ PastOK(Texts)'
                   /\ ~PurgeLogged /\ ~ReviveEmpty /\ ServedIsMerged => ServedIsMerged'
<1>1. number \in Nat
  BY DEF TablesOK
<1>2. ASSUME TablesOK(Texts, States)', number <= number', Remember \/ \E d \in Docs : Forget(d)
      PROVE  PastOK(Texts)'
  BY <1>1, <1>2, PastKept
<1>3. \A d \in Docs : InsertEvent(d) => number <= number'
  BY <1>1 DEF InsertEvent
<1>4. ASSUME NEW d \in Docs, NEW p \in Paths, NEW t \in Edits, CreateDocument(d, p, t) PROVE Kept
  BY <1>2, <1>3, <1>4, CreateKeeps DEF CreateDocument
<1>5. ASSUME NEW d \in Docs, NEW a \in Actors, NEW b \in Bases, NEW t \in Edits, UpdateDocument(d, a, b, t)
      PROVE  Kept
  <2>1. InsertEvent(d) /\ Remember
    BY <1>5 DEF UpdateDocument
  <2> QED BY <1>2, <1>3, <1>5, <2>1, UpdateKeeps
<1>6. ASSUME NEW d \in Docs, DeleteDocument(d) PROVE Kept
  BY <1>2, <1>3, <1>6, DeleteMoveKeep DEF DeleteDocument
<1>7. ASSUME NEW d \in Docs, NEW p \in Paths, MoveDocument(d, p) PROVE Kept
  BY <1>2, <1>3, <1>7, DeleteMoveKeep DEF MoveDocument
<1>8. ASSUME NEW d \in Docs, NEW p \in Paths, NEW k \in DOMAIN history[d], RestoreDocument(d, k, p) PROVE Kept
  <2>1. InsertEvent(d) /\ Remember
    BY <1>8 DEF RestoreDocument
  <2> QED BY <1>2, <1>3, <1>8, <2>1, RestoreKeeps
<1>9. ASSUME NEW c \in 0..number, RestoreWorkspace(c) PROVE Kept
  <2>1. c \in Nat /\ Remember
    BY <1>1, <1>9 DEF RestoreWorkspace
  <2>2. number <= number'
    BY <1>1, <1>9, ChangesNumbered DEF RestoreWorkspace
  <2> QED BY <1>2, <1>9, <2>1, <2>2, RewindKeeps
<1>10. ASSUME NEW d \in Docs, PurgeHistory(d) PROVE Kept
  <2>1. InsertEvent(d) /\ Forget(d)
    BY <1>10 DEF PurgeHistory
  <2> QED BY <1>2, <1>3, <1>10, <2>1, PurgeKeeps
<1>11. ASSUME NEW d \in Docs, NEW x \in Secrets, RedactHistory(d, x) PROVE Kept
  <2>1. InsertEvent(d) /\ Forget(d)
    BY <1>11 DEF RedactHistory
  <2> QED BY <1>2, <1>3, <1>11, <2>1, RedactKeeps
<1>12. ASSUME \/ \E ms \in SUBSET Mounts : Bootstrap(ms)
              \/ DrawNumber
              \/ \E k \in Keys, policy \in Policies : SetPolicy(k, policy)
              \/ \E k \in Keys : ClearPolicy(k)
              \/ UNCHANGED vars
       PROVE  Kept
  BY <1>12, OtherKeeps
<1> HIDE DEF Kept
<1>13. Kept
  BY <1>4, <1>5, <1>6, <1>7, <1>8, <1>9, <1>10, <1>11, <1>12 DEF Next
<1> QED BY <1>13 DEF Kept

\* Every row of the store keeps the shape its table gives it, each numbered by
\* an event already drawn.
THEOREM TablesKeepTypes ==
    ASSUME NEW Texts, NEW States, Closed(Texts, States)
    PROVE  Spec => []TypeOK
<1>1. Init => TablesOK(Texts, States) /\ PastOK(Texts)
  BY InitKeeps
<1>2. TablesOK(Texts, States) /\ PastOK(Texts) /\ [Next]_vars => (TablesOK(Texts, States) /\ PastOK(Texts))'
  BY StepKeeps
<1>3. TablesOK(Texts, States) /\ PastOK(Texts) => TypeOK
  BY StoreTyped
<1> QED BY <1>1, <1>2, <1>3, PTL DEF Spec

\* A live document is always served the text its next edit is merged onto, if
\* no document is purged with logged updates and none is revived empty.
THEOREM ServedStaysMerged ==
    ASSUME NEW Texts, NEW States, Closed(Texts, States), ~PurgeLogged, ~ReviveEmpty
    PROVE  Spec => []ServedIsMerged
<1>1. Init => StoreInv(Texts, States)
  BY InitKeeps DEF StoreInv
<1>2. StoreInv(Texts, States) /\ [Next]_vars => StoreInv(Texts, States)'
  BY StepKeeps DEF StoreInv
<1>3. StoreInv(Texts, States) => ServedIsMerged
  BY DEF StoreInv
<1> QED BY <1>1, <1>2, <1>3, PTL DEF Spec

-----------------------------------------------------------------------------
(* The history as a time machine.  HistoryRemembers is not inductive: what  *)
(* a step adds must be numbered past every cursor remembered, and what the  *)
(* history shows at the current one must be the live view, whose texts are  *)
(* the replayed rows of the documents that are not blurred.                 *)

HistoryIsCurrent == HistoryPaths(Cursor) = LivePaths

TextsCurrent == \A d \in live \ blurred : Replayed(history[d]).text = served[d].text

UpToCursor ==
    /\ \A d \in Docs : \A k \in DOMAIN history[d] : history[d][k].at <= Cursor
    /\ \A r \in pathRevs : r.at <= Cursor
    /\ \A v \in past : v.cursor <= Cursor

HistoryInv(Texts, States) ==
    /\ TablesOK(Texts, States) /\ PastOK(Texts)
    /\ HistoryIsCurrent /\ TextsCurrent /\ UpToCursor /\ HistoryRemembers

\* The cursor is the number of the workspace's latest event.
LEMMA CursorOf ==
    ASSUME NEW n \in Nat, NEW E, E \subseteq [at : 1..n, doc : Docs]
    PROVE  /\ Newer({e.at : e \in E}) \in Nat /\ Newer({e.at : e \in E}) <= n
           /\ \A e \in E : e.at \in Nat /\ e.at <= Newer({f.at : f \in E})
           /\ Newer({e.at : e \in E}) = 0 \/ \E e \in E : e.at = Newer({f.at : f \in E})
<1> DEFINE S == {e.at : e \in E}
<1>1. S \in SUBSET (1..n) /\ \A e \in E : e.at \in S
  OBVIOUS
<1>2. Newer(S) \in 0..n /\ (\A t \in S : t <= Newer(S)) /\ (S # {} => Newer(S) \in S)
  <2> HIDE DEF S
  <2> QED BY <1>1, NewerIn
<1>3. S = {} => Newer(S) = 0
  <2> HIDE DEF S
  <2> QED BY DEF Newer
<1>4. Newer(S) = 0 \/ \E e \in E : e.at = Newer(S)
  <2>1. Newer(S) \in S => \E e \in E : e.at = Newer(S)
    OBVIOUS
  <2> HIDE DEF S
  <2> QED BY <1>2, <1>3, <2>1
<1>5. \A e \in E : e.at \in Nat /\ e.at <= Newer(S)
  <2> HIDE DEF S
  <2> QED BY <1>1, <1>2
<1> QED BY <1>2, <1>4, <1>5 DEF S

LEMMA CursorGrows ==
    ASSUME NEW Texts, NEW States, TablesOK(Texts, States), TablesOK(Texts, States)', events \subseteq events'
    PROVE  /\ number \in Nat /\ Cursor \in Nat /\ Cursor' \in Nat /\ Cursor <= number /\ Cursor <= Cursor'
           /\ \A e \in events' : e.at \in Nat /\ e.at <= Cursor'
<1>1. /\ number \in Nat /\ events \subseteq [at : 1..number, doc : Docs]
      /\ number' \in Nat /\ events' \subseteq [at : 1..number', doc : Docs]
  BY DEF TablesOK
<1>2. /\ Newer({e.at : e \in events}) \in Nat /\ Newer({e.at : e \in events}) <= number
      /\ \/ Newer({e.at : e \in events}) = 0
         \/ \E e \in events : e.at = Newer({f.at : f \in events})
  BY <1>1, CursorOf
<1>3. /\ Newer({e.at : e \in events'}) \in Nat
      /\ \A e \in events' : e.at \in Nat /\ e.at <= Newer({f.at : f \in events'})
  BY <1>1, CursorOf
<1>4. PICK old : old = Cursor
  OBVIOUS
<1>5. PICK new : new = Cursor'
  OBVIOUS
<1>6. old \in Nat /\ old <= number /\ (old = 0 \/ \E e \in events : e.at = old)
  BY <1>2, <1>4 DEF Cursor
<1>7. new \in Nat /\ \A e \in events' : e.at \in Nat /\ e.at <= new
  BY <1>3, <1>5 DEF Cursor
<1>8. old <= new
  BY <1>6, <1>7
<1> QED BY <1>1, <1>4, <1>5, <1>6, <1>7, <1>8

\* Path revisions numbered past c do not change what was newest at c.
LEMMA NewestUnmoved ==
    ASSUME NEW R, NEW N, NEW c \in Nat, \A r \in N : r.at \in Nat /\ c < r.at
    PROVE  Newest(R \cup N, c) = Newest(R, c)
  BY DEF Newest

\* The revisions of documents N has none of.
Untouched(revs, N) == {r \in revs : \A n \in N : n.doc # r.doc}

\* Revisions past k, no two of one document, supersede those up to k.
LEMMA NewestExtended ==
    ASSUME NEW R, NEW N, NEW k \in Nat, NEW c \in Nat, k <= c,
           \A r \in R : r.at \in Nat /\ r.at <= k,
           \A r \in N : r.at \in Nat /\ k < r.at /\ r.at <= c,
           \A r, s \in N : r.doc = s.doc => r = s
    PROVE  Newest(R \cup N, c) = N \cup Untouched(Newest(R, k), N)
<1>1. ASSUME NEW r \in N PROVE r \in Newest(R \cup N, c)
  BY <1>1 DEF Newest
<1>2. ASSUME NEW r \in R, r \notin N
      PROVE  r \in Newest(R \cup N, c) <=> r \in Newest(R, k) /\ \A n \in N : n.doc # r.doc
  <2>1. ASSUME NEW n \in N, n.doc = r.doc PROVE r \notin Newest(R \cup N, c)
    <3>1. n.at <= c /\ r.at < n.at
      BY <2>1, <1>2
    <3> QED BY <3>1, <2>1, <1>2 DEF Newest
  <2>2. ASSUME \A n \in N : n.doc # r.doc
        PROVE  r \in Newest(R \cup N, c) <=> r \in Newest(R, k)
    <3>1. \A s \in R : s.at <= c /\ s.at <= k
      OBVIOUS
    <3> QED BY <3>1, <2>2, <1>2 DEF Newest
  <2> QED BY <2>1, <2>2
<1>3. Newest(R \cup N, c) \subseteq R \cup N /\ Newest(R, k) \subseteq R
  BY DEF Newest
<1> QED BY <1>1, <1>2, <1>3 DEF Untouched

\* The pairs a set of newest revisions shows.
Shown(revs) == {<<r.doc, r.path>> : r \in {s \in revs : s.live}}

\* Revisions N are appended, at most one per document, and the live paths
\* move for their documents to what they say and for no other document.
HistoryGrows(N) ==
    /\ pathRevs' = pathRevs \cup N
    /\ \A r \in N : /\ r.at \in Nat /\ number < r.at /\ r.at <= Cursor'
                    /\ r.live \in BOOLEAN /\ r.doc \in Docs
                    /\ r.doc \in live' <=> r.live
                    /\ r.live => path'[r.doc] = r.path
    /\ \A r, s \in N : r.doc = s.doc => r = s
    /\ \A d \in Docs : (\A r \in N : r.doc # d) =>
         /\ d \in live' <=> d \in live
         /\ d \in live => path'[d] = path[d]

LEMMA HistoryStep ==
    ASSUME NEW Texts, NEW States, TablesOK(Texts, States), TablesOK(Texts, States)',
           HistoryIsCurrent, UpToCursor, events \subseteq events', NEW N, HistoryGrows(N)
    PROVE  /\ HistoryIsCurrent' /\ \A r \in pathRevs' : r.at <= Cursor'
           /\ \A c \in Nat : c <= number => HistoryPaths(c)' = HistoryPaths(c)
<1>1. PICK old : old = Cursor
  OBVIOUS
<1>2. PICK new : new = Cursor'
  OBVIOUS
<1>3. number \in Nat /\ old \in Nat /\ new \in Nat /\ old <= number /\ old <= new
  BY <1>1, <1>2, CursorGrows
<1>4. /\ pathRevs' = pathRevs \cup N
      /\ \A r \in N : /\ r.at \in Nat /\ number < r.at /\ r.at <= new
                      /\ r.live \in BOOLEAN /\ r.doc \in Docs
                      /\ r.doc \in live' <=> r.live
                      /\ r.live => path'[r.doc] = r.path
      /\ \A r, s \in N : r.doc = s.doc => r = s
      /\ \A d \in Docs : (\A r \in N : r.doc # d) =>
           /\ d \in live' <=> d \in live
           /\ d \in live => path'[d] = path[d]
  BY <1>2 DEF HistoryGrows
<1>5. \A r \in pathRevs : r.at \in Nat /\ r.at <= old
  <2>1. \A r \in pathRevs : r.at \in Nat
    BY DEF TablesOK
  <2> QED BY <1>1, <2>1 DEF UpToCursor
<1> DEFINE Kept == Untouched(Newest(pathRevs, old), N)
<1>6. Newest(pathRevs', new) = N \cup Kept
  <2>1. \A r \in N : r.at \in Nat /\ old < r.at /\ r.at <= new
    BY <1>3, <1>4
  <2>2. \A k, c \in Nat :
           /\ k <= c
           /\ \A r \in pathRevs : r.at \in Nat /\ r.at <= k
           /\ \A r \in N : r.at \in Nat /\ k < r.at /\ r.at <= c
           /\ \A r, s \in N : r.doc = s.doc => r = s
           => Newest(pathRevs \cup N, c) = N \cup Untouched(Newest(pathRevs, k), N)
    BY ONLY NewestExtended, Zenon
  <2> QED BY <1>3, <1>4, <1>5, <2>1, <2>2
<1>7. Shown(Newest(pathRevs, old)) = LivePaths
  BY <1>1 DEF HistoryIsCurrent, HistoryPaths, Shown
<1>8. LivePaths' = Shown(N \cup Kept)
  <2>1. ASSUME NEW d \in live' PROVE <<d, path'[d]>> \in Shown(N \cup Kept)
    <3>1. d \in Docs
      BY <2>1 DEF TablesOK, Known
    <3>2. CASE \E r \in N : r.doc = d
      BY <1>4, <2>1, <3>2 DEF Shown
    <3>3. CASE \A r \in N : r.doc # d
      <4>1. <<d, path'[d]>> \in Shown(Newest(pathRevs, old))
        BY <1>4, <1>7, <2>1, <3>1, <3>3 DEF LivePaths
      <4>2. PICK r \in Newest(pathRevs, old) : r.live /\ r.doc = d /\ r.path = path'[d]
        BY <4>1 DEF Shown
      <4> QED BY <3>3, <4>2 DEF Shown, Untouched
    <3> QED BY <3>2, <3>3
  <2>2. ASSUME NEW r \in N \cup Kept, r.live PROVE r.doc \in live' /\ r.path = path'[r.doc]
    <3>1. CASE r \in N
      BY <1>4, <2>2, <3>1
    <3>2. CASE r \in Kept
      <4>1. <<r.doc, r.path>> \in LivePaths
        BY <1>7, <2>2, <3>2 DEF Shown, Untouched
      <4>2. r.doc \in live /\ r.path = path[r.doc] /\ r.doc \in Docs
        BY <4>1 DEF LivePaths, TablesOK, Known
      <4> QED BY <1>4, <3>2, <4>2 DEF Untouched
    <3> QED BY <2>2, <3>1, <3>2
  <2> HIDE DEF Kept
  <2> QED BY <2>1, <2>2 DEF LivePaths, Shown
<1>9. HistoryIsCurrent'
  <2>1. HistoryPaths(Cursor)' = Shown(Newest(pathRevs', new))
    BY <1>2 DEF HistoryPaths, Shown
  <2> QED BY <1>6, <1>8, <2>1 DEF HistoryIsCurrent
<1>10. \A r \in pathRevs' : r.at <= Cursor'
  BY <1>2, <1>3, <1>4, <1>5
<1>11. ASSUME NEW c \in Nat, c <= number PROVE HistoryPaths(c)' = HistoryPaths(c)
  <2>1. \A r \in N : r.at \in Nat /\ c < r.at
    BY <1>3, <1>4, <1>11
  <2>2. \A k \in Nat : (\A r \in N : r.at \in Nat /\ k < r.at)
           => Newest(pathRevs \cup N, k) = Newest(pathRevs, k)
    BY ONLY NewestUnmoved, Zenon
  <2>3. Newest(pathRevs', c) = Newest(pathRevs, c)
    BY <1>4, <2>1, <2>2
  <2> QED BY <2>3 DEF HistoryPaths
<1> QED BY <1>9, <1>10, <1>11

\* All the rows are the rows up to any later cursor.
LEMMA AllRows ==
    ASSUME NEW Texts, NEW States, Closed(Texts, States), NEW rows, RowsOK(Texts, rows), NEW c \in Nat,
           \A k \in DOMAIN rows : rows[k].at <= c
    PROVE  RowsTo(rows, c) = rows
<1>1. /\ rows \in Seq(Row(Texts)) /\ Ordered(rows) /\ Len(rows) \in Nat /\ DOMAIN rows = 1..Len(rows)
  BY RowsAt DEF RowsOK
<1>2. PICK n \in 0..Len(rows) : /\ \A k \in 1..Len(rows) : rows[k].at <= c <=> k <= n
                               /\ RowsTo(rows, c) = SubSeq(rows, 1, n)
  BY <1>1, RowsToPrefix
<1>3. n = Len(rows)
  <2>1. PICK m \in Nat : m = Len(rows)
    BY <1>1
  <2>2. \A k \in 1..m : k <= n
    BY <1>1, <1>2, <2>1
  <2>3. n \in 0..m
    BY <2>1
  <2>4. m \in 1..m => m <= n
    BY <2>2
  <2> QED BY <2>1, <2>3, <2>4
<1>4. PICK few \in Seq(Row(Texts)) : few = SubSeq(rows, 1, n) /\ Len(few) = n /\ \A k \in 1..n : few[k] = rows[k]
  BY <1>1, <1>2, PrefixTyped
<1>5. few = rows
  BY <1>1, <1>3, <1>4, SeqEqual
<1> QED BY <1>2, <1>4, <1>5

\* What the rows of d read as at c survives the step.
StillReads(d, c) ==
    /\ Reading(history'[d], c) = Reading(history[d], c)
    /\ RowsTo(history'[d], c) = <<>> <=> RowsTo(history[d], c) = <<>>

LEMMA StillShown ==
    ASSUME NEW d \in Docs, NEW c, HistoryPaths(c)' = HistoryPaths(c), StillReads(d, c)
    PROVE  HistoryBody(d, c)' = HistoryBody(d, c)
<1>1. HistoryLive(c)' = HistoryLive(c)
  BY DEF HistoryLive
<1>2. HistoryBody(d, c) = IF d \in HistoryLive(c) /\ RowsTo(history[d], c) # <<>>
                          THEN Reading(history[d], c) ELSE NoBody
  BY DEF HistoryBody, RowsUpTo, RowsTo, Reading
<1>3. HistoryBody(d, c)' = IF d \in HistoryLive(c)' /\ RowsTo(history'[d], c) # <<>>
                           THEN Reading(history'[d], c) ELSE NoBody
  BY DEF HistoryBody, RowsUpTo, RowsTo, Reading
<1> QED BY <1>1, <1>2, <1>3 DEF StillReads

\* The history at the current cursor is the live view.
LEMMA NowShown ==
    ASSUME NEW Texts, NEW States, Closed(Texts, States), TablesOK(Texts, States)', Cursor' \in Nat,
           HistoryIsCurrent', TextsCurrent', NEW d \in Docs, d \notin blurred',
           \A k \in DOMAIN history'[d] : history'[d][k].at <= Cursor'
    PROVE  HistoryBody(d, Cursor)' = Body(d)'
<1>1. PICK c \in Nat : c = Cursor'
  OBVIOUS
<1>2. PICK rows : rows = history'[d]
  OBVIOUS
<1>3. RowsOK(Texts, rows)
  BY <1>2 DEF TablesOK
<1>4. RowsTo(rows, c) = rows
  BY <1>1, <1>2, <1>3, AllRows
<1>5. HistoryBody(d, Cursor)' = IF d \in HistoryLive(Cursor)' /\ RowsTo(rows, c) # <<>>
                                THEN Replayed(RowsTo(rows, c)).text ELSE NoBody
  BY <1>1, <1>2 DEF HistoryBody, RowsUpTo, RowsTo
<1>6. d \in HistoryLive(Cursor)' <=> d \in live'
  <2>1. HistoryPaths(Cursor)' = {<<e, path'[e]>> : e \in live'}
    BY DEF HistoryIsCurrent, LivePaths
  <2>2. \A e \in live' : path'[e] \in Paths
    BY DEF TablesOK, Known
  <2>3. d \in HistoryLive(Cursor)' <=> \E p \in Paths : <<d, p>> \in HistoryPaths(Cursor)'
    BY DEF HistoryLive
  <2> QED BY <2>1, <2>2, <2>3
<1>7. d \in live' => rows # <<>> /\ Replayed(rows).text = served'[d].text
  BY <1>2 DEF TablesOK, TextsCurrent, Known
<1> QED BY <1>4, <1>5, <1>6, <1>7 DEF Body

\* A step that appends to the histories, as operations do, or blanks one of
\* them, as surgery does, keeps all of it.
LEMMA MemoryStep ==
    ASSUME NEW Texts, NEW States, Closed(Texts, States), HistoryInv(Texts, States),
           TablesOK(Texts, States)', PastOK(Texts)', events \subseteq events',
           NEW N, HistoryGrows(N), TextsCurrent',
           \A d \in Docs : \A k \in DOMAIN history'[d] : history'[d][k].at <= Cursor',
           \/ /\ Remember
              /\ \A d \in Docs, c \in Nat : c <= number /\ Tip(history'[d], c) = Tip(history[d], c) => StillReads(d, c)
           \/ \E d \in Docs : Forget(d) /\ \A e \in Docs \ {d} : history'[e] = history[e]
    PROVE  HistoryInv(Texts, States)'
<1>1. /\ number \in Nat /\ Cursor \in Nat /\ Cursor' \in Nat /\ Cursor <= number /\ Cursor <= Cursor'
  BY CursorGrows DEF HistoryInv
<1>2. /\ HistoryIsCurrent' /\ \A r \in pathRevs' : r.at <= Cursor'
      /\ \A c \in Nat : c <= number => HistoryPaths(c)' = HistoryPaths(c)
  BY HistoryStep DEF HistoryInv
<1>3. \A v \in past : v.cursor \in Nat /\ v.cursor <= Cursor /\ v.cursor <= number
  BY <1>1 DEF HistoryInv, PastOK, UpToCursor
<1>4. ASSUME NEW v \in past'
      PROVE  \/ v = View'
             \/ \E w \in past : /\ v.cursor = w.cursor /\ v.paths = w.paths /\ v.bodies = w.bodies
                                /\ w.lost \subseteq v.lost
                                /\ \A d \in Docs \ v.lost : StillReads(d, w.cursor)
  <2>1. CASE /\ Remember
             /\ \A d \in Docs, c \in Nat : c <= number /\ Tip(history'[d], c) = Tip(history[d], c) => StillReads(d, c)
    <3>1. CASE v # View'
      <4>1. PICK w \in past : v = [w EXCEPT !.lost = @ \cup Dropped(w.cursor)]
        BY <1>4, <2>1, <3>1 DEF Remember
      <4>2. w \in [cursor : 0..number, paths : SUBSET (Docs \X Paths),
                   bodies : [Docs -> Texts \cup {NoBody}], lost : SUBSET Docs]
        BY DEF HistoryInv, PastOK
      <4>3. /\ v.cursor = w.cursor /\ v.paths = w.paths /\ v.bodies = w.bodies
            /\ v.lost = w.lost \cup Dropped(w.cursor)
        BY <4>1, <4>2
      <4>4. ASSUME NEW d \in Docs \ v.lost PROVE StillReads(d, w.cursor)
        <5>1. Tip(history'[d], w.cursor) = Tip(history[d], w.cursor)
          BY <4>3, <4>4 DEF Dropped
        <5> QED BY <1>3, <2>1, <5>1
      <4> QED BY <4>3, <4>4
    <3> QED BY <3>1
  <2>2. ASSUME NEW d \in Docs, Forget(d), \A e \in Docs \ {d} : history'[e] = history[e], v # View'
        PROVE  \E w \in past : /\ v.cursor = w.cursor /\ v.paths = w.paths /\ v.bodies = w.bodies
                               /\ w.lost \subseteq v.lost
                               /\ \A e \in Docs \ v.lost : StillReads(e, w.cursor)
    <3>1. PICK w \in past : v = [w EXCEPT !.lost = @ \cup {d}]
      BY <1>4, <2>2 DEF Forget
    <3>2. w \in [cursor : 0..number, paths : SUBSET (Docs \X Paths),
                 bodies : [Docs -> Texts \cup {NoBody}], lost : SUBSET Docs]
      BY DEF HistoryInv, PastOK
    <3>3. v.cursor = w.cursor /\ v.paths = w.paths /\ v.bodies = w.bodies /\ v.lost = w.lost \cup {d}
      BY <3>1, <3>2
    <3>4. \A e \in Docs \ v.lost : StillReads(e, w.cursor)
      BY <2>2, <3>3 DEF StillReads
    <3> QED BY <3>3, <3>4
  <2> QED BY <2>1, <2>2
<1>5. View'.cursor = Cursor' /\ View'.paths = LivePaths' /\ View'.lost = blurred'
      /\ \A d \in Docs : View'.bodies[d] = Body(d)'
  BY DEF View
<1>6. ASSUME NEW v \in past'
      PROVE  /\ v.cursor <= Cursor' /\ HistoryPaths(v.cursor)' = v.paths
             /\ \A d \in Docs \ v.lost : HistoryBody(d, v.cursor)' = v.bodies[d]
  <2>1. CASE v = View'
    <3>1. HistoryPaths(v.cursor)' = v.paths
      BY <1>2, <1>5, <2>1 DEF HistoryIsCurrent
    <3>2. ASSUME NEW d \in Docs \ v.lost PROVE HistoryBody(d, v.cursor)' = v.bodies[d]
      <4>1. HistoryBody(d, Cursor)' = Body(d)'
        BY <1>1, <1>2, <1>5, <2>1, <3>2, NowShown
      <4> QED BY <1>5, <2>1, <4>1
    <3> QED BY <1>1, <1>5, <2>1, <3>1, <3>2
  <2>2. ASSUME NEW w \in past, v.cursor = w.cursor, v.paths = w.paths, v.bodies = w.bodies,
               w.lost \subseteq v.lost, \A d \in Docs \ v.lost : StillReads(d, w.cursor)
        PROVE  /\ v.cursor <= Cursor' /\ HistoryPaths(v.cursor)' = v.paths
               /\ \A d \in Docs \ v.lost : HistoryBody(d, v.cursor)' = v.bodies[d]
    <3>1. PICK c \in Nat : c = w.cursor /\ c <= Cursor /\ c <= number
      BY <1>3
    <3>2. HistoryPaths(c)' = HistoryPaths(c)
      BY <1>2, <3>1
    <3>3. HistoryPaths(c) = w.paths /\ \A d \in Docs \ w.lost : HistoryBody(d, c) = w.bodies[d]
      BY <3>1 DEF HistoryInv, HistoryRemembers
    <3>4. ASSUME NEW d \in Docs \ v.lost PROVE HistoryBody(d, c)' = w.bodies[d]
      <4>1. StillReads(d, c)
        BY <2>2, <3>1, <3>4
      <4>2. HistoryBody(d, c)' = HistoryBody(d, c)
        BY <3>2, <4>1, StillShown
      <4> QED BY <2>2, <3>3, <4>2
    <3>5. v.cursor <= Cursor'
      BY <1>1, <2>2, <3>1
    <3> QED BY <2>2, <3>1, <3>2, <3>3, <3>4, <3>5
  <2> QED BY <1>4, <2>1, <2>2
<1>7. UpToCursor' /\ HistoryRemembers'
  BY <1>2, <1>6 DEF UpToCursor, HistoryRemembers
<1> QED BY <1>2, <1>7 DEF HistoryInv

LEMMA Recorded ==
    ASSUME NEW Texts, NEW States, TablesOK(Texts, States), TablesOK(Texts, States)', NEW d \in Docs, InsertEvent(d)
    PROVE  /\ events \subseteq events' /\ number \in Nat /\ number + 1 \in Nat
           /\ Cursor' \in Nat /\ number + 1 <= Cursor'
<1>1. events \subseteq events' /\ [at |-> number + 1, doc |-> d] \in events'
  BY DEF InsertEvent
<1>2. \A e \in events' : e.at <= Cursor'
  BY <1>1, CursorGrows
<1>3. number + 1 <= Cursor'
  BY <1>1, <1>2
<1> QED BY <1>1, <1>3, CursorGrows

LEMMA PathRecorded ==
    ASSUME NEW Texts, NEW States, TablesOK(Texts, States), TablesOK(Texts, States)', NEW d \in Docs, NEW p \in Paths,
           NEW isLive \in BOOLEAN, InsertEvent(d), InsertPath(d, p, isLive),
           path' = [path EXCEPT ![d] = p], live' = IF isLive THEN live \cup {d} ELSE live \ {d}
    PROVE  HistoryGrows({[at |-> number + 1, doc |-> d, path |-> p, live |-> isLive]})
<1> DEFINE r == [at |-> number + 1, doc |-> d, path |-> p, live |-> isLive]
<1>1. r.at = number + 1 /\ r.doc = d /\ r.path = p /\ r.live = isLive
  OBVIOUS
<1>2. number \in Nat /\ number + 1 \in Nat /\ number < number + 1 /\ number + 1 <= Cursor'
  BY Recorded
<1>3. path'[d] = p /\ \A e \in Docs \ {d} : path'[e] = path[e] /\ (e \in live' <=> e \in live)
  BY DEF TablesOK
<1>4. d \in live' <=> isLive
  OBVIOUS
<1>5. pathRevs' = pathRevs \cup {r}
  BY DEF InsertPath
<1> HIDE DEF r
<1>6. /\ r.at \in Nat /\ number < r.at /\ r.at <= Cursor'
      /\ r.live \in BOOLEAN /\ r.doc \in Docs
      /\ r.doc \in live' <=> r.live
      /\ r.live => path'[r.doc] = r.path
  BY <1>1, <1>2, <1>3, <1>4
<1>7. \A e \in Docs : (\A s \in {r} : s.doc # e) => e \in Docs \ {d}
  BY <1>1
<1>8. HistoryGrows({r})
  BY <1>3, <1>5, <1>6, <1>7 DEF HistoryGrows
<1> QED BY <1>8 DEF r

LEMMA PathsAlone ==
    ASSUME UNCHANGED <<path, live, pathRevs>>
    PROVE  HistoryGrows({})
  BY DEF HistoryGrows

\* Appending a row to one document's history.
LEMMA RowRemembered ==
    ASSUME NEW Texts, NEW States, Closed(Texts, States), HistoryInv(Texts, States),
           TablesOK(Texts, States)', PastOK(Texts)', NEW d \in Docs, NEW p \in Paths,
           NEW row \in Row(Texts), row.at = number + 1,
           history' = [history EXCEPT ![d] = Appended(d, row, p)],
           InsertEvent(d), Remember, NEW N, HistoryGrows(N),
           live' \subseteq live \cup {d}, blurred \subseteq blurred' \cup {d},
           \A e \in Docs \ {d} : served'[e] = served[e],
           d \in blurred' \/ Replayed(Append(history[d], row)).text = served'[d].text
    PROVE  HistoryInv(Texts, States)'
<1>1. TablesOK(Texts, States) /\ DOMAIN history = Docs
  BY DEF HistoryInv, TablesOK
<1>2. events \subseteq events' /\ number \in Nat /\ Cursor' \in Nat /\ number + 1 <= Cursor' /\ number < number + 1
  BY <1>1, Recorded
<1>3. PICK new : new = Appended(d, row, p)
  OBVIOUS
<1>4. history'[d] = new /\ \A e \in Docs \ {d} : history'[e] = history[e]
  BY <1>1, <1>3
<1>5. /\ RowsOK(Texts, new) /\ \A k \in DOMAIN new : new[k].at <= row.at
      /\ Replayed(new).text = Replayed(Append(history[d], row)).text
      /\ \A c \in Nat : c <= number /\ Tip(new, c) = Tip(history[d], c) =>
           /\ Reading(new, c) = Reading(history[d], c)
           /\ RowsTo(new, c) = <<>> <=> RowsTo(history[d], c) = <<>>
  <2>1. number < row.at
    BY <1>2
  <2> QED BY <1>1, <1>3, <2>1, RowsWritten
<1>6. ASSUME NEW e \in Docs, NEW k \in DOMAIN history'[e] PROVE history'[e][k].at <= Cursor'
  <2>1. CASE e = d
    <3>1. new[k].at \in Nat /\ new[k].at <= number + 1
      BY <1>4, <1>5, <1>6, <2>1, RowsAt
    <3> QED BY <1>2, <1>4, <2>1, <3>1
  <2>2. CASE e # d
    <3>1. RowsOK(Texts, history[e]) /\ k \in DOMAIN history[e] /\ history[e][k].at <= number
      BY <1>1, <1>4, <1>6, <2>2 DEF TablesOK
    <3>2. history[e][k].at \in Nat
      BY <3>1, RowsAt
    <3> QED BY <1>2, <1>4, <2>2, <3>1, <3>2
  <2> QED BY <2>1, <2>2
<1>7. TextsCurrent'
  <2>1. ASSUME NEW e \in live' \ blurred' PROVE Replayed(history'[e]).text = served'[e].text
    <3>1. e \in Docs
      BY <2>1 DEF TablesOK, Known
    <3>2. CASE e = d
      BY <1>4, <1>5, <2>1, <3>2
    <3>3. CASE e # d
      BY <1>4, <2>1, <3>1, <3>3 DEF HistoryInv, TextsCurrent
    <3> QED BY <3>2, <3>3
  <2> QED BY <2>1 DEF TextsCurrent
<1>8. ASSUME NEW e \in Docs, NEW c \in Nat, c <= number, Tip(history'[e], c) = Tip(history[e], c)
      PROVE  StillReads(e, c)
  <2>1. CASE e = d
    <3>1. Reading(new, c) = Reading(history[d], c) /\ (RowsTo(new, c) = <<>> <=> RowsTo(history[d], c) = <<>>)
      BY <1>4, <1>5, <1>8, <2>1
    <3> QED BY <1>4, <2>1, <3>1 DEF StillReads
  <2>2. CASE e # d
    BY <1>4, <2>2 DEF StillReads
  <2> QED BY <2>1, <2>2
<1> QED BY <1>2, <1>6, <1>7, <1>8, MemoryStep

\* A checkpoint row reads as the text served from then on.
LEMMA CheckpointRemembered ==
    ASSUME NEW Texts, NEW States, Closed(Texts, States), HistoryInv(Texts, States),
           TablesOK(Texts, States)', PastOK(Texts)', NEW d \in Docs, NEW p \in Paths,
           NEW state \in States, NEW base \in Texts, WriteCheckpoint(d, state, base, p),
           InsertEvent(d), Remember, NEW N, HistoryGrows(N),
           live' \subseteq live \cup {d}, blurred \subseteq blurred' \cup {d}
    PROVE  HistoryInv(Texts, States)'
<1>1. /\ TablesOK(Texts, States) /\ number \in Nat /\ number + 1 \in Nat /\ DOMAIN served = Docs
      /\ history[d] \in Seq(Row(Texts)) /\ state.text \in Texts
  BY DEF HistoryInv, TablesOK, Closed, RowsOK
<1>2. PICK row \in Row(Texts) : /\ row = CheckpointRow(number + 1, base, state.text) /\ row.at = number + 1
                               /\ row.kind # "update" /\ row.text = state.text
  <2>1. PICK at \in Nat, text \in Texts : at = number + 1 /\ text = state.text
    BY <1>1
  <2>2. /\ CheckpointRow(at, base, text) \in Row(Texts) /\ CheckpointRow(at, base, text).at = at
        /\ CheckpointRow(at, base, text).kind # "update" /\ CheckpointRow(at, base, text).text = text
    BY DEF CheckpointRow, Row
  <2> QED BY <2>1, <2>2
<1>3. history' = [history EXCEPT ![d] = Appended(d, row, p)] /\ served' = [served EXCEPT ![d] = state]
  BY <1>2 DEF WriteCheckpoint
<1>4. served'[d] = state /\ \A e \in Docs \ {d} : served'[e] = served[e]
  BY <1>1, <1>3
<1>5. Replayed(Append(history[d], row)).text = served'[d].text
  <2>1. Replayed(Append(history[d], row)) = Checkpoint(row.text)
    BY <1>1, <1>2, AppendReplays
  <2> QED BY <1>2, <1>4, <2>1 DEF Checkpoint
<1> QED BY <1>2, <1>3, <1>4, <1>5, RowRemembered

LEMMA CreateRemembered ==
    ASSUME NEW Texts, NEW States, Closed(Texts, States), HistoryInv(Texts, States),
           TablesOK(Texts, States)', PastOK(Texts)',
           NEW d \in Docs, NEW p \in Paths, NEW t \in Edits, CreateDocument(d, p, t)
    PROVE  HistoryInv(Texts, States)'
<1>1. Checkpoint(t) \in States /\ Empty \in Texts
  BY DEF Closed
<1>2. /\ WriteCheckpoint(d, Checkpoint(t), Empty, p) /\ path' = [path EXCEPT ![d] = p]
      /\ live' = live \cup {d} /\ InsertEvent(d) /\ InsertPath(d, p, TRUE) /\ Remember /\ blurred' = blurred
  BY DEF CreateDocument
<1>3. HistoryGrows({[at |-> number + 1, doc |-> d, path |-> p, live |-> TRUE]})
  BY <1>2, PathRecorded DEF HistoryInv
<1>4. live' \subseteq live \cup {d} /\ blurred \subseteq blurred' \cup {d}
  BY <1>2
<1> QED BY <1>1, <1>2, <1>3, <1>4, CheckpointRemembered

LEMMA RestoreRemembered ==
    ASSUME NEW Texts, NEW States, Closed(Texts, States), HistoryInv(Texts, States),
           TablesOK(Texts, States)', PastOK(Texts)',
           NEW d \in Docs, NEW k \in DOMAIN history[d], NEW p \in Paths, RestoreDocument(d, k, p)
    PROVE  HistoryInv(Texts, States)'
<1>1. PICK target \in States, base \in Texts : WriteCheckpoint(d, target, base, p)
  <2> DEFINE own == history[d][k].text
             replay == Replayed(SubSeq(history[d], 1, k))
             target == IF replay.text = own THEN replay ELSE Checkpoint(own)
  <2>1. TablesOK(Texts, States) /\ RowsOK(Texts, history[d]) /\ d \in Known
    BY DEF HistoryInv, TablesOK, RestoreDocument
  <2>2. target \in States
    BY <2>1, RestoredState
  <2>3. Loaded(d).text \in Texts
    BY <2>1, LoadedState
  <2>4. WriteCheckpoint(d, target, Loaded(d).text, p)
    BY DEF RestoreDocument
  <2> HIDE DEF target
  <2> QED BY <2>2, <2>3, <2>4
<1>2. /\ path' = [path EXCEPT ![d] = p] /\ live' = live \cup {d} /\ InsertEvent(d)
      /\ IF d \notin live \/ p # path[d] THEN InsertPath(d, p, TRUE) ELSE UNCHANGED pathRevs
      /\ Remember /\ blurred' = blurred \ {d}
  BY DEF RestoreDocument
<1>3. live' \subseteq live \cup {d} /\ blurred \subseteq blurred' \cup {d}
  BY <1>2
<1>4. PICK N : HistoryGrows(N)
  <2>1. CASE d \notin live \/ p # path[d]
    <3>1. HistoryGrows({[at |-> number + 1, doc |-> d, path |-> p, live |-> TRUE]})
      BY <1>2, <2>1, PathRecorded DEF HistoryInv
    <3> QED BY <3>1
  <2>2. CASE ~(d \notin live \/ p # path[d])
    <3>1. path' = path /\ live' = live /\ pathRevs' = pathRevs
      BY <1>2, <2>2 DEF HistoryInv, TablesOK
    <3> QED BY <3>1, PathsAlone
  <2> QED BY <2>1, <2>2
<1> QED BY <1>1, <1>2, <1>3, <1>4, CheckpointRemembered

\* The row an edit appends: the text it converged to, or the edit itself.
LEMMA UpdateRetains ==
    ASSUME NEW Texts, NEW States, Closed(Texts, States), TablesOK(Texts, States),
           NEW d \in Docs, NEW a \in Actors, NEW b \in Bases, NEW t \in Edits, UpdateDocument(d, a, b, t)
    PROVE  \E row \in Row(Texts), state \in States :
             /\ row.at = number + 1
             /\ history' = [history EXCEPT ![d] = Appended(d, row, path[d])]
             /\ served' = [served EXCEPT ![d] = state]
             /\ \/ row.kind # "update" /\ row.text = state.text /\ blurred' = blurred \ {d}
                \/ /\ row.kind = "update" /\ state = ApplyUpdate(Loaded(d), row.actor, row.base, row.text)
                   /\ blurred' = IF Replayed(history[d]) # Loaded(d) THEN blurred \cup {d} ELSE blurred
<1>1. PICK current \in States : current = Loaded(d)
  <2>1. d \in Known
    BY DEF TablesOK, UpdateDocument
  <2> QED BY <2>1, LoadedState
<1>2. PICK result : result = Converged(a, b, t, current)
  OBVIOUS
<1>3. /\ result.state \in States /\ result.state.text \in Texts /\ result.merge \in BOOLEAN
      /\ result.merge => result.state = ApplyUpdate(current, a, b, t)
  <2>1. /\ result.state \in States /\ result.merge \in BOOLEAN
        /\ result.merge => result.state = ApplyUpdate(current, a, b, t)
    BY <1>2, ConvergedTyped
  <2> QED BY <2>1 DEF Closed
<1>4. PICK at \in Nat : at = number + 1
  BY DEF TablesOK
<1>5. /\ served' = [served EXCEPT ![d] = result.state]
      /\ history' = [history EXCEPT ![d] =
                       Appended(d, IF result.merge THEN UpdateRow(at, a, b, t)
                                   ELSE CheckpointRow(at, b, result.state.text), path[d])]
      /\ blurred' = IF ~result.merge THEN blurred \ {d}
                    ELSE IF Replayed(history[d]) # Loaded(d) THEN blurred \cup {d}
                    ELSE blurred
  BY <1>1, <1>2, <1>4 DEF UpdateDocument
<1>6. b \in Texts /\ t \in Texts
  BY DEF Closed
<1>7. CASE result.merge
  <2>1. PICK row \in Row(Texts) : row = UpdateRow(at, a, b, t) /\ row.at = at /\ row.kind = "update"
                                 /\ row.actor = a /\ row.base = b /\ row.text = t
    <3>1. UpdateRow(at, a, b, t) \in Row(Texts)
      BY <1>6 DEF UpdateRow, Row
    <3>2. /\ UpdateRow(at, a, b, t).at = at /\ UpdateRow(at, a, b, t).kind = "update"
          /\ UpdateRow(at, a, b, t).actor = a /\ UpdateRow(at, a, b, t).base = b
          /\ UpdateRow(at, a, b, t).text = t
      BY DEF UpdateRow
    <3> QED BY <3>1, <3>2
  <2> QED BY <1>1, <1>3, <1>4, <1>5, <1>7, <2>1
<1>8. CASE ~result.merge
  <2>1. PICK text \in Texts : text = result.state.text
    BY <1>3
  <2>2. PICK row \in Row(Texts) : row = CheckpointRow(at, b, text) /\ row.at = at /\ row.kind # "update"
                                 /\ row.text = text
    <3>1. CheckpointRow(at, b, text) \in Row(Texts)
      BY <1>6 DEF CheckpointRow, Row
    <3>2. /\ CheckpointRow(at, b, text).at = at /\ CheckpointRow(at, b, text).kind # "update"
          /\ CheckpointRow(at, b, text).text = text
      BY DEF CheckpointRow
    <3> QED BY <3>1, <3>2
  <2> QED BY <1>3, <1>4, <1>5, <1>8, <2>1, <2>2
<1> QED BY <1>3, <1>7, <1>8

LEMMA UpdateRemembered ==
    ASSUME NEW Texts, NEW States, Closed(Texts, States), HistoryInv(Texts, States),
           TablesOK(Texts, States)', PastOK(Texts)',
           NEW d \in Docs, NEW a \in Actors, NEW b \in Bases, NEW t \in Edits, UpdateDocument(d, a, b, t)
    PROVE  HistoryInv(Texts, States)'
<1>1. /\ TablesOK(Texts, States) /\ d \in Known /\ path[d] \in Paths /\ DOMAIN served = Docs
      /\ history[d] \in Seq(Row(Texts)) /\ history[d] # <<>>
  BY DEF HistoryInv, TablesOK, UpdateDocument, Known, RowsOK
<1>2. PICK row \in Row(Texts), state \in States :
         /\ row.at = number + 1
         /\ history' = [history EXCEPT ![d] = Appended(d, row, path[d])]
         /\ served' = [served EXCEPT ![d] = state]
         /\ \/ row.kind # "update" /\ row.text = state.text /\ blurred' = blurred \ {d}
            \/ /\ row.kind = "update" /\ state = ApplyUpdate(Loaded(d), row.actor, row.base, row.text)
               /\ blurred' = IF Replayed(history[d]) # Loaded(d) THEN blurred \cup {d} ELSE blurred
  BY <1>1, UpdateRetains
<1>3. InsertEvent(d) /\ Remember /\ UNCHANGED <<path, live, pathRevs>>
  BY DEF UpdateDocument
<1>4. PICK N : HistoryGrows(N)
  BY <1>3, PathsAlone
<1>5. served'[d] = state /\ \A e \in Docs \ {d} : served'[e] = served[e]
  BY <1>1, <1>2
<1>6. d \in blurred' \/ Replayed(Append(history[d], row)).text = served'[d].text
  <2>1. CASE row.kind # "update" /\ row.text = state.text
    <3>1. Replayed(Append(history[d], row)) = Checkpoint(row.text)
      BY <1>1, <2>1, AppendReplays
    <3> QED BY <1>5, <2>1, <3>1 DEF Checkpoint
  <2>2. CASE row.kind = "update" /\ Replayed(history[d]) = Loaded(d)
             /\ state = ApplyUpdate(Loaded(d), row.actor, row.base, row.text)
    <3>1. Replayed(Append(history[d], row)) = ApplyUpdate(Replayed(history[d]), row.actor, row.base, row.text)
      BY <1>1, <2>2, AppendReplays
    <3> QED BY <1>5, <2>2, <3>1
  <2> QED BY <1>2, <2>1, <2>2
<1>7. live' \subseteq live \cup {d} /\ blurred \subseteq blurred' \cup {d}
  BY <1>2, <1>3
<1> QED BY <1>1, <1>2, <1>3, <1>4, <1>5, <1>6, <1>7, RowRemembered

\* Operations that leave the bodies alone.
LEMMA BodiesAlone ==
    ASSUME NEW Texts, NEW States, Closed(Texts, States), HistoryInv(Texts, States),
           TablesOK(Texts, States)', PastOK(Texts)', events \subseteq events', NEW N, HistoryGrows(N), Remember,
           UNCHANGED <<served, history, blurred>>, live' \subseteq live
    PROVE  HistoryInv(Texts, States)'
<1>1. number \in Nat /\ Cursor \in Nat /\ Cursor' \in Nat /\ Cursor <= number /\ Cursor <= Cursor'
  BY CursorGrows DEF HistoryInv
<1>2. ASSUME NEW d \in Docs, NEW k \in DOMAIN history'[d] PROVE history'[d][k].at <= Cursor'
  <2>1. RowsOK(Texts, history[d]) /\ history[d][k].at <= Cursor /\ history' = history
    BY <1>2 DEF HistoryInv, TablesOK, UpToCursor
  <2>2. history[d][k].at \in Nat
    BY <1>2, <2>1, RowsAt
  <2> QED BY <1>1, <2>1, <2>2
<1>3. TextsCurrent'
  BY DEF HistoryInv, TextsCurrent
<1>4. \A d \in Docs, c \in Nat : StillReads(d, c)
  BY DEF StillReads
<1> QED BY <1>2, <1>3, <1>4, MemoryStep

LEMMA DeleteMoveRemembered ==
    ASSUME NEW Texts, NEW States, Closed(Texts, States), HistoryInv(Texts, States),
           TablesOK(Texts, States)', PastOK(Texts)', NEW d \in Docs,
           DeleteDocument(d) \/ \E p \in Paths : MoveDocument(d, p)
    PROVE  HistoryInv(Texts, States)'
<1>1. TablesOK(Texts, States) /\ d \in live /\ path[d] \in Paths
  BY DEF HistoryInv, TablesOK, DeleteDocument, MoveDocument, Known
<1>2. PICK p \in Paths, isLive \in BOOLEAN :
         /\ InsertEvent(d) /\ InsertPath(d, p, isLive) /\ Remember
         /\ UNCHANGED <<served, history, blurred>> /\ path' = [path EXCEPT ![d] = p]
         /\ live' = IF isLive THEN live \cup {d} ELSE live \ {d}
  <2>1. CASE DeleteDocument(d)
    <3>1. path' = [path EXCEPT ![d] = path[d]]
      BY <1>1, <2>1 DEF DeleteDocument, TablesOK
    <3> QED BY <1>1, <2>1, <3>1 DEF DeleteDocument, bodyVars
  <2>2. ASSUME NEW p \in Paths, MoveDocument(d, p)
        PROVE  /\ InsertEvent(d) /\ InsertPath(d, p, TRUE) /\ Remember
               /\ UNCHANGED <<served, history, blurred>> /\ path' = [path EXCEPT ![d] = p]
               /\ live' = live \cup {d}
    BY <1>1, <2>2 DEF MoveDocument, bodyVars
  <2> QED BY <2>1, <2>2
<1>3. HistoryGrows({[at |-> number + 1, doc |-> d, path |-> p, live |-> isLive]})
  BY <1>1, <1>2, PathRecorded
<1>4. events \subseteq events' /\ live' \subseteq live
  BY <1>1, <1>2 DEF InsertEvent
<1> QED BY <1>2, <1>3, <1>4, BodiesAlone

\* Surgery on one document's rows, which forgets what they read as.
LEMMA SurgeryRemembered ==
    ASSUME NEW Texts, NEW States, Closed(Texts, States), HistoryInv(Texts, States),
           TablesOK(Texts, States)', PastOK(Texts)', NEW d \in Docs, InsertEvent(d), Forget(d),
           NEW rows, history' = [history EXCEPT ![d] = rows], DOMAIN rows = DOMAIN history[d],
           \A k \in DOMAIN history[d] : rows[k].at = history[d][k].at,
           UNCHANGED <<path, live, served, pathRevs>>, blurred' = blurred \cup {d}
    PROVE  HistoryInv(Texts, States)'
<1>1. TablesOK(Texts, States) /\ DOMAIN history = Docs
  BY DEF HistoryInv, TablesOK
<1>2. /\ number \in Nat /\ Cursor \in Nat /\ Cursor' \in Nat /\ Cursor <= Cursor' /\ events \subseteq events'
  <2>1. events \subseteq events'
    BY DEF InsertEvent
  <2> QED BY <1>1, <2>1, CursorGrows
<1>3. history'[d] = rows /\ \A e \in Docs \ {d} : history'[e] = history[e]
  BY <1>1
<1>4. ASSUME NEW e \in Docs, NEW k \in DOMAIN history'[e] PROVE history'[e][k].at <= Cursor'
  <2>1. k \in DOMAIN history[e] /\ history'[e][k].at = history[e][k].at
    BY <1>3, <1>4
  <2>2. RowsOK(Texts, history[e]) /\ history[e][k].at <= Cursor
    BY <1>1, <2>1 DEF HistoryInv, TablesOK, UpToCursor
  <2>3. history[e][k].at \in Nat
    BY <2>1, <2>2, RowsAt
  <2> QED BY <1>2, <2>1, <2>2, <2>3
<1>5. TextsCurrent'
  <2>1. ASSUME NEW e \in live' \ blurred' PROVE Replayed(history'[e]).text = served'[e].text
    <3>1. e \in Docs /\ e # d /\ e \in live \ blurred
      BY <1>1, <2>1 DEF TablesOK, Known
    <3> QED BY <1>3, <3>1 DEF HistoryInv, TextsCurrent
  <2> QED BY <2>1 DEF TextsCurrent
<1>6. PICK N : HistoryGrows(N)
  BY PathsAlone
<1> QED BY <1>2, <1>3, <1>4, <1>5, <1>6, MemoryStep

LEMMA PurgeRedactRemembered ==
    ASSUME NEW Texts, NEW States, Closed(Texts, States), HistoryInv(Texts, States),
           TablesOK(Texts, States)', PastOK(Texts)', NEW d \in Docs,
           PurgeHistory(d) \/ \E x \in Secrets : RedactHistory(d, x)
    PROVE  HistoryInv(Texts, States)'
<1>1. \A k \in DOMAIN history[d] : history[d][k] \in Row(Texts)
  <2>1. RowsOK(Texts, history[d])
    BY DEF HistoryInv, TablesOK
  <2> QED BY <2>1, RowsAt
<1>2. PICK rows : /\ history' = [history EXCEPT ![d] = rows] /\ DOMAIN rows = DOMAIN history[d]
                  /\ \A k \in DOMAIN history[d] : rows[k].at = history[d][k].at
  <2>1. CASE PurgeHistory(d)
    <3>1. \A r \in Row(Texts) : Blank(r).at = r.at
      BY DEF Row, Blank
    <3> DEFINE rows == [k \in DOMAIN history[d] |-> Blank(history[d][k])]
    <3>2. history' = [history EXCEPT ![d] = rows]
      BY <2>1 DEF PurgeHistory
    <3>3. DOMAIN rows = DOMAIN history[d] /\ \A k \in DOMAIN history[d] : rows[k].at = history[d][k].at
      BY <1>1, <3>1
    <3> HIDE DEF rows
    <3> QED BY <3>2, <3>3
  <2>2. ASSUME NEW x \in Secrets, RedactHistory(d, x)
        PROVE  \E rows : /\ history' = [history EXCEPT ![d] = rows] /\ DOMAIN rows = DOMAIN history[d]
                         /\ \A k \in DOMAIN history[d] : rows[k].at = history[d][k].at
    <3>1. \A r \in Row(Texts) : RedactedRow(r, x).at = r.at
      BY DEF Row, RedactedRow
    <3> DEFINE rows == [k \in DOMAIN history[d] |-> RedactedRow(history[d][k], x)]
    <3>2. history' = [history EXCEPT ![d] = rows]
      BY <2>2 DEF RedactHistory
    <3>3. DOMAIN rows = DOMAIN history[d] /\ \A k \in DOMAIN history[d] : rows[k].at = history[d][k].at
      BY <1>1, <3>1
    <3> HIDE DEF rows
    <3> QED BY <3>2, <3>3
  <2> QED BY <2>1, <2>2
<1>3. InsertEvent(d) /\ Forget(d) /\ UNCHANGED <<path, live, served, pathRevs>> /\ blurred' = blurred \cup {d}
  BY DEF PurgeHistory, RedactHistory
<1> QED BY <1>2, <1>3, SurgeryRemembered

\* A rewind's path revisions, one for each document it changes.
LEMMA RewindPaths ==
    ASSUME NEW Texts, NEW States, Closed(Texts, States), TablesOK(Texts, States), TablesOK(Texts, States)',
           NEW c \in Nat, RestoreWorkspace(c)
    PROVE  /\ events \subseteq events' /\ \A d \in Changed(c) : ChangeNumber(d, c) <= Cursor'
           /\ \E N : HistoryGrows(N)
<1> DEFINE n(d) == [at |-> ChangeNumber(d, c), doc |-> d, path |-> RewoundPath(d, c),
                    live |-> d \in HistoryLive(c)]
           N == {n(d) : d \in Changed(c)}
<1>1. /\ path' = [d \in Docs |-> RewoundPath(d, c)] /\ live' = HistoryLive(c)
      /\ pathRevs' = pathRevs \cup N
      /\ events' = events \cup {[at |-> ChangeNumber(d, c), doc |-> d] : d \in Changed(c)}
  BY DEF RestoreWorkspace
<1>2. number \in Nat /\ events \subseteq events'
  BY <1>1 DEF TablesOK
<1>3. \A e \in events' : e.at <= Cursor'
  BY <1>2, CursorGrows
<1>4. ASSUME NEW d \in Changed(c)
      PROVE  /\ d \in Docs /\ ChangeNumber(d, c) \in Nat /\ number < ChangeNumber(d, c)
             /\ ChangeNumber(d, c) <= Cursor' /\ path'[d] = RewoundPath(d, c)
  <2>1. d \in Docs /\ ChangeNumber(d, c) \in Nat /\ number < ChangeNumber(d, c)
    BY <1>2, ChangesNumbered
  <2>2. [at |-> ChangeNumber(d, c), doc |-> d] \in events'
    BY <1>1
  <2> QED BY <1>1, <1>3, <2>1, <2>2
<1>5. ASSUME NEW d \in Docs, \A r \in N : r.doc # d
      PROVE  (d \in live' <=> d \in live) /\ (d \in live => path'[d] = path[d])
  <2>1. d \notin Changed(c)
    <3>1. d \in Changed(c) => n(d) \in N /\ n(d).doc = d
      OBVIOUS
    <3> QED BY <1>5, <3>1
  <2>2. path'[d] = RewoundPath(d, c)
    BY <1>1
  <2> HIDE DEF N
  <2> QED BY <1>1, <2>1, <2>2, UnchangedStays
<1>6. \A r \in N : \E d \in Changed(c) :
         /\ r = n(d) /\ r.at = ChangeNumber(d, c) /\ r.doc = d /\ r.path = RewoundPath(d, c)
         /\ r.live \in BOOLEAN /\ (r.live <=> d \in HistoryLive(c))
  <2> TAKE r \in N
  <2>1. PICK d \in Changed(c) : r = n(d)
    OBVIOUS
  <2>2. r.at = ChangeNumber(d, c) /\ r.doc = d /\ r.path = RewoundPath(d, c)
    BY <2>1
  <2>3. r.live \in BOOLEAN
    BY <1>1 DEF TablesOK
  <2>4. r.live = (d \in HistoryLive(c))
    BY <2>1
  <2>5. r.live <=> d \in HistoryLive(c)
    BY ONLY <2>3, <2>4
  <2> QED BY <2>1, <2>2, <2>3, <2>5
<1>7. \A r, s \in N : r.doc = s.doc => r = s
  BY <1>6
<1> HIDE DEF N, n
<1>8. \A r \in N : /\ r.at \in Nat /\ number < r.at /\ r.at <= Cursor'
                   /\ r.live \in BOOLEAN /\ r.doc \in Docs
                   /\ r.doc \in live' <=> r.live
                   /\ r.live => path'[r.doc] = r.path
  <2> TAKE r \in N
  <2>1. PICK d \in Changed(c) : /\ r.at = ChangeNumber(d, c) /\ r.doc = d /\ r.path = RewoundPath(d, c)
                               /\ r.live \in BOOLEAN /\ (r.live <=> d \in HistoryLive(c))
    BY <1>6
  <2>2. r.doc \in live' <=> r.live
    BY <1>1, <2>1
  <2> QED BY <1>4, <2>1, <2>2
<1>9. HistoryGrows(N)
  BY <1>1, <1>5, <1>7, <1>8 DEF HistoryGrows
<1> QED BY <1>2, <1>4, <1>9

LEMMA RewindRemembered ==
    ASSUME NEW Texts, NEW States, Closed(Texts, States), HistoryInv(Texts, States),
           TablesOK(Texts, States)', PastOK(Texts)', ~ReviveEmpty, NEW c \in Nat, RestoreWorkspace(c)
    PROVE  HistoryInv(Texts, States)'
<1>1. TablesOK(Texts, States) /\ DOMAIN history = Docs
  BY DEF HistoryInv, TablesOK
<1>2. /\ events \subseteq events' /\ \A d \in Changed(c) : ChangeNumber(d, c) <= Cursor'
      /\ \E N : HistoryGrows(N)
  BY <1>1, RewindPaths
<1>3. PICK N : HistoryGrows(N)
  BY <1>2
<1>4. number \in Nat /\ Cursor \in Nat /\ Cursor' \in Nat /\ Cursor <= Cursor'
  BY <1>1, <1>2, CursorGrows
<1>5. /\ live' = HistoryLive(c) /\ blurred' = blurred \ Rewritten(c) /\ Remember
      /\ \A d \in Docs : history'[d] = IF d \in Rewritten(c)
                                       THEN Appended(d, RewoundRow(d, c), RewoundPath(d, c)) ELSE history[d]
      /\ \A d \in HistoryLive(c) : d \in Docs => served'[d] = Checkpoint(HistoryBody(d, c))
  BY DEF RestoreWorkspace
<1>6. ASSUME NEW d \in Docs, d \in Rewritten(c)
      PROVE  /\ \A k \in DOMAIN history'[d] : history'[d][k].at <= Cursor'
             /\ Replayed(history'[d]).text = HistoryBody(d, c)
             /\ \A b \in Nat : b <= number /\ Tip(history'[d], b) = Tip(history[d], b) => StillReads(d, b)
  <2>1. PICK new : new = Appended(d, RewoundRow(d, c), RewoundPath(d, c))
    OBVIOUS
  <2>2. /\ RowsOK(Texts, new) /\ \A k \in DOMAIN new : new[k].at <= ChangeNumber(d, c)
        /\ Replayed(new).text = HistoryBody(d, c)
        /\ \A b \in Nat : b <= number /\ Tip(new, b) = Tip(history[d], b) =>
             /\ Reading(new, b) = Reading(history[d], b)
             /\ RowsTo(new, b) = <<>> <=> RowsTo(history[d], b) = <<>>
    BY <1>1, <1>6, <2>1, RewoundRows
  <2>3. d \in Changed(c)
    BY <1>6 DEF Rewritten
  <2>4. ChangeNumber(d, c) \in Nat /\ ChangeNumber(d, c) <= Cursor'
    BY <1>2, <1>4, <2>3, ChangesNumbered
  <2>5. \A k \in DOMAIN new : new[k].at \in Nat
    BY <2>2, RowsAt
  <2>6. \A k \in DOMAIN new : new[k].at <= Cursor'
    BY <1>4, <2>2, <2>4, <2>5
  <2>7. history'[d] = new
    BY <1>5, <1>6, <2>1
  <2> QED BY <2>2, <2>6, <2>7 DEF StillReads
<1>7. ASSUME NEW d \in Docs, NEW k \in DOMAIN history'[d] PROVE history'[d][k].at <= Cursor'
  <2>1. CASE d \in Rewritten(c)
    BY <1>6, <1>7, <2>1
  <2>2. CASE d \notin Rewritten(c)
    <3>1. RowsOK(Texts, history[d]) /\ k \in DOMAIN history[d] /\ history[d][k].at <= Cursor
      BY <1>1, <1>5, <1>7, <2>2 DEF HistoryInv, UpToCursor, TablesOK
    <3>2. history[d][k].at \in Nat
      BY <3>1, RowsAt
    <3> QED BY <1>4, <1>5, <2>2, <3>1, <3>2
  <2> QED BY <2>1, <2>2
<1>8. ASSUME NEW d \in Docs, NEW b \in Nat, b <= number, Tip(history'[d], b) = Tip(history[d], b)
      PROVE  StillReads(d, b)
  <2>1. CASE d \in Rewritten(c)
    BY <1>6, <1>8, <2>1
  <2>2. CASE d \notin Rewritten(c)
    BY <1>5, <2>2 DEF StillReads
  <2> QED BY <2>1, <2>2
<1>9. ASSUME NEW d \in live' \ blurred' PROVE Replayed(history'[d]).text = served'[d].text
  <2>1. d \in HistoryLive(c)
    BY <1>5, <1>9
  <2>2. d \in Docs /\ HistoryBody(d, c) \in Texts
    BY <1>1, <2>1, ShownHasText DEF Known
  <2>3. served'[d].text = HistoryBody(d, c)
    <3>1. served'[d] = Checkpoint(HistoryBody(d, c))
      BY <1>5, <2>1, <2>2
    <3>2. \A text : Checkpoint(text).text = text
      BY DEF Checkpoint
    <3> QED BY <3>1, <3>2
  <2>4. CASE d \in Rewritten(c)
    BY <1>6, <2>2, <2>3, <2>4
  <2>5. CASE d \notin Rewritten(c)
    <3>1. Comparable(Body(d)) = Comparable(HistoryBody(d, c)) /\ HistoryBody(d, c) # NoBody
      BY <2>1, <2>2, <2>5, UnchangedStays DEF BodyChanged, Closed
    <3>2. d \in live
      <4>1. d \notin live => HistoryBody(d, c) # Empty
        BY <2>1 DEF RestoreWorkspace
      <4>2. d \notin live => Comparable(Body(d)) = Empty
        BY DEF Comparable, Body
      <4> QED BY <3>1, <4>1, <4>2 DEF Comparable
    <3>3. served[d].text # NoBody
      BY <1>1, <3>2 DEF TablesOK, Closed
    <3>4. served[d].text = HistoryBody(d, c)
      BY <3>1, <3>2, <3>3 DEF Comparable, Body
    <3>5. Replayed(history[d]).text = served[d].text
      BY <1>5, <1>9, <2>5, <3>2 DEF HistoryInv, TextsCurrent
    <3> QED BY <1>5, <2>2, <2>3, <2>5, <3>4, <3>5
  <2> QED BY <2>4, <2>5
<1>10. TextsCurrent'
  BY <1>9 DEF TextsCurrent
<1> QED BY <1>2, <1>3, <1>5, <1>7, <1>8, <1>10, MemoryStep

LEMMA OtherRemembered ==
    ASSUME NEW Texts, NEW States, HistoryInv(Texts, States), TablesOK(Texts, States)', PastOK(Texts)',
           \/ \E ms \in SUBSET Mounts : Bootstrap(ms)
           \/ DrawNumber
           \/ \E k \in Keys, policy \in Policies : SetPolicy(k, policy)
           \/ \E k \in Keys : ClearPolicy(k)
           \/ UNCHANGED vars
    PROVE  HistoryInv(Texts, States)'
<1>1. UNCHANGED <<path, live, served, history, events, pathRevs, past, blurred>>
  BY DEF Bootstrap, DrawNumber, SetPolicy, ClearPolicy, bodyVars, vars
<1>2. Cursor' = Cursor /\ LivePaths' = LivePaths
  BY <1>1 DEF Cursor, LivePaths
<1>3. \A c : HistoryPaths(c)' = HistoryPaths(c)
  BY <1>1 DEF HistoryPaths
<1>4. HistoryIsCurrent'
  BY <1>1, <1>2 DEF HistoryIsCurrent, HistoryPaths, HistoryInv
<1>5. TextsCurrent' /\ UpToCursor'
  BY <1>1, <1>2 DEF TextsCurrent, UpToCursor, HistoryInv
<1>6. \A c : \A d \in Docs : HistoryBody(d, c)' = HistoryBody(d, c)
  BY <1>1 DEF HistoryBody, HistoryLive, HistoryPaths, RowsUpTo
<1>7. HistoryRemembers'
  BY <1>1, <1>3, <1>6 DEF HistoryRemembers, HistoryInv
<1> QED BY <1>4, <1>5, <1>7 DEF HistoryInv

LEMMA InitRemembered ==
    ASSUME NEW Texts, NEW States, Closed(Texts, States), Init
    PROVE  HistoryInv(Texts, States)
<1>1. TablesOK(Texts, States) /\ PastOK(Texts)
  BY InitKeeps
<1>2. /\ events = {} /\ pathRevs = {} /\ live = {} /\ blurred = {} /\ past = {View}
      /\ history = [d \in Docs |-> <<>>]
  BY DEF Init
<1>3. Cursor = 0 /\ LivePaths = {}
  BY <1>2 DEF Cursor, Newer, LivePaths
<1>4. \A c : HistoryPaths(c) = {} /\ HistoryLive(c) = {}
  BY <1>2 DEF HistoryPaths, HistoryLive, Newest
<1>5. \A c : \A d \in Docs : HistoryBody(d, c) = NoBody
  BY <1>4 DEF HistoryBody
<1>6. \A v \in past : v.cursor = 0 /\ v.paths = {} /\ \A d \in Docs : v.bodies[d] = NoBody
  BY <1>2, <1>3 DEF View, Body
<1>7. \A d \in Docs : DOMAIN history[d] = {}
  <2>1. DOMAIN <<>> = {}
    OBVIOUS
  <2> QED BY <1>2, <2>1
<1>8. HistoryIsCurrent /\ TextsCurrent
  BY <1>2, <1>3, <1>4 DEF HistoryIsCurrent, TextsCurrent
<1>9. UpToCursor
  BY <1>2, <1>3, <1>6, <1>7 DEF UpToCursor
<1>10. HistoryRemembers
  BY <1>4, <1>5, <1>6 DEF HistoryRemembers
<1> QED BY <1>1, <1>8, <1>9, <1>10 DEF HistoryInv

LEMMA StepRemembers ==
    ASSUME NEW Texts, NEW States, Closed(Texts, States), ~ReviveEmpty, HistoryInv(Texts, States), [Next]_vars
    PROVE  HistoryInv(Texts, States)'
<1>1. TablesOK(Texts, States) /\ PastOK(Texts) /\ TablesOK(Texts, States)' /\ PastOK(Texts)' /\ number \in Nat
  BY StepKeeps DEF HistoryInv, TablesOK
<1> DEFINE Kept == HistoryInv(Texts, States)'
<1>2. ASSUME NEW d \in Docs, NEW p \in Paths, NEW t \in Edits, CreateDocument(d, p, t) PROVE Kept
  BY <1>1, <1>2, CreateRemembered
<1>3. ASSUME NEW d \in Docs, NEW a \in Actors, NEW b \in Bases, NEW t \in Edits, UpdateDocument(d, a, b, t)
      PROVE  Kept
  BY <1>1, <1>3, UpdateRemembered
<1>4. ASSUME NEW d \in Docs, DeleteDocument(d) PROVE Kept
  BY <1>1, <1>4, DeleteMoveRemembered
<1>5. ASSUME NEW d \in Docs, NEW p \in Paths, MoveDocument(d, p) PROVE Kept
  BY <1>1, <1>5, DeleteMoveRemembered
<1>6. ASSUME NEW d \in Docs, NEW p \in Paths, NEW k \in DOMAIN history[d], RestoreDocument(d, k, p) PROVE Kept
  BY <1>1, <1>6, RestoreRemembered
<1>7. ASSUME NEW c \in 0..number, RestoreWorkspace(c) PROVE Kept
  <2>1. c \in Nat
    BY <1>1
  <2> QED BY <1>1, <1>7, <2>1, RewindRemembered
<1>8. ASSUME NEW d \in Docs, PurgeHistory(d) PROVE Kept
  BY <1>1, <1>8, PurgeRedactRemembered
<1>9. ASSUME NEW d \in Docs, NEW x \in Secrets, RedactHistory(d, x) PROVE Kept
  BY <1>1, <1>9, PurgeRedactRemembered
<1>10. ASSUME \/ \E ms \in SUBSET Mounts : Bootstrap(ms)
              \/ DrawNumber
              \/ \E k \in Keys, policy \in Policies : SetPolicy(k, policy)
              \/ \E k \in Keys : ClearPolicy(k)
              \/ UNCHANGED vars
       PROVE  Kept
  BY <1>1, <1>10, OtherRemembered
<1> HIDE DEF Kept
<1>11. Kept
  BY <1>2, <1>3, <1>4, <1>5, <1>6, <1>7, <1>8, <1>9, <1>10 DEF Next
<1> QED BY <1>11 DEF Kept

\* The history stays a time machine: whatever edits, moves, rewinds, policies,
\* purges and redactions follow, every view it has not been asked to forget is
\* reconstructed as it was, if no document is revived empty.
THEOREM HistoryStaysExact ==
    ASSUME NEW Texts, NEW States, Closed(Texts, States), ~ReviveEmpty
    PROVE  Spec => []HistoryRemembers
<1>1. Init => HistoryInv(Texts, States)
  BY InitRemembered
<1>2. HistoryInv(Texts, States) /\ [Next]_vars => HistoryInv(Texts, States)'
  BY StepRemembers
<1>3. HistoryInv(Texts, States) => HistoryRemembers
  BY DEF HistoryInv
<1> QED BY <1>1, <1>2, <1>3, PTL DEF Spec

-----------------------------------------------------------------------------
(* The store implements the shared workspace.  Numbers have gaps, so the    *)
(* clients' cursor and stamps count the events up to a number.              *)

CountTo(E, n) == Cardinality({e \in E : e.at <= n})

LatestOf(E, d) == Newer({e.at : e \in {f \in E : f.doc = d}})

stamp == [d \in Docs |-> CountTo(events, LatestOf(events, d))]

\* Events F of distinct documents, numbered past those of E.
Follows(E, F, n, m) ==
    /\ n \in Nat /\ m \in Nat /\ n <= m /\ IsFiniteSet(E) /\ IsFiniteSet(F)
    /\ E \subseteq [at : 1..n, doc : Docs] /\ F \subseteq [at : 1..m, doc : Docs]
    /\ \A f \in F : n < f.at
    /\ \A f, g \in F : f.doc = g.doc \/ f.at = g.at => f = g

LEMMA CountGrows ==
    ASSUME NEW E, NEW F, NEW n, NEW m, Follows(E, F, n, m)
    PROVE  /\ IsFiniteSet(E \cup F) /\ Cardinality(E) \in Nat /\ Cardinality(E \cup F) \in Nat
           /\ Cardinality(E) <= Cardinality(E \cup F)
           /\ \A f \in F : /\ CountTo(E \cup F, f.at) \in Nat
                           /\ Cardinality(E) < CountTo(E \cup F, f.at)
                           /\ CountTo(E \cup F, f.at) <= Cardinality(E \cup F)
           /\ \A f, g \in F : f.at < g.at => CountTo(E \cup F, f.at) < CountTo(E \cup F, g.at)
<1> DEFINE A == E \cup F
           Upto(x) == {e \in A : e.at <= x}
<1>1. /\ IsFiniteSet(E) /\ IsFiniteSet(A) /\ (\A e \in E : e.at \in Nat /\ e.at <= n) /\ n \in Nat
      /\ \A f \in F : f.at \in Nat /\ n < f.at /\ f \notin E
  <2>1. IsFiniteSet(E) /\ IsFiniteSet(F) /\ n \in Nat
    BY DEF Follows
  <2>2. IsFiniteSet(A)
    BY <2>1, FS_Union
  <2>3. \A e \in E : e.at \in Nat /\ e.at <= n
    BY <2>1 DEF Follows
  <2>4. \A f \in F : f.at \in Nat /\ n < f.at
    BY DEF Follows
  <2>5. \A f \in F : f \notin E
    BY <2>1, <2>3, <2>4
  <2> QED BY <2>1, <2>2, <2>3, <2>4, <2>5
<1>2. A = E \cup F
  OBVIOUS
<1> HIDE DEF A
<1>3. ASSUME NEW T, NEW x, NEW U \in SUBSET A, T \subseteq U, x \in U, x \notin T
      PROVE  /\ Cardinality(T) \in Nat /\ Cardinality(U) \in Nat
             /\ Cardinality(T) < Cardinality(U) /\ Cardinality(U) <= Cardinality(A)
  <2>1. IsFiniteSet(U) /\ Cardinality(U) <= Cardinality(A)
    BY <1>1, FS_Subset
  <2>2. T \in SUBSET U
    BY <1>3
  <2>3. IsFiniteSet(T)
    BY <2>1, <2>2, FS_Subset
  <2>4. PICK V : V = T \cup {x}
    OBVIOUS
  <2>5. Cardinality(V) = Cardinality(T) + 1
    BY <1>3, <2>3, <2>4, FS_AddElement
  <2>6. V \in SUBSET U
    BY <1>3, <2>4
  <2>7. Cardinality(V) <= Cardinality(U)
    BY <2>1, <2>6, FS_Subset
  <2>8. Cardinality(T) \in Nat /\ Cardinality(U) \in Nat
    BY <2>1, <2>3, FS_CardinalityType
  <2> QED BY <2>1, <2>5, <2>7, <2>8
<1>4. E \in SUBSET A /\ \A x : Upto(x) \in SUBSET A
  BY <1>2
<1>5. Cardinality(E) \in Nat /\ Cardinality(A) \in Nat /\ Cardinality(E) <= Cardinality(A)
  BY <1>1, <1>4, FS_Subset, FS_CardinalityType
<1>6. ASSUME NEW f \in F
      PROVE  /\ Cardinality(Upto(f.at)) \in Nat /\ Cardinality(E) < Cardinality(Upto(f.at))
             /\ Cardinality(Upto(f.at)) <= Cardinality(A)
  <2>1. E \subseteq Upto(f.at) /\ f \in Upto(f.at) /\ f \notin E
    BY <1>1, <1>2
  <2>2. PICK U \in SUBSET A : U = Upto(f.at)
    BY <1>4
  <2> HIDE DEF Upto
  <2> QED BY <1>3, <2>1, <2>2
<1>7. ASSUME NEW f \in F, NEW g \in F, f.at < g.at PROVE Cardinality(Upto(f.at)) < Cardinality(Upto(g.at))
  <2>1. \A e \in A : e.at \in Nat
    BY <1>1, <1>2
  <2>2. Upto(f.at) \subseteq Upto(g.at) /\ g \in Upto(g.at) /\ g \notin Upto(f.at)
    BY <1>2, <1>7, <2>1
  <2>3. PICK U \in SUBSET A : U = Upto(g.at)
    BY <1>4
  <2> HIDE DEF Upto
  <2> QED BY <1>3, <2>2, <2>3
<1> QED BY <1>1, <1>2, <1>5, <1>6, <1>7 DEF CountTo, Upto

\* The stamps F moves, and those it does not.
LEMMA StampMoves ==
    ASSUME NEW E, NEW F, NEW n, NEW m, Follows(E, F, n, m), NEW d
    PROVE  /\ \A f \in F : f.doc = d => LatestOf(E \cup F, d) = f.at
           /\ (\A f \in F : f.doc # d) =>
                /\ LatestOf(E \cup F, d) = LatestOf(E, d)
                /\ CountTo(E \cup F, LatestOf(E \cup F, d)) = CountTo(E, LatestOf(E, d))
           /\ CountTo(E, LatestOf(E, d)) \in Nat /\ CountTo(E, LatestOf(E, d)) <= Cardinality(E)
<1> DEFINE S(G) == {e.at : e \in {f \in G : f.doc = d}}
<1>1. /\ n \in Nat /\ m \in Nat /\ n <= m
      /\ (\A e \in E : e.at \in 1..n) /\ \A f \in F : f.at \in 1..m /\ n < f.at
  BY DEF Follows
<1>2. S(E) \in SUBSET (1..n) /\ S(E \cup F) \in SUBSET (1..m)
  BY <1>1
<1>3. ASSUME NEW f \in F, f.doc = d PROVE LatestOf(E \cup F, d) = f.at
  <2>1. f.at \in S(E \cup F)
    BY <1>3
  <2>2. \A t \in S(E \cup F) : t <= f.at
    BY <1>1, <1>3 DEF Follows
  <2>3. PICK T \in SUBSET (1..m) : T = S(E \cup F)
    BY <1>2
  <2> HIDE DEF S
  <2>4. Newer(T) \in T /\ f.at <= Newer(T)
    BY <1>1, <2>1, <2>3, NewerIn
  <2>5. Newer(T) <= f.at /\ f.at \in 1..m /\ Newer(T) \in 1..m
    BY <1>1, <2>2, <2>3, <2>4
  <2>6. Newer(T) = f.at
    BY <1>1, <2>4, <2>5
  <2> QED BY <2>3, <2>6 DEF LatestOf, S
<1>4. LatestOf(E, d) \in 0..n
  <2>1. PICK T \in SUBSET (1..n) : T = S(E)
    BY <1>2
  <2> HIDE DEF S
  <2>2. Newer(T) \in 0..n
    BY <1>1, NewerIn
  <2> QED BY <2>1, <2>2 DEF LatestOf, S
<1>5. ASSUME \A f \in F : f.doc # d
      PROVE  /\ LatestOf(E \cup F, d) = LatestOf(E, d)
             /\ CountTo(E \cup F, LatestOf(E \cup F, d)) = CountTo(E, LatestOf(E, d))
  <2>1. {f \in E \cup F : f.doc = d} = {f \in E : f.doc = d}
    BY <1>5
  <2>2. LatestOf(E \cup F, d) = LatestOf(E, d)
    BY <2>1 DEF LatestOf
  <2>3. \A k \in 0..n : {e \in E \cup F : e.at <= k} = {e \in E : e.at <= k}
    BY <1>1
  <2> QED BY <1>4, <2>2, <2>3 DEF CountTo
<1>6. CountTo(E, LatestOf(E, d)) \in Nat /\ CountTo(E, LatestOf(E, d)) <= Cardinality(E)
  <2>1. PICK T \in SUBSET E : T = {e \in E : e.at <= LatestOf(E, d)}
    OBVIOUS
  <2>2. IsFiniteSet(E)
    BY DEF Follows
  <2>3. Cardinality(T) \in Nat /\ Cardinality(T) <= Cardinality(E)
    BY <2>2, FS_Subset, FS_CardinalityType
  <2> QED BY <2>1, <2>3 DEF CountTo
<1> QED BY <1>3, <1>5, <1>6

LivePathsUnique == \A d, e \in live : path[d] = path[e] => d = e

SharedInv(Texts, States) ==
    TablesOK(Texts, States) /\ PastOK(Texts) /\ IsFiniteSet(events) /\ LivePathsUnique

\* An operation on one document gives it the stamp of the new cursor.
LEMMA Stamps ==
    ASSUME NEW Texts, NEW States, TablesOK(Texts, States), TablesOK(Texts, States)', IsFiniteSet(events),
           NEW d \in Docs, InsertEvent(d)
    PROVE  /\ IsFiniteSet(events') /\ Cardinality(events') = Cardinality(events) + 1
           /\ stamp' = [stamp EXCEPT ![d] = Cardinality(events) + 1]
<1>1. PICK f : f = [at |-> number + 1, doc |-> d]
  OBVIOUS
<1>2. number \in Nat /\ number' = number + 1 /\ events' = events \cup {f} /\ f.at = number + 1 /\ f.doc = d
  BY <1>1 DEF TablesOK, InsertEvent
<1>3. Follows(events, {f}, number, number')
  <2>1. IsFiniteSet({f})
    BY FS_Singleton
  <2>2. /\ events \subseteq [at : 1..number, doc : Docs] /\ number' \in Nat
        /\ f \in [at : 1..number', doc : Docs]
    BY <1>1, <1>2 DEF TablesOK
  <2> QED BY <1>2, <2>1, <2>2 DEF Follows
<1>4. /\ IsFiniteSet(events') /\ Cardinality(events) \in Nat /\ Cardinality(events') \in Nat
      /\ Cardinality(events) < CountTo(events', f.at) /\ CountTo(events', f.at) \in Nat
      /\ CountTo(events', f.at) <= Cardinality(events')
  <2>1. PICK E : E = events
    OBVIOUS
  <2>2. PICK F : F = {f}
    OBVIOUS
  <2>3. PICK n : n = number
    OBVIOUS
  <2>4. PICK m : m = number'
    OBVIOUS
  <2>5. Follows(E, F, n, m) /\ f \in F
    BY <1>3, <2>1, <2>2, <2>3, <2>4
  <2>6. /\ IsFiniteSet(E \cup F) /\ Cardinality(E) \in Nat /\ Cardinality(E \cup F) \in Nat
        /\ CountTo(E \cup F, f.at) \in Nat
        /\ Cardinality(E) < CountTo(E \cup F, f.at) /\ CountTo(E \cup F, f.at) <= Cardinality(E \cup F)
    BY <2>5, CountGrows
  <2>7. events' = E \cup F
    BY <1>2, <2>1, <2>2
  <2> QED BY <2>1, <2>6, <2>7
<1>5. Cardinality(events') = Cardinality(events) + 1
  <2>1. f \notin events
    BY <1>2 DEF TablesOK
  <2> QED BY <1>2, <2>1, FS_AddElement
<1>6. CountTo(events', f.at) = Cardinality(events) + 1
  BY <1>4, <1>5
<1>7. /\ LatestOf(events', d) = f.at
      /\ \A e \in Docs \ {d} : CountTo(events', LatestOf(events', e)) = CountTo(events, LatestOf(events, e))
  <2>1. \A e \in Docs : /\ f.doc = e => LatestOf(events \cup {f}, e) = f.at
                        /\ f.doc # e => CountTo(events \cup {f}, LatestOf(events \cup {f}, e))
                                          = CountTo(events, LatestOf(events, e))
    <3> TAKE e \in Docs
    <3>1. /\ \A g \in {f} : g.doc = e => LatestOf(events \cup {f}, e) = g.at
          /\ (\A g \in {f} : g.doc # e) => CountTo(events \cup {f}, LatestOf(events \cup {f}, e))
                                             = CountTo(events, LatestOf(events, e))
      BY <1>3, StampMoves
    <3> QED BY <3>1
  <2> QED BY <1>2, <2>1
<1>8. stamp' = [e \in Docs |-> CountTo(events', LatestOf(events', e))]
  BY DEF stamp, CountTo, LatestOf
<1> QED BY <1>4, <1>5, <1>6, <1>7, <1>8 DEF stamp

\* A rewind gives every document it changes a stamp of its own, and no other.
LEMMA RewindStamps ==
    ASSUME NEW Texts, NEW States, TablesOK(Texts, States), TablesOK(Texts, States)', IsFiniteSet(events),
           NEW c \in Nat, RestoreWorkspace(c)
    PROVE  /\ IsFiniteSet(events') /\ Cardinality(events) \in Nat /\ Cardinality(events') \in Nat
           /\ Cardinality(events) <= Cardinality(events')
           /\ \A d \in Docs \ Changed(c) : stamp'[d] = stamp[d]
           /\ \A d \in Docs : stamp[d] \in Nat /\ stamp[d] <= Cardinality(events)
           /\ \A d \in Changed(c) : stamp'[d] > Cardinality(events) /\ stamp'[d] <= Cardinality(events')
           /\ \A d, e \in Changed(c) : stamp'[d] = stamp'[e] => d = e
<1> DEFINE f(d) == [at |-> ChangeNumber(d, c), doc |-> d]
           G == {f(d) : d \in Changed(c)}
<1>1. /\ number \in Nat /\ number' = number + Cardinality(Changed(c)) /\ events' = events \cup G
      /\ Cardinality(Changed(c)) \in Nat /\ IsFiniteSet(Changed(c)) /\ Changed(c) \subseteq Docs
      /\ \A d \in Changed(c) : /\ ChangeNumber(d, c) \in Nat /\ number < ChangeNumber(d, c)
                               /\ ChangeNumber(d, c) <= number + Cardinality(Changed(c))
      /\ \A d, e \in Changed(c) : ChangeNumber(d, c) = ChangeNumber(e, c) => d = e
  <2>1. number \in Nat
    BY DEF TablesOK
  <2>2. number' = number + Cardinality(Changed(c)) /\ events' = events \cup G
    BY DEF RestoreWorkspace
  <2> QED BY <2>1, <2>2, ChangesNumbered
<1>2. \A d \in Changed(c) : f(d) \in G /\ f(d).at = ChangeNumber(d, c) /\ f(d).doc = d
  OBVIOUS
<1>3. IsFiniteSet(G)
  <2> DEFINE h == [d \in Changed(c) |-> f(d)]
  <2>1. h \in Surjection(Changed(c), G)
    BY DEF Surjection
  <2> HIDE DEF h, G
  <2> QED BY <1>1, <2>1, FS_Surjection
<1>4. PICK F : F = G
  OBVIOUS
<1>5. \A x \in F : \E d \in Changed(c) : x = f(d) /\ x.at = ChangeNumber(d, c) /\ x.doc = d
  BY <1>4
<1>6. F \subseteq [at : 1..number', doc : Docs]
  <2> SUFFICES ASSUME NEW d \in Changed(c) PROVE f(d) \in [at : 1..number', doc : Docs]
    BY <1>4
  <2> QED BY <1>1
<1> HIDE DEF G
<1>7. PICK E : E = events
  OBVIOUS
<1>8. PICK n : n = number
  OBVIOUS
<1>9. PICK m : m = number'
  OBVIOUS
<1>10. Follows(E, F, n, m)
  <2>1. number <= number' /\ number' \in Nat
    BY <1>1
  <2>2. E \subseteq [at : 1..n, doc : Docs]
    BY <1>7, <1>8 DEF TablesOK
  <2>3. \A x \in F : number < x.at
    BY <1>1, <1>5
  <2>4. \A x, y \in F : x.doc = y.doc \/ x.at = y.at => x = y
    <3> HIDE DEF f
    <3> QED BY <1>1, <1>5
  <2> QED BY <1>1, <1>3, <1>4, <1>6, <1>7, <1>8, <1>9, <2>1, <2>2, <2>3, <2>4 DEF Follows
<1>11. /\ IsFiniteSet(E \cup F) /\ Cardinality(E) \in Nat /\ Cardinality(E \cup F) \in Nat
       /\ Cardinality(E) <= Cardinality(E \cup F)
       /\ \A x \in F : /\ CountTo(E \cup F, x.at) \in Nat
                       /\ Cardinality(E) < CountTo(E \cup F, x.at)
                       /\ CountTo(E \cup F, x.at) <= Cardinality(E \cup F)
       /\ \A x, y \in F : x.at < y.at => CountTo(E \cup F, x.at) < CountTo(E \cup F, y.at)
  BY <1>10, CountGrows
<1>12. ASSUME NEW d
       PROVE  /\ \A x \in F : x.doc = d => LatestOf(E \cup F, d) = x.at
              /\ (\A x \in F : x.doc # d) =>
                   CountTo(E \cup F, LatestOf(E \cup F, d)) = CountTo(E, LatestOf(E, d))
              /\ CountTo(E, LatestOf(E, d)) \in Nat /\ CountTo(E, LatestOf(E, d)) <= Cardinality(E)
  BY <1>10, StampMoves
<1>13. events' = E \cup F
  BY <1>1, <1>4, <1>7
<1>14. \A d \in Docs : stamp[d] = CountTo(E, LatestOf(E, d))
  BY <1>7 DEF stamp
<1>15. \A d \in Docs : stamp'[d] = CountTo(E \cup F, LatestOf(E \cup F, d))
  BY <1>13 DEF stamp, CountTo, LatestOf
<1>16. ASSUME NEW d \in Changed(c)
       PROVE  \E x \in F : x.at = ChangeNumber(d, c) /\ stamp'[d] = CountTo(E \cup F, x.at)
  <2>1. f(d) \in F /\ f(d).at = ChangeNumber(d, c) /\ f(d).doc = d
    BY <1>2, <1>4
  <2>2. PICK x \in F : x.at = ChangeNumber(d, c) /\ x.doc = d
    BY <2>1
  <2>3. LatestOf(E \cup F, d) = x.at
    BY <1>12, <2>2
  <2> QED BY <1>1, <1>15, <2>2, <2>3
<1>17. ASSUME NEW d \in Docs \ Changed(c) PROVE stamp'[d] = stamp[d]
  <2>1. \A x \in F : x.doc # d
    BY <1>5
  <2> QED BY <1>12, <1>14, <1>15, <2>1
<1>18. ASSUME NEW d \in Changed(c), NEW e \in Changed(c), stamp'[d] = stamp'[e] PROVE d = e
  <2>1. PICK x \in F : x.at = ChangeNumber(d, c) /\ stamp'[d] = CountTo(E \cup F, x.at)
    BY <1>16
  <2>2. PICK y \in F : y.at = ChangeNumber(e, c) /\ stamp'[e] = CountTo(E \cup F, y.at)
    BY <1>16
  <2>3. ~(x.at < y.at) /\ ~(y.at < x.at)
    <3>1. PICK k \in Nat : k = CountTo(E \cup F, x.at)
      BY <1>11
    <3>2. PICK l \in Nat : l = CountTo(E \cup F, y.at)
      BY <1>11
    <3>3. k = l
      BY <1>18, <2>1, <2>2, <3>1, <3>2
    <3>4. (x.at < y.at => k < l) /\ (y.at < x.at => l < k)
      BY <1>11, <3>1, <3>2
    <3> QED BY <3>3, <3>4
  <2>4. ChangeNumber(d, c) = ChangeNumber(e, c)
    BY <1>1, <2>1, <2>2, <2>3
  <2> QED BY <1>1, <2>4
<1>19. \A d \in Changed(c) : stamp'[d] > Cardinality(E) /\ stamp'[d] <= Cardinality(E \cup F)
  BY <1>11, <1>16
<1>20. \A d \in Docs : stamp[d] \in Nat /\ stamp[d] <= Cardinality(E)
  BY <1>12, <1>14
<1> QED BY <1>7, <1>11, <1>13, <1>17, <1>18, <1>19, <1>20

\* What a rewind leaves alone is the same for the clients.
LEMMA RewindSame ==
    ASSUME NEW Texts, NEW States, Closed(Texts, States), TablesOK(Texts, States), NEW c \in Nat,
           RestoreWorkspace(c)
    PROVE  /\ \A d \in Docs : path'[d] = NoPath <=> path[d] = NoPath
           /\ \A d \in Docs \ Changed(c) :
                (d \in live' <=> d \in live) /\ path'[d] = path[d] /\ Body(d)' = Body(d)
           /\ \A d, e \in live' : path'[d] = path'[e] => d = e
<1>1. /\ path' = [d \in Docs |-> RewoundPath(d, c)] /\ live' = HistoryLive(c) /\ HistoryLive(c) \subseteq Docs
      /\ \A d \in HistoryLive(c) : served'[d] = Checkpoint(HistoryBody(d, c))
      /\ \A d, e \in HistoryLive(c) : RewoundPath(d, c) = RewoundPath(e, c) => d = e
  BY DEF RestoreWorkspace, HistoryLive
<1>2. \A d \in HistoryLive(c) : d \in Known /\ RewoundPath(d, c) \in Paths /\ HistoryBody(d, c) \in Texts
  BY ShownHasText
<1>3. ASSUME NEW d \in Docs PROVE path'[d] = NoPath <=> path[d] = NoPath
  <2>1. path'[d] = RewoundPath(d, c)
    BY <1>1
  <2>2. d \in HistoryLive(c) => path[d] # NoPath /\ RewoundPath(d, c) # NoPath
    BY <1>2, PlacesAssumption DEF Known
  <2> QED BY <2>1, <2>2, UnchangedStays
<1>4. ASSUME NEW d \in Docs \ Changed(c)
      PROVE  (d \in live' <=> d \in live) /\ path'[d] = path[d] /\ Body(d)' = Body(d)
  <2>1. /\ d \in live <=> d \in HistoryLive(c)
        /\ RewoundPath(d, c) = path[d] /\ (d \in live => ~BodyChanged(d, c))
    BY UnchangedStays
  <2>2. d \in live => served'[d].text = served[d].text
    <3> SUFFICES ASSUME d \in live PROVE served'[d].text = served[d].text
      OBVIOUS
    <3>1. HistoryBody(d, c) # NoBody /\ served[d].text # NoBody
      BY <1>2, <2>1 DEF TablesOK, Closed
    <3>2. served[d].text = HistoryBody(d, c)
      BY <2>1, <3>1 DEF BodyChanged, Comparable, Body
    <3>3. \A text : Checkpoint(text).text = text
      BY DEF Checkpoint
    <3> QED BY <1>1, <2>1, <3>2, <3>3
  <2> QED BY <1>1, <2>1, <2>2 DEF Body
<1>5. \A d, e \in live' : path'[d] = path'[e] => d = e
  BY <1>1
<1> QED BY <1>3, <1>4, <1>5

text == [d \in Docs |-> Body(d)]

LEMMA RewindShared ==
    ASSUME NEW Texts, NEW States, Closed(Texts, States), TablesOK(Texts, States), TablesOK(Texts, States)',
           IsFiniteSet(events), NEW c \in Nat, RestoreWorkspace(c)
    PROVE  Shared!Rewind
<1>1. /\ Cardinality(events) \in Nat /\ Cardinality(events') \in Nat /\ Cardinality(events) <= Cardinality(events')
      /\ \A d \in Docs \ Changed(c) : stamp'[d] = stamp[d]
      /\ \A d \in Docs : stamp[d] \in Nat /\ stamp[d] <= Cardinality(events)
      /\ \A d \in Changed(c) : stamp'[d] > Cardinality(events) /\ stamp'[d] <= Cardinality(events')
      /\ \A d, e \in Changed(c) : stamp'[d] = stamp'[e] => d = e
  BY RewindStamps
<1>2. /\ \A d \in Docs : path'[d] = NoPath <=> path[d] = NoPath
      /\ \A d \in Docs \ Changed(c) :
           (d \in live' <=> d \in live) /\ path'[d] = path[d] /\ Body(d)' = Body(d)
      /\ \A d, e \in live' : path'[d] = path'[e] => d = e
  BY RewindSame
<1>3. \A d \in Docs : text'[d] = Body(d)' /\ text[d] = Body(d)
  BY DEF text, Body
<1>4. PICK before : before = stamp
  OBVIOUS
<1>5. PICK after : after = stamp'
  OBVIOUS
<1>6. ASSUME NEW d \in Docs, NEW e \in Docs, after[d] = after[e], after[d] > Cardinality(events) PROVE d = e
  <2>1. \A x \in Docs : x \notin Changed(c) => ~(after[x] > Cardinality(events))
    BY <1>1, <1>4, <1>5
  <2>2. d \in Changed(c) /\ e \in Changed(c)
    BY <1>6, <2>1
  <2> QED BY <1>1, <1>5, <1>6, <2>2
<1>7. \A d \in Docs :
        \/ (d \in live' <=> d \in live) /\ path'[d] = path[d] /\ text'[d] = text[d] /\ after[d] = before[d]
        \/ after[d] > Cardinality(events) /\ after[d] <= Cardinality(events')
  BY <1>1, <1>2, <1>3, <1>4, <1>5
<1>8. Cardinality(events') >= Cardinality(events)
  BY <1>1
<1> QED BY <1>2, <1>4, <1>5, <1>6, <1>7, <1>8
        DEF Shared!Rewind, Shared!Same, text, stamp, CountTo, LatestOf

\* An operation on one document changes no other's text.
LEMMA TextMoves ==
    ASSUME NEW d \in Docs,
           \A e \in Docs \ {d} : (e \in live' <=> e \in live) /\ served'[e] = served[e]
    PROVE  text' = [text EXCEPT ![d] = text'[d]]
<1>1. \A e \in Docs \ {d} : Body(e)' = Body(e)
  BY DEF Body
<1>2. text' = [e \in Docs |-> Body(e)'] /\ text = [e \in Docs |-> Body(e)]
  BY DEF text, Body
<1> QED BY <1>1, <1>2

LEMMA StampsBelow ==
    ASSUME NEW Texts, NEW States, TablesOK(Texts, States), IsFiniteSet(events)
    PROVE  Cardinality(events) \in Nat /\ \A d \in Docs : stamp[d] \in Nat /\ stamp[d] <= Cardinality(events)
<1>1. Follows(events, {}, number, number)
  BY FS_EmptySet DEF TablesOK, Follows
<1>2. Cardinality(events) \in Nat
  BY FS_CardinalityType
<1>3. \A d : CountTo(events, LatestOf(events, d)) \in Nat /\ CountTo(events, LatestOf(events, d)) <= Cardinality(events)
  BY <1>1, StampMoves
<1> QED BY <1>2, <1>3 DEF stamp

\* Surgery on a deleted document is a rewind that only stamps it.
LEMMA SurgeryShared ==
    ASSUME NEW Texts, NEW States, SharedInv(Texts, States), TablesOK(Texts, States)',
           NEW d \in Docs, InsertEvent(d), UNCHANGED <<path, live, served>>
    PROVE  Shared!Rewrite(d, text'[d]) \/ Shared!Rewind
<1>1. /\ Cardinality(events') = Cardinality(events) + 1
      /\ stamp' = [stamp EXCEPT ![d] = Cardinality(events) + 1]
  BY Stamps DEF SharedInv
<1>2. Cardinality(events) \in Nat /\ \A e \in Docs : stamp[e] \in Nat /\ stamp[e] <= Cardinality(events)
  BY StampsBelow DEF SharedInv
<1>3. text' = text
  BY DEF text, Body
<1>4. CASE d \in live
  <2>1. Shared!Stamp(d)
    BY <1>1 DEF Shared!Stamp, stamp, CountTo, LatestOf
  <2>2. text' = [text EXCEPT ![d] = text'[d]]
    BY TextMoves
  <2> HIDE DEF Shared!Stamp
  <2> QED BY <1>4, <2>1, <2>2 DEF Shared!Rewrite, text
<1>5. CASE d \notin live
  <2>1. PICK before : before = stamp
    OBVIOUS
  <2>2. PICK after : after = stamp'
    OBVIOUS
  <2>3. after[d] = Cardinality(events) + 1 /\ \A e \in Docs \ {d} : after[e] = before[e]
    <3>1. DOMAIN before = Docs
      BY <2>1 DEF stamp
    <3> QED BY <1>1, <2>1, <2>2, <3>1
  <2>4. \A e \in Docs : \/ (e \in live' <=> e \in live) /\ path'[e] = path[e] /\ text'[e] = text[e]
                           /\ after[e] = before[e]
                        \/ after[e] > Cardinality(events) /\ after[e] <= Cardinality(events')
    BY <1>1, <1>2, <1>3, <2>3
  <2>5. \A x, y \in Docs : after[x] = after[y] /\ after[x] > Cardinality(events) => x = y
    BY <1>2, <2>1, <2>3
  <2>6. \A x, y \in live' : path'[x] = path'[y] => x = y
    BY DEF SharedInv, LivePathsUnique
  <2>7. Cardinality(events') >= Cardinality(events)
    BY <1>1, <1>2
  <2> QED BY <2>1, <2>2, <2>4, <2>5, <2>6, <2>7
          DEF Shared!Rewind, Shared!Same, text, stamp, CountTo, LatestOf
<1> QED BY <1>4, <1>5

\* Each operation is a step of the shared workspace or leaves it alone.
LEMMA StepShared ==
    ASSUME NEW Texts, NEW States, Closed(Texts, States),
           SharedInv(Texts, States), TablesOK(Texts, States)', [Next]_vars
    PROVE  [Shared!SharedNext]_(Shared!shared)
<1>1. TablesOK(Texts, States) /\ IsFiniteSet(events) /\ LivePathsUnique /\ DOMAIN served = Docs
      /\ live \subseteq Docs
  BY DEF SharedInv, TablesOK, Known
<1>2. ASSUME NEW d \in Docs, InsertEvent(d)
      PROVE  Shared!Stamp(d)
  <2>1. /\ Cardinality(events') = Cardinality(events) + 1
        /\ stamp' = [stamp EXCEPT ![d] = Cardinality(events) + 1]
    BY <1>1, <1>2, Stamps
  <2> QED BY <2>1 DEF Shared!Stamp, stamp, CountTo, LatestOf
<1>3. ASSUME NEW d \in Docs, NEW p \in Paths, NEW t \in Edits, CreateDocument(d, p, t)
      PROVE  Shared!Place(d, p, text'[d])
  <2>1. text' = [text EXCEPT ![d] = text'[d]]
    <3>1. \A e \in Docs \ {d} : (e \in live' <=> e \in live) /\ served'[e] = served[e]
      BY <1>1, <1>3 DEF CreateDocument, WriteCheckpoint
    <3> QED BY <3>1, TextMoves
  <2>2. Shared!Stamp(d)
    BY <1>2, <1>3 DEF CreateDocument
  <2> HIDE DEF Shared!Stamp
  <2> QED BY <1>3, <2>1, <2>2 DEF Shared!Place, Shared!Free, CreateDocument, PathTaken, text
<1>4. ASSUME NEW d \in Docs, NEW a \in Actors, NEW b \in Bases, NEW t \in Edits, UpdateDocument(d, a, b, t)
      PROVE  Shared!Rewrite(d, text'[d])
  <2>1. text' = [text EXCEPT ![d] = text'[d]]
    <3>1. PICK state : served' = [served EXCEPT ![d] = state]
      BY <1>1, <1>4, UpdateRetains
    <3>2. \A e \in Docs \ {d} : (e \in live' <=> e \in live) /\ served'[e] = served[e]
      BY <1>1, <1>4, <3>1 DEF UpdateDocument
    <3> QED BY <3>2, TextMoves
  <2>2. Shared!Stamp(d) /\ d \in live /\ UNCHANGED <<path, live>>
    BY <1>2, <1>4 DEF UpdateDocument
  <2> HIDE DEF Shared!Stamp
  <2> QED BY <2>1, <2>2 DEF Shared!Rewrite, text
<1>5. ASSUME NEW d \in Docs, DeleteDocument(d)
      PROVE  Shared!Delete(d)
  <2>1. text' = [text EXCEPT ![d] = text'[d]]
    <3>1. \A e \in Docs \ {d} : (e \in live' <=> e \in live) /\ served'[e] = served[e]
      BY <1>5 DEF DeleteDocument, bodyVars
    <3> QED BY <3>1, TextMoves
  <2>2. text'[d] = NoBody
    BY <1>5 DEF DeleteDocument, text, Body
  <2>3. Shared!Stamp(d)
    BY <1>2, <1>5 DEF DeleteDocument
  <2> HIDE DEF Shared!Stamp
  <2> QED BY <1>5, <2>1, <2>2, <2>3 DEF Shared!Delete, DeleteDocument, text
<1>6. ASSUME NEW d \in Docs, NEW p \in Paths, MoveDocument(d, p)
      PROVE  Shared!Move(d, p)
  <2>1. text' = text
    BY <1>6 DEF MoveDocument, bodyVars, text, Body
  <2>2. Shared!Stamp(d)
    BY <1>2, <1>6 DEF MoveDocument
  <2> HIDE DEF Shared!Stamp
  <2> QED BY <1>6, <2>1, <2>2 DEF Shared!Move, Shared!Free, MoveDocument, PathTaken, text
<1>7. ASSUME NEW d \in Docs, NEW p \in Paths, NEW k \in DOMAIN history[d], RestoreDocument(d, k, p)
      PROVE  Shared!Place(d, p, text'[d])
  <2>1. text' = [text EXCEPT ![d] = text'[d]]
    <3>1. \A e \in Docs \ {d} : (e \in live' <=> e \in live) /\ served'[e] = served[e]
      BY <1>1, <1>7 DEF RestoreDocument, WriteCheckpoint
    <3> QED BY <3>1, TextMoves
  <2>2. Shared!Stamp(d)
    BY <1>2, <1>7 DEF RestoreDocument
  <2>3. Shared!Free(p, d)
    BY <1>1, <1>7 DEF Shared!Free, RestoreDocument, PathTaken, LivePathsUnique
  <2> HIDE DEF Shared!Stamp, Shared!Free
  <2> QED BY <1>7, <2>1, <2>2, <2>3 DEF Shared!Place, RestoreDocument, text
<1>8. ASSUME NEW c \in 0..number, RestoreWorkspace(c) PROVE Shared!Rewind
  <2>1. c \in Nat
    BY <1>1 DEF TablesOK
  <2> QED BY <1>1, <1>8, <2>1, RewindShared
<1>9. ASSUME NEW d \in Docs, PurgeHistory(d) \/ \E x \in Secrets : RedactHistory(d, x)
      PROVE  Shared!Rewrite(d, text'[d]) \/ Shared!Rewind
  <2>1. InsertEvent(d) /\ UNCHANGED <<path, live, served>>
    BY <1>9 DEF PurgeHistory, RedactHistory
  <2> QED BY <2>1, SurgeryShared
<1>10. ASSUME \/ \E ms \in SUBSET Mounts : Bootstrap(ms)
              \/ DrawNumber
              \/ \E k \in Keys, policy \in Policies : SetPolicy(k, policy)
              \/ \E k \in Keys : ClearPolicy(k)
              \/ UNCHANGED vars
       PROVE  UNCHANGED Shared!shared
  <2>1. events' = events /\ path' = path /\ live' = live /\ served' = served
    BY <1>10 DEF Bootstrap, DrawNumber, SetPolicy, ClearPolicy, bodyVars, vars
  <2>2. text' = text /\ stamp' = stamp
    BY <2>1 DEF text, Body, stamp, CountTo, LatestOf
  <2> QED BY <2>1, <2>2 DEF Shared!shared, text, stamp, CountTo, LatestOf
<1>11. Shared!SharedNext \/ UNCHANGED Shared!shared
  <2> DEFINE Goal == Shared!SharedNext \/ UNCHANGED Shared!shared
  <2>1. ASSUME NEW d \in Docs, NEW p \in Paths, Shared!Place(d, p, text'[d]) PROVE Goal
    BY <2>1 DEF Shared!SharedNext, text
  <2>2. ASSUME NEW d \in Docs, Shared!Rewrite(d, text'[d]) PROVE Goal
    BY <2>2 DEF Shared!SharedNext, text
  <2>3. ASSUME NEW d \in Docs, Shared!Delete(d) PROVE Goal
    BY <2>3 DEF Shared!SharedNext
  <2>4. ASSUME NEW d \in Docs, NEW p \in Paths, Shared!Move(d, p) PROVE Goal
    BY <2>4 DEF Shared!SharedNext
  <2>5. ASSUME Shared!Rewind PROVE Goal
    BY <2>5 DEF Shared!SharedNext
  <2> HIDE DEF Goal
  <2>6. Goal
    BY <1>3, <1>4, <1>5, <1>6, <1>7, <1>8, <1>9, <1>10, <2>1, <2>2, <2>3, <2>4, <2>5 DEF Next, Goal
  <2> QED BY <2>6 DEF Goal
<1> QED BY <1>11

\* A guard of every operation that places a document, and the index on live
\* paths, keep them apart; the events stay as many as were drawn.
LEMMA SharedStep ==
    ASSUME NEW Texts, NEW States, Closed(Texts, States), SharedInv(Texts, States), [Next]_vars
    PROVE  SharedInv(Texts, States)'
<1> DEFINE Kept == IsFiniteSet(events') /\ LivePathsUnique'
<1>1. /\ TablesOK(Texts, States) /\ IsFiniteSet(events) /\ live \subseteq Docs /\ path \in [Docs -> Paths \cup {NoPath}]
      /\ \A d, e \in live : path[d] = path[e] => d = e
  BY DEF SharedInv, TablesOK, Known, LivePathsUnique
<1>2. TablesOK(Texts, States)' /\ PastOK(Texts)'
  BY StepKeeps DEF SharedInv
<1>3. ASSUME NEW d \in Docs, InsertEvent(d) PROVE IsFiniteSet(events')
  BY <1>1, <1>2, <1>3, Stamps
<1>4. ASSUME NEW d \in Docs, NEW p \in Paths, InsertEvent(d), ~PathTaken(p, d),
             path' = [path EXCEPT ![d] = p], live' = live \cup {d}
      PROVE  Kept
  <2>1. ASSUME NEW e \in live', NEW f \in live', path'[e] = path'[f] PROVE e = f
    BY <1>1, <1>4, <2>1 DEF PathTaken
  <2> QED BY <1>3, <1>4, <2>1 DEF LivePathsUnique
<1>5. ASSUME NEW d \in Docs, InsertEvent(d), path' = path, live' \subseteq live PROVE Kept
  BY <1>1, <1>3, <1>5 DEF LivePathsUnique
<1>6. ASSUME NEW d \in Docs, NEW p \in Paths, NEW t \in Edits, CreateDocument(d, p, t) PROVE Kept
  BY <1>4, <1>6 DEF CreateDocument
<1>7. ASSUME NEW d \in Docs, NEW p \in Paths, MoveDocument(d, p) PROVE Kept
  <2>1. live' = live \cup {d}
    BY <1>7 DEF MoveDocument
  <2> QED BY <1>4, <1>7, <2>1 DEF MoveDocument
<1>8. ASSUME NEW d \in Docs, NEW p \in Paths, NEW k \in DOMAIN history[d], RestoreDocument(d, k, p) PROVE Kept
  <2>1. ~PathTaken(p, d)
    BY <1>1, <1>8 DEF RestoreDocument, PathTaken
  <2>2. InsertEvent(d) /\ path' = [path EXCEPT ![d] = p] /\ live' = live \cup {d}
    BY <1>8 DEF RestoreDocument
  <2> QED BY <1>4, <2>1, <2>2
<1>9. ASSUME NEW d \in Docs,
             \/ \E a \in Actors, b \in Bases, t \in Edits : UpdateDocument(d, a, b, t)
             \/ DeleteDocument(d)
             \/ PurgeHistory(d)
             \/ \E x \in Secrets : RedactHistory(d, x)
      PROVE  Kept
  <2>1. InsertEvent(d) /\ path' = path /\ live' \subseteq live
    BY <1>9 DEF UpdateDocument, DeleteDocument, PurgeHistory, RedactHistory
  <2> QED BY <1>5, <2>1
<1>10. ASSUME NEW c \in 0..number, RestoreWorkspace(c) PROVE Kept
  <2>1. c \in Nat
    BY <1>1 DEF TablesOK
  <2>2. IsFiniteSet(events')
    BY <1>1, <1>2, <1>10, <2>1, RewindStamps
  <2>3. \A d, e \in live' : path'[d] = path'[e] => d = e
    BY <1>1, <1>10, <2>1, RewindSame
  <2> QED BY <2>2, <2>3 DEF LivePathsUnique
<1>11. ASSUME \/ \E ms \in SUBSET Mounts : Bootstrap(ms)
              \/ DrawNumber
              \/ \E k \in Keys, policy \in Policies : SetPolicy(k, policy)
              \/ \E k \in Keys : ClearPolicy(k)
              \/ UNCHANGED vars
       PROVE  Kept
  <2>1. events' = events /\ path' = path /\ live' = live
    BY <1>11 DEF Bootstrap, DrawNumber, SetPolicy, ClearPolicy, vars
  <2> QED BY <1>1, <2>1 DEF LivePathsUnique
<1> HIDE DEF Kept
<1>12. Kept
  BY <1>6, <1>7, <1>8, <1>9, <1>10, <1>11 DEF Next
<1> QED BY <1>2, <1>12 DEF SharedInv, Kept

LEMMA InitShared ==
    ASSUME NEW Texts, NEW States, Closed(Texts, States), Init
    PROVE  SharedInv(Texts, States) /\ Shared!SharedInit
<1>1. SharedInv(Texts, States)
  BY InitKeeps, FS_EmptySet DEF Init, SharedInv, LivePathsUnique
<1>2. text = [d \in Docs |-> NoBody]
  BY DEF Init, text, Body
<1>3. Cardinality(events) = 0
  BY FS_EmptySet DEF Init
<1>4. stamp = [d \in Docs |-> 0]
  <2>1. \A d \in Docs : CountTo(events, LatestOf(events, d)) = 0
    <3>1. \A n : {e \in events : e.at <= n} = {}
      BY DEF Init
    <3> QED BY <3>1, FS_EmptySet DEF CountTo
  <2> QED BY <2>1 DEF stamp
<1>5. path = [d \in Docs |-> NoPath] /\ live = {}
  BY DEF Init
<1> QED BY <1>1, <1>2, <1>3, <1>4, <1>5 DEF Shared!SharedInit, text, stamp, CountTo, LatestOf

\* Whatever the gaps between its numbers, the Postgres store is the shared
\* workspace clients are written against: live documents at paths of their
\* own, every change under a new cursor, every document stamped by its latest.
THEOREM PostgresImplementsShared ==
    ASSUME NEW Texts, NEW States, Closed(Texts, States)
    PROVE  Spec => ImplementsShared
<1>1. Init => SharedInv(Texts, States) /\ Shared!SharedInit
  BY InitShared
<1>2. SharedInv(Texts, States) /\ [Next]_vars => SharedInv(Texts, States)'
  BY SharedStep
<1>3. SharedInv(Texts, States) /\ SharedInv(Texts, States)' /\ [Next]_vars
        => [Shared!SharedNext]_(Shared!shared)
  BY StepShared DEF SharedInv
<1> QED BY <1>1, <1>2, <1>3, PTL DEF Spec, ImplementsShared, Shared!SharedSpec

-----------------------------------------------------------------------------
(* Redacting.                                                              *)

\* The marker brings no secret in, and merging texts that lack a secret does
\* not put one together.  MCPostgresStore evaluates it for a secret that no
\* edit takes apart; one of several characters a merge can put together.
MergesHide(Texts, States) ==
    \A x \in Secrets :
       /\ ~Contains(Empty, x)
       /\ \A t \in Texts : ~Contains(Redacted(t, x), x) /\ (~Contains(t, x) => Redacted(t, x) = t)
       /\ \A s \in States, a \in Actors \cup {Editor}, b \in Texts, t \in Texts :
             ~Contains(s.text, x) /\ ~Contains(b, x) /\ ~Contains(t, x) =>
                ~Contains(ApplyUpdate(s, a, b, t).text, x)

LEMMA RowRedacted ==
    ASSUME NEW Texts, NEW States, Closed(Texts, States), MergesHide(Texts, States), NEW x \in Secrets,
           NEW r \in Row(Texts)
    PROVE  LET after == RedactedRow(r, x)
           IN  /\ after \in Row(Texts) /\ after.kind = r.kind /\ after.text = Redacted(r.text, x)
               /\ ~Contains(after.text, x) /\ ~Contains(after.base, x)
<1>1. r.base \in Texts /\ r.text \in Texts /\ r.kind \in {"checkpoint", "update", "purged"}
  BY DEF Row
<1>2. Redacted(r.base, x) \in Texts /\ Redacted(r.text, x) \in Texts
  BY <1>1 DEF Closed
<1>3. /\ ~Contains(Redacted(r.base, x), x) /\ ~Contains(Redacted(r.text, x), x)
      /\ ~Contains(r.text, x) => Redacted(r.text, x) = r.text
  BY <1>1 DEF MergesHide
<1>4. CASE Matches(r, x)
  BY <1>2, <1>3, <1>4 DEF RedactedRow, Row
<1>5. CASE ~Matches(r, x)
  BY <1>3, <1>5 DEF RedactedRow, Matches
<1> QED BY <1>4, <1>5

\* From its first row on, a redacted history does not read the secret.
LEMMA ReplayHides ==
    ASSUME NEW Texts, NEW States, Closed(Texts, States), MergesHide(Texts, States), NEW x \in Secrets,
           NEW rows \in Seq(Row(Texts)),
           \A k \in 1..Len(rows) : ~Contains(rows[k].text, x) /\ ~Contains(rows[k].base, x)
    PROVE  \A k \in 0..Len(rows) : ~Contains(ReplaySteps(rows)[k].text, x)
<1> DEFINE f == ReplaySteps(rows)
           n == Len(rows)
           S == {k \in Nat : k <= n => ~Contains(f[k].text, x)}
<1>1. n \in Nat /\ \A k \in 1..n : /\ rows[k].actor \in Actors \cup {Editor}
                                   /\ rows[k].base \in Texts /\ rows[k].text \in Texts
  BY RowTyped
<1>2. /\ \A k \in 0..n : f[k] \in States
      /\ f[0] = Checkpoint(Empty)
      /\ \A k \in 1..n : f[k] = ReplayStep(rows, k, f[k - 1])
  BY ReplayStepsValue
<1> HIDE DEF f
<1>3. \A t : Checkpoint(t).text = t
  BY DEF Checkpoint
<1>4. 0 \in S
  BY <1>1, <1>2, <1>3 DEF MergesHide
<1>5. ASSUME NEW k \in Nat, k \in S PROVE k + 1 \in S
  <2> SUFFICES ASSUME k + 1 <= n PROVE ~Contains(f[k + 1].text, x)
    BY <1>5
  <2>1. k + 1 \in 1..n /\ (k + 1) - 1 = k /\ k \in 0..n /\ k <= n
    BY <1>1, <1>5
  <2>2. f[k + 1] = ReplayStep(rows, k + 1, f[k]) /\ f[k] \in States /\ ~Contains(f[k].text, x)
    BY <1>2, <1>5, <2>1
  <2> HIDE DEF n
  <2>3. CASE rows[k + 1].kind = "update" /\ k + 1 > 1
    <3>1. f[k + 1] = ApplyUpdate(f[k], rows[k + 1].actor, rows[k + 1].base, rows[k + 1].text)
      BY <2>2, <2>3 DEF ReplayStep
    <3>2. PICK s \in States : s = f[k]
      BY <2>2
    <3>3. PICK r : r = rows[k + 1]
      OBVIOUS
    <3>4. r.actor \in Actors \cup {Editor} /\ r.base \in Texts /\ r.text \in Texts
      BY <1>1, <2>1, <3>3
    <3>5. ~Contains(s.text, x) /\ ~Contains(r.base, x) /\ ~Contains(r.text, x)
      BY <2>1, <2>2, <3>2, <3>3 DEF n
    <3>6. ~Contains(ApplyUpdate(s, r.actor, r.base, r.text).text, x)
      <4> HIDE DEF f
      <4> QED BY <3>4, <3>5 DEF MergesHide
    <3> QED BY <3>1, <3>2, <3>3, <3>6
  <2>4. CASE ~(rows[k + 1].kind = "update" /\ k + 1 > 1)
    <3>1. f[k + 1] = Checkpoint(rows[k + 1].text)
      BY <2>2, <2>4 DEF ReplayStep
    <3> QED BY <1>3, <2>1, <3>1 DEF n
  <2> QED BY <2>3, <2>4
<1>6. Nat \subseteq S
  <2> HIDE DEF S
  <2> QED BY <1>4, <1>5, Induction
<1> QED BY <1>1, <1>6 DEF f

LEMMA RedactHides ==
    ASSUME NEW Texts, NEW States, Closed(Texts, States), MergesHide(Texts, States), TablesOK(Texts, States),
           NEW d \in Docs, NEW x \in Secrets, RedactHistory(d, x), NEW k \in DOMAIN history[d]
    PROVE  LET before == Replayed(SubSeq(history[d], 1, k)).text
               after == Replayed(SubSeq(history'[d], 1, k)).text
           IN  /\ ~Contains(after, x) /\ ~Contains(history'[d][k].text, x)
               /\ history[d][k].kind # "update" => after = Redacted(before, x)
<1> DEFINE rows == history[d]
           others == history'[d]
<1>1. rows \in Seq(Row(Texts)) /\ DOMAIN history = Docs
  BY DEF TablesOK, RowsOK
<1>2. others = [i \in DOMAIN rows |-> RedactedRow(rows[i], x)]
  BY <1>1 DEF RedactHistory
<1> HIDE DEF rows, others
<1>3. Len(rows) \in Nat /\ DOMAIN rows = 1..Len(rows) /\ \A i \in 1..Len(rows) : rows[i] \in Row(Texts)
  BY <1>1, RowTyped
<1>4. \A i \in 1..Len(rows) : /\ others[i] \in Row(Texts) /\ others[i].kind = rows[i].kind
                              /\ others[i].text = Redacted(rows[i].text, x)
                              /\ ~Contains(others[i].text, x) /\ ~Contains(others[i].base, x)
  BY <1>2, <1>3, RowRedacted
<1>5. others \in Seq(Row(Texts)) /\ Len(others) = Len(rows)
  BY <1>2, <1>3, <1>4
<1>6. k \in 1..Len(rows) /\ k \in 0..Len(rows)
  BY <1>3 DEF rows
<1>7. /\ Replayed(SubSeq(rows, 1, k)) = ReplaySteps(rows)[k]
      /\ Replayed(SubSeq(others, 1, k)) = ReplaySteps(others)[k]
  BY <1>1, <1>5, <1>6, PrefixReplays
<1>8. ~Contains(ReplaySteps(others)[k].text, x)
  BY <1>4, <1>5, <1>6, ReplayHides
<1>9. ASSUME rows[k].kind # "update"
      PROVE  ReplaySteps(others)[k].text = Redacted(ReplaySteps(rows)[k].text, x)
  <2>1. others[k].kind # "update" /\ others[k].text = Redacted(rows[k].text, x)
    BY <1>4, <1>6, <1>9
  <2>2. ReplaySteps(rows)[k] = Checkpoint(rows[k].text) /\ ReplaySteps(others)[k] = Checkpoint(others[k].text)
    BY <1>1, <1>5, <1>6, <1>9, <2>1, LastReplays
  <2> QED BY <2>1, <2>2 DEF Checkpoint
<1> QED BY <1>4, <1>6, <1>7, <1>8, <1>9 DEF rows, others

\* After a redaction no version of the document shows the secret, replayed or
\* alone, provided that merging does not put one together from texts without it
\* (postgres_redact_document_body_history, history_postgres.rs, which redacts row by row
\* and leaves the rows to be replayed on one another).
THEOREM RedactionsHide ==
    ASSUME NEW Texts, NEW States, Closed(Texts, States), MergesHide(Texts, States)
    PROVE  Spec => RedactionHides
<1>1. Init => TablesOK(Texts, States) /\ PastOK(Texts)
  BY InitKeeps
<1>2. TablesOK(Texts, States) /\ PastOK(Texts) /\ [Next]_vars => (TablesOK(Texts, States) /\ PastOK(Texts))'
  BY StepKeeps
<1>3. TablesOK(Texts, States) =>
        [\A d \in Docs, x \in Secrets : RedactHistory(d, x) =>
           \A k \in DOMAIN history[d] :
             LET before == Replayed(SubSeq(history[d], 1, k)).text
                 after == Replayed(SubSeq(history'[d], 1, k)).text
             IN  /\ ~Contains(after, x) /\ ~Contains(history'[d][k].text, x)
                 /\ history[d][k].kind # "update" => after = Redacted(before, x)]_vars
  BY RedactHides
<1> QED BY <1>1, <1>2, <1>3, PTL DEF Spec, RedactionHides
=============================================================================
