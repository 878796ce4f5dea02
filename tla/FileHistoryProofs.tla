-------------------------- MODULE FileHistoryProofs --------------------------
(***************************************************************************)
(* What the file store's history tells, for any number of documents, texts *)
(* and faults, while one slot writes and the others answer clients.        *)
(*                                                                         *)
(* A snapshot and the rows that tell of it are written one after another,  *)
(* so none of the three properties is inductive.  The argument has layers: *)
(* what a request still has among its stages (PlanInv), which rows the     *)
(* history therefore lacks or is still to get (Open), and with those left  *)
(* out, that the rest tells the snapshot on disk and every one of the past *)
(* (Present, Remembered) and that a rewind keeps what it tells (Rewinding).*)
(***************************************************************************)
EXTENDS FileStoreProofs

-----------------------------------------------------------------------------
(* What a request still owes the history.                                  *)

StagedIn(q, name, d) == \E i \in 1..Len(q) : q[i] = <<name, d>>
Staged(x, name, d) == StagedIn(x.todo, name, d)

HasKeep(q) == \E i \in 1..Len(q) : q[i][1] = "keep"

\* The request has kept its snapshot.
Committed(x) == x.req.kind \in Plans /\ (x.todo = <<>> \/ Name(x) \in Recording)

\* A row on d that the history lacks, because it is still to be written or its
\* request broke off.
Open(gone, x, name, d) == <<name, d>> \in gone \/ (Committed(x) /\ Staged(x, name, d))

Bare(snap) == \A d \in Docs : d \notin snap.live => snap.bodies[d] = NoBody

Spot(snap, d) == {snap.path[e] : e \in {d} \cap snap.live}

\* The rows of its own document that a request records, ...
Own(x) ==
    LET kind == x.req.kind  d == x.req.doc
    IN  /\ kind # "rewind" => Staged(x, "event", d)
        /\ kind \in Texting => Staged(x, "body", d)
        /\ kind \in {"create", "delete", "move"} \/ (kind = "restore" /\ Name(x) = "snapshot") =>
             Staged(x, "path", d)
        /\ kind = "rewind" /\ Name(x) \in {"check", "snapshot"} => Staged(x, "history", d)

\* ... those that tell what its snapshot changes, ...
Changes(x, d) ==
    /\ View(x.snap, d) # View(x.old, d) => Staged(x, "event", d)
    /\ Spot(x.snap, d) # Spot(x.old, d) => Staged(x, "path", d)
    /\ d \in x.snap.live /\ Shown(x.snap.bodies[d]) # Shown(x.old.bodies[d]) => Staged(x, "body", d)
    /\ d \in x.snap.live \ x.old.live /\ x.req.kind # "rewind" => Staged(x, "body", d)

\* ... which are among its stages while it is planned.
Foreseen(x) ==
    x.todo # <<>> /\ x.req.kind \in Plans /\ Name(x) \in Planning =>
      /\ HasKeep(x.todo) /\ Own(x)
      /\ Name(x) \notin {"check", "mount", "snapshot"} =>
           /\ Bare(x.snap) /\ \A d \in Docs : Changes(x, d)
           /\ x.req.kind \in Texting => x.req.doc \in x.snap.live

\* What it has kept is on disk, its text is the one worked out, and its number
\* is above those of the paths recorded.
Texted(x) ==
    LET result == x.result  edit == x.req.edit
    IN  /\ result.state.text = x.snap.bodies[x.req.doc]
        /\ IF result.onto = NoState THEN result.state.text = result.own
           ELSE result.state = ApplyUpdate(result.onto, edit.actor, edit.base, edit.text)

Fulfilled(files, x) ==
    /\ Committed(x) => /\ files["snapshot"] # Torn => files["snapshot"] = x.snap
                       /\ x.todo # <<>> => x.wrote
    /\ x.todo # <<>> /\ x.req.kind \in Texting /\ Name(x) \in {"canonical", "keep", "number", "event", "body"} =>
         Texted(x)
    /\ x.todo # <<>> /\ Name(x) \in {"event"} \cup History /\ files["paths"] # Torn =>
         \A i \in DOMAIN files["paths"] : files["paths"][i].seq < x.number

\* A purge has cleared the rows of its document and no others.
Cleared(rows, before, d) ==
    /\ Len(rows) = Len(before)
    /\ \A i \in 1..Len(before) : /\ rows[i].seq = before[i].seq /\ rows[i].doc = before[i].doc
                                 /\ rows[i].doc # d => rows[i] = before[i]

LeftOfPurge(q) ==
    CASE q[1][1] = "erase" -> Len(q) = 4 /\ q[2][1] = "locate" /\ q[3][1] = "number" /\ q[4][1] = "audit"
      [] q[1][1] = "locate" -> Len(q) = 3 /\ q[2][1] = "number" /\ q[3][1] = "audit"
      [] q[1][1] = "number" -> Len(q) = 2 /\ q[2][1] = "audit"
      [] q[1][1] \in {"audit", "rollback"} -> Len(q) = 1

Purges(files, x) ==
    x.todo # <<>> /\ x.req.kind = "purge" =>
      /\ LeftOfPurge(x.todo)
      /\ Name(x) # "erase" =>
           x.wrote /\ (files["bodyRevs"] # Torn => Cleared(files["bodyRevs"], x.result, x.req.doc))

\* The snapshots of the past are older than the next number.
Seen(files, seen, x) ==
    \A v \in seen :
       /\ v.cursor \in Nat /\ Bare(v.snap)
       /\ files["events"] # Torn => v.cursor <= Number(files["events"])
       /\ x.todo # <<>> /\ Name(x) \in {"event"} \cup History => v.cursor < x.number

PlanInv(w) ==
    /\ Foreseen(slot[w]) /\ Fulfilled(disk, slot[w]) /\ Purges(disk, slot[w])
    /\ disk["snapshot"] # Torn => Bare(disk["snapshot"])
    /\ Seen(disk, past, slot[w])

-----------------------------------------------------------------------------
(* Stages gone past.                                                       *)

Passing == {"check", "mount", "locate", "canonical", "entry", "policy", "compact", "bind", "policies"}

\* The parts of a request's stages that the rest relies on are the same for p
\* and for what is left of it.
Follows(kind, p, q) ==
    /\ \A name, d : name \notin Passing => (StagedIn(p, name, d) <=> StagedIn(q, name, d))
    /\ HasKeep(p) => HasKeep(q)
    /\ q # <<>> => p # <<>>
    /\ q # <<>> /\ q[1][1] \in {"event"} \cup History => p[1][1] \in {"event"} \cup History
    /\ p # <<>> /\ q # <<>> /\ kind \in Plans /\ p[1][1] \in Recording => q[1][1] \in Recording
    /\ q # <<>> /\ kind \in Plans /\ q[1][1] \in Planning =>
         /\ p[1][1] \in Planning
         /\ q[1][1] \notin {"check", "mount", "snapshot"} => p[1][1] \notin {"check", "mount", "snapshot"}
         /\ kind = "restore" /\ q[1][1] = "snapshot" => p[1][1] = "snapshot"
         /\ kind = "rewind" /\ q[1][1] \in {"check", "snapshot"} => p[1][1] \in {"check", "snapshot"}
    /\ q # <<>> /\ kind \in Texting /\ q[1][1] \in {"canonical", "keep", "number", "event", "body"} =>
         p[1][1] \in {"canonical", "keep", "number", "event", "body"}

LEMMA TailStaged ==
    ASSUME NEW q \in Seq(Stage), q # <<>>
    PROVE  /\ \A name, d : name # q[1][1] => (StagedIn(q, name, d) <=> StagedIn(Tail(q), name, d))
           /\ \A name, d : StagedIn(Tail(q), name, d) => StagedIn(q, name, d)
           /\ \A name, d : StagedIn(q, name, d) /\ q[1] # <<name, d>> => StagedIn(Tail(q), name, d)
           /\ HasKeep(q) /\ q[1][1] # "keep" => HasKeep(Tail(q))
<1>1. /\ Tail(q) \in Seq(Stage) /\ Len(q) \in Nat /\ Len(q) > 0 /\ Len(Tail(q)) = Len(q) - 1
      /\ \A i \in 1..(Len(q) - 1) : Tail(q)[i] = q[i + 1]
  BY TailParts
<1>2. ASSUME NEW e, NEW i \in 1..Len(q), q[i] = e, q[1] # e
      PROVE  \E j \in 1..Len(Tail(q)) : Tail(q)[j] = e
  <2>1. i # 1 /\ i - 1 \in 1..(Len(q) - 1) /\ (i - 1) + 1 = i
    BY <1>1, <1>2
  <2>2. Tail(q)[i - 1] = e /\ i - 1 \in 1..Len(Tail(q))
    BY <1>1, <1>2, <2>1
  <2> QED BY <2>2
<1>3. ASSUME NEW i \in 1..Len(Tail(q)) PROVE i + 1 \in 1..Len(q) /\ q[i + 1] = Tail(q)[i]
  BY <1>1
<1>4. \A name, d : StagedIn(q, name, d) /\ q[1] # <<name, d>> => StagedIn(Tail(q), name, d)
  BY <1>2 DEF StagedIn
<1>5. \A name, d : StagedIn(Tail(q), name, d) => StagedIn(q, name, d)
  BY <1>3 DEF StagedIn
<1>6. \A name, d : name # q[1][1] => q[1] # <<name, d>>
  OBVIOUS
<1>7. HasKeep(q) /\ q[1][1] # "keep" => HasKeep(Tail(q))
  BY <1>2 DEF HasKeep
<1> QED BY <1>4, <1>5, <1>6, <1>7

LEMMA TailFollows ==
    ASSUME NEW kind \in Kinds, NEW doc, NEW p, Formed(kind, doc, p), p # <<>>, p[1][1] \in Passing
    PROVE  Follows(kind, p, Tail(p)) /\ Formed(kind, doc, Tail(p))
<1> DEFINE q == Tail(p)
<1>1. p \in Seq(Stage) /\ Len(p) \in Nat /\ Len(p) > 0 /\ q \in Seq(Stage)
  BY TailParts DEF Formed
<1>2. Formed(kind, doc, q) /\ (q # <<>> => q[1] = p[2] /\ Len(p) > 1 /\ Leads(kind, p[1], q[1]))
  BY TailFormed
<1>3. p[1][1] \in NamesOf(kind) /\ (q # <<>> => q[1][1] \in NamesOf(kind))
  <2>1. 1 \in 1..Len(p) /\ (q # <<>> => 2 \in 1..Len(p))
    BY <1>1, <1>2
  <2> QED BY <1>2, <2>1 DEF Formed
<1>4. \A name, d : name \notin Passing => (StagedIn(p, name, d) <=> StagedIn(q, name, d))
  BY <1>1, TailStaged
<1>5. HasKeep(p) => HasKeep(q)
  BY <1>1, TailStaged DEF Passing
<1>6. q # <<>> /\ p[1][1] \in Recording => q[1][1] \in Recording \cup {"audit"}
  <2>1. 1 \in 1..Len(p) /\ (q # <<>> => 2 \in 1..Len(p) /\ 1 < 2)
    BY <1>1, <1>2
  <2> QED BY <1>2, <2>1 DEF Formed
<1> HIDE DEF q
<1>7. kind \in Plans => "audit" \notin NamesOf(kind)
  BY DEF Plans, NamesOf, Kinds, Recording, History
<1>8. kind \in Plans => NamesOf(kind) \subseteq Planning \cup Recording
  BY DEF Plans, NamesOf, Kinds, Recording, History, Planning
<1>9. q # <<>> /\ q[1][1] \in {"event"} \cup History => p[1][1] \in {"event"} \cup History
  BY <1>2 DEF Leads, Passing, History
<1>10. q # <<>> /\ kind \in Plans /\ q[1][1] \in Planning => p[1][1] \in Planning
  BY <1>3, <1>6, <1>7, <1>8 DEF Recording, History, Planning
<1>11. q # <<>> /\ kind \in Plans /\ q[1][1] \in Planning =>
         /\ q[1][1] \notin {"check", "mount", "snapshot"} => p[1][1] \notin {"check", "mount", "snapshot"}
         /\ kind = "restore" /\ q[1][1] = "snapshot" => p[1][1] = "snapshot"
         /\ kind = "rewind" /\ q[1][1] \in {"check", "snapshot"} => p[1][1] \in {"check", "snapshot"}
  <2>1. kind = "restore" => p[1][1] \notin {"check", "mount"}
    BY <1>3 DEF NamesOf, Recording, History
  <2>2. ASSUME q # <<>>, q[1][1] \in Planning, q[1][1] \notin {"check", "mount", "snapshot"}
        PROVE  p[1][1] \notin {"check", "mount", "snapshot"}
    BY <1>2, <2>2 DEF Leads, Passing
  <2>3. q # <<>> /\ q[1][1] = "snapshot" => p[1][1] \in {"check", "mount"}
    BY <1>2 DEF Leads
  <2>4. kind = "rewind" => p[1][1] # "mount"
    BY <1>3 DEF NamesOf, Recording, History
  <2>5. q # <<>> => q[1][1] # "check"
    BY <1>2 DEF Leads
  <2> QED BY <2>1, <2>2, <2>3, <2>4, <2>5
<1>12. q # <<>> /\ kind \in Texting /\ q[1][1] \in {"canonical", "keep", "number", "event", "body"} =>
         p[1][1] \in {"canonical", "keep", "number", "event", "body"}
  BY <1>2 DEF Leads, Passing, Texting, History
<1>13. q # <<>> /\ kind \in Plans /\ p[1][1] \in Recording => q[1][1] \in Recording
  BY <1>3, <1>6, <1>7
<1> QED BY <1>2, <1>4, <1>5, <1>9, <1>10, <1>11, <1>12, <1>13 DEF Follows, q

LEMMA FollowsOn ==
    ASSUME NEW kind, NEW p, NEW q, NEW r, Follows(kind, p, q), Follows(kind, q, r)
    PROVE  Follows(kind, p, r)
<1>1. \A name, d : name \notin Passing => (StagedIn(p, name, d) <=> StagedIn(r, name, d))
  BY DEF Follows
<1> QED BY <1>1 DEF Follows, Recording

LEMMA FollowsItself ==
    ASSUME NEW kind, NEW p
    PROVE  Follows(kind, p, p)
BY DEF Follows

\* Going on to the next stage that nothing here depends on.
Held(x, y) == y.req = x.req /\ y.old = x.old /\ y.snap = x.snap /\ y.number = x.number

Recorders == {"snapshot", "events", "paths", "bodyRevs"}

SameBut(gone, gone2, n) == \A name, d : name # n => (<<name, d>> \in gone <=> <<name, d>> \in gone2)

Reaches(w) ==
    LET x == slot[w]  y == slot'[w]
    IN  /\ x.todo # <<>> /\ Held(x, y) /\ (x.wrote => y.wrote)
        /\ y.result = x.result \/ Name(x) \in {"entry", "policy"}
        /\ Follows(x.req.kind, x.todo, y.todo)
        /\ y.todo # <<>> /\ x.req.kind = "purge" /\ LeftOfPurge(x.todo) =>
             LeftOfPurge(y.todo) /\ (Name(x) = "erase" => Name(y) = "erase")
        /\ \A f \in Recorders \ {"bodyRevs"} : disk'[f] = disk[f]
        /\ x.req.kind = "purge" => disk'["bodyRevs"] = disk["bodyRevs"]
        /\ past' = past /\ SameBut(lost, lost', "canonical")

Passes(w) == Reaches(w) /\ disk'["bodyRevs"] = disk["bodyRevs"]

LEMMA KeptLater ==
    ASSUME NEW kind, NEW doc, NEW q, Formed(kind, doc, q), HasKeep(q)
    PROVE  /\ q # <<>> /\ q[1][1] \notin Recording
           /\ \A name \in Planning \ {"keep"} : \A d : StagedIn(q, name, d) => q[1][1] # "keep"
<1>1. PICK i \in 1..Len(q) : q[i][1] = "keep"
  BY DEF HasKeep
<1>2. q # <<>> /\ q \in Seq(Stage) /\ 1 \in 1..Len(q) /\ (i # 1 => 1 < i)
  <2>1. q \in Seq(Stage) /\ Len(<<>>) = 0
    BY DEF Formed
  <2>2. Len(q) \in Nat /\ Len(q) > 0
    BY <2>1
  <2> QED BY <2>1, <2>2
<1>3. q[1][1] \notin Recording
  BY <1>1, <1>2 DEF Formed, Recording, History
<1>4. ASSUME NEW name \in Planning \ {"keep"}, NEW d, StagedIn(q, name, d), q[1][1] = "keep" PROVE FALSE
  <2>1. PICK j \in 1..Len(q) : q[j] = <<name, d>>
    BY <1>4 DEF StagedIn
  <2>2. q[j][1] = name /\ j # 1
    BY <1>4, <2>1
  <2>3. 1 < j
    BY <1>2, <2>2
  <2>4. name \in Recording \cup {"audit"}
    BY <1>2, <1>4, <2>2, <2>3 DEF Formed
  <2> QED BY <1>4, <2>4 DEF Recording, History, Planning
<1> QED BY <1>2, <1>3, <1>4

LEMMA ReachesPlan ==
    ASSUME NEW Texts, NEW States, NEW w, OneWriter(w), FileInv(Texts, States, w), PlanInv(w), Reaches(w),
           FileInv(Texts, States, w)'
    PROVE  PlanInv(w)'
<1> DEFINE x == slot[w]
           y == slot'[w]
           kind == x.req.kind
<1>1. /\ x.todo # <<>> /\ y.req = x.req /\ y.old = x.old /\ y.snap = x.snap /\ y.number = x.number
      /\ (x.wrote => y.wrote) /\ (y.result = x.result \/ Name(x) \in {"entry", "policy"})
      /\ Follows(kind, x.todo, y.todo)
      /\ y.todo # <<>> /\ kind = "purge" /\ LeftOfPurge(x.todo) =>
             LeftOfPurge(y.todo) /\ (Name(x) = "erase" => Name(y) = "erase")
      /\ past' = past
  BY DEF Reaches, Held
<1>2. /\ disk'["snapshot"] = disk["snapshot"] /\ disk'["events"] = disk["events"]
      /\ disk'["paths"] = disk["paths"] /\ (kind = "purge" => disk'["bodyRevs"] = disk["bodyRevs"])
  BY DEF Reaches, Recorders
<1>3. Foreseen(x) /\ Fulfilled(disk, x) /\ Purges(disk, x) /\ Seen(disk, past, x)
      /\ (disk["snapshot"] # Torn => Bare(disk["snapshot"]))
  BY DEF PlanInv
<1>4. SlotOK(Texts, States, disk, x) /\ x.req.kind \in Kinds /\ Name(x) \in NamesOf(kind)
  <2>1. SlotOK(Texts, States, disk, x)
    BY SlotsAre DEF OneWriter
  <2> QED BY <1>1, <2>1, SlotParts
<1> HIDE DEF x, y
<1>5. \A name, d : name \notin Passing => (Staged(x, name, d) <=> Staged(y, name, d))
  BY <1>1 DEF Follows, Staged
<1>6. Committed(y) => Committed(x)
  <2> SUFFICES ASSUME kind \in Plans, y.todo = <<>> \/ Name(y) \in Recording, Name(x) \notin Recording PROVE FALSE
    BY <1>1 DEF Committed
  <2>1. Name(x) \in Planning
    BY <1>4 DEF Plans, NamesOf, Kinds, Recording, History, Planning
  <2>2. HasKeep(y.todo)
    BY <1>1, <1>3, <2>1 DEF Foreseen, Follows
  <2>3. Formed(y.req.kind, y.req.doc, y.todo)
    BY SlotsAre DEF y, OneWriter, FileInv, SlotsOK, SlotOK
  <2> QED BY <2>2, <2>3, KeptLater DEF Name
<1>7. Foreseen(y)
  <2> SUFFICES ASSUME y.todo # <<>>, kind \in Plans, Name(y) \in Planning
               PROVE  /\ HasKeep(y.todo) /\ Own(y)
                      /\ Name(y) \notin {"check", "mount", "snapshot"} =>
                           /\ Bare(y.snap) /\ \A d \in Docs : Changes(y, d)
                           /\ kind \in Texting => x.req.doc \in x.snap.live
    BY <1>1 DEF Foreseen
  <2>1. /\ x.todo # <<>> /\ Name(x) \in Planning
        /\ Name(y) \notin {"check", "mount", "snapshot"} => Name(x) \notin {"check", "mount", "snapshot"}
        /\ kind = "restore" /\ Name(y) = "snapshot" => Name(x) = "snapshot"
        /\ kind = "rewind" /\ Name(y) \in {"check", "snapshot"} => Name(x) \in {"check", "snapshot"}
    BY <1>1 DEF Follows, Name
  <2>2. /\ HasKeep(x.todo) /\ Own(x)
        /\ Name(x) \notin {"check", "mount", "snapshot"} =>
             /\ Bare(x.snap) /\ \A d \in Docs : Changes(x, d)
             /\ kind \in Texting => x.req.doc \in x.snap.live
    BY <1>3, <2>1 DEF Foreseen
  <2>3. HasKeep(y.todo)
    BY <1>1, <2>2 DEF Follows
  <2>4. Own(y)
    BY <1>1, <1>5, <2>1, <2>2 DEF Own, Passing
  <2>5. \A d \in Docs : Changes(x, d) => Changes(y, d)
    BY <1>1, <1>5 DEF Changes, Passing
  <2> QED BY <1>1, <2>1, <2>2, <2>3, <2>4, <2>5
<1>8. Fulfilled(disk', y)
  <2>1. Committed(y) => /\ disk'["snapshot"] # Torn => disk'["snapshot"] = y.snap
                        /\ y.todo # <<>> => y.wrote
    BY <1>1, <1>2, <1>3, <1>6 DEF Fulfilled
  <2>2. y.todo # <<>> /\ kind \in Texting /\ Name(y) \in {"canonical", "keep", "number", "event", "body"} => Texted(y)
    BY <1>1, <1>3 DEF Fulfilled, Follows, Texted, Name
  <2>3. y.todo # <<>> /\ Name(y) \in {"event"} \cup History /\ disk'["paths"] # Torn =>
         \A i \in DOMAIN disk'["paths"] : disk'["paths"][i].seq < y.number
    BY <1>1, <1>2, <1>3 DEF Fulfilled, Follows, Name
  <2> QED BY <1>1, <2>1, <2>2, <2>3 DEF Fulfilled
<1>9. Purges(disk', y)
  BY <1>1, <1>2, <1>3, <1>4 DEF Purges, NamesOf, Purging
<1>10. Seen(disk', past', y)
  BY <1>1, <1>2, <1>3 DEF Seen, Follows, Name
<1> QED BY <1>2, <1>3, <1>7, <1>8, <1>9, <1>10 DEF PlanInv, x, y

LEMMA SlotNow ==
    ASSUME NEW Texts, NEW States, NEW w, FileInv(Texts, States, w), NEW s \in Slots,
           NEW y, slot' = [slot EXCEPT ![s] = y]
    PROVE  slot'[s] = y /\ \A t \in Slots \ {s} : slot'[t] = slot[t]
<1>1. slot = [t \in Slots |-> slot[t]]
  BY DEF FileInv, SlotsOK
<1> QED BY <1>1

\* What a slot holds after its stage is what was worked out in it, ...
Goes(c, y) ==
    /\ y.req = c.req /\ y.todo = Tail(c.todo) /\ y.old = c.old /\ y.snap = c.snap
    /\ y.result = c.result /\ y.number = c.number

\* ... and it has written one file or none.
Writes(f, content) == disk'[f] = content /\ \A g \in Files \ {f} : disk'[g] = disk[g]

LEMMA Advanced ==
    ASSUME NEW Texts, NEW States, NEW w, FileInv(Texts, States, w), NEW s \in Slots,
           NEW c, SlotShaped(c), Advance(s, c)
    PROVE  Goes(c, slot'[s]) /\ slot'[s].wrote = c.wrote /\ \A t \in Slots \ {s} : slot'[t] = slot[t]
<1> DEFINE y == Onward(c)
<1>1. slot' = [slot EXCEPT ![s] = y]
  BY DEF Advance, Onward
<1>2. Goes(c, y) /\ y.wrote = c.wrote
  BY OnwardIs DEF Goes
<1> HIDE DEF y
<1>3. slot'[s] = y /\ \A t \in Slots \ {s} : slot'[t] = slot[t]
  BY <1>1, SlotNow
<1> QED BY <1>2, <1>3

Stored(w, name, content, c) ==
    /\ slot[w].todo # <<>> /\ Name(slot[w]) = name
    /\ Has(w, name) => disk[FileOf[name]] # Torn /\ slot[w].copy = disk[FileOf[name]]
    /\ Goes(c, slot'[w]) /\ slot'[w].wrote = TRUE /\ Writes(FileOf[name], content)

LEMMA PutDone ==
    ASSUME NEW Texts, NEW States, NEW w, OneWriter(w), FileInv(Texts, States, w),
           NEW name \in DOMAIN FileOf, NEW content, NEW c, SlotShaped(c), Put(w, name, content, c),
           \/ Has(w, name) /\ name \in Copying \ {"history"}
           \/ At(w, name) /\ name \in {"keep", "rollback"}
    PROVE  Stored(w, name, content, c)
<1> DEFINE x == slot[w]
           f == FileOf[name]
<1>a. w \in Slots
  BY DEF OneWriter
<1>1. /\ x.todo # <<>> /\ Name(x) = name /\ f \in Files
      /\ Has(w, name) => disk[f] # Torn /\ x.copy = disk[f]
      /\ disk' = Written(disk, f, content) /\ slot' = [slot EXCEPT ![w] = Wrote(c)]
  BY <1>a, Puts
<1>2. PICK y : y = Wrote(c)
  OBVIOUS
<1>3. Goes(c, y) /\ y.wrote = TRUE
  BY <1>2, WroteIs DEF Goes
<1>4. slot'[w] = y
  BY <1>a, <1>1, <1>2, SlotNow
<1>5. disk = [g \in Files |-> disk[g]]
  BY DEF FileInv, DiskOK
<1>6. Writes(f, content)
  BY <1>1, <1>5 DEF Written, Writes
<1> QED BY <1>1, <1>3, <1>4, <1>6 DEF Stored

LEMMA TailReaches ==
    ASSUME NEW Texts, NEW States, NEW w, OneWriter(w), FileInv(Texts, States, w),
           slot[w].todo # <<>>, Name(slot[w]) \in Passing,
           Held(slot[w], slot'[w]), slot[w].wrote => slot'[w].wrote, slot'[w].todo = Tail(slot[w].todo),
           slot'[w].result = slot[w].result \/ Name(slot[w]) \in {"entry", "policy"},
           \A f \in Recorders \ {"bodyRevs"} : disk'[f] = disk[f],
           slot[w].req.kind = "purge" => disk'["bodyRevs"] = disk["bodyRevs"], past' = past, SameBut(lost, lost', "canonical")
    PROVE  Reaches(w)
<1> DEFINE x == slot[w]
           y == slot'[w]
           kind == x.req.kind
<1>1. SlotOK(Texts, States, disk, x)
  BY SlotsAre DEF OneWriter
<1>2. Formed(kind, x.req.doc, x.todo) /\ kind \in Kinds /\ Name(x) \in NamesOf(kind)
  BY <1>1, SlotParts DEF SlotOK
<1>3. Follows(kind, x.todo, Tail(x.todo))
  BY <1>2, TailFollows DEF Name
<1>4. kind = "purge" => Name(x) = "locate"
  BY <1>2 DEF NamesOf, Purging, Passing
<1>5. kind = "purge" /\ LeftOfPurge(x.todo) => LeftOfPurge(Tail(x.todo))
  <2> SUFFICES ASSUME kind = "purge", LeftOfPurge(x.todo) PROVE LeftOfPurge(Tail(x.todo))
    OBVIOUS
  <2> DEFINE q == Tail(x.todo)
  <2>1. Len(x.todo) = 3 /\ x.todo[2][1] = "number" /\ x.todo[3][1] = "audit"
    BY <1>4 DEF LeftOfPurge, Name
  <2>2. x.todo \in Seq(Stage)
    BY <1>2 DEF Formed
  <2>3. Len(q) = Len(x.todo) - 1 /\ \A i \in 1..(Len(x.todo) - 1) : q[i] = x.todo[i + 1]
    BY <2>2, TailParts
  <2> HIDE DEF q
  <2>4. Len(q) = 2 /\ q[1] = x.todo[2] /\ q[2] = x.todo[3]
    BY <2>1, <2>3
  <2>5. LeftOfPurge(q)
    BY <2>1, <2>4 DEF LeftOfPurge
  <2> QED BY <2>5 DEF q
<1> QED BY <1>3, <1>4, <1>5 DEF Reaches

LEMMA CheckPasses ==
    ASSUME NEW Texts, NEW States, NEW w, OneWriter(w), FileInv(Texts, States, w), Check(w) \/ FindPolicy(w)
    PROVE  Passes(w)
<1> DEFINE x == slot[w]
<1>1. w \in Slots /\ SlotOK(Texts, States, disk, x) /\ SlotShaped(x)
  BY SlotsAre DEF OneWriter, SlotOK
<1>2. UNCHANGED <<disk, lost, past>>
  BY DEF Check, FindPolicy
<1>3. CASE Check(w)
  <2>1. PICK name \in {"check", "mount", "locate"} : Reads(w, name)
    BY <1>3 DEF Check
  <2>2. x.todo # <<>> /\ Name(x) \in Passing
    BY <1>1, <2>1, OnlyWriterWrites DEF Reads, Passing
  <2>3. Advance(w, x)
    BY <1>3 DEF Check
  <2> QED BY <1>1, <1>2, <2>2, <2>3, Advanced, TailReaches DEF Held, SameBut, Goes, Passes, Recorders
<1>4. CASE FindPolicy(w)
  <2>1. x.todo # <<>> /\ Name(x) = "policy" /\ "policy" \in Passing
    BY <1>1, <1>4, OnlyWriterWrites DEF FindPolicy, Reads, Passing
  <2>2. PICK c : c = WithResult(x, PolicyFor(x.result, disk.policies))
    OBVIOUS
  <2>3. Advance(w, c)
    BY <1>4, <2>2 DEF FindPolicy, WithResult
  <2>4. /\ SlotShaped(c) /\ c.req = x.req /\ c.todo = x.todo /\ c.wrote = x.wrote /\ c.old = x.old
        /\ c.snap = x.snap /\ c.number = x.number
    BY <1>1, <2>2, ResultChanged
  <2> QED BY <1>1, <1>2, <2>1, <2>3, <2>4, Advanced, TailReaches DEF Held, SameBut, Goes, Passes, Recorders
<1> QED BY <1>3, <1>4

LEMMA FetchPasses ==
    ASSUME NEW Texts, NEW States, NEW w, OneWriter(w), FileInv(Texts, States, w), Fetch(w)
    PROVE  Passes(w)
<1> DEFINE x == slot[w]
           content == disk[FileOf[Head(x.todo)[1]]]
           c == [x EXCEPT !.copy = content]
<1>1. w \in Slots /\ SlotOK(Texts, States, disk, x) /\ SlotShaped(x)
  BY SlotsAre DEF OneWriter, SlotOK
<1>2. UNCHANGED <<disk, lost, past>>
  BY DEF Fetch
<1>3. x.todo # <<>> /\ x.req.kind \in Kinds /\ Name(x) \in Copying
  <2>1. PICK name \in Copying : Reads(w, name)
    BY DEF Fetch
  <2>2. x.todo # <<>> /\ Name(x) \in Copying
    BY <1>1, <2>1, OnlyWriterWrites DEF Reads
  <2> QED BY <1>1, <2>2, SlotParts
<1>4. slot' = [slot EXCEPT ![w] = c]
  BY DEF Fetch
<1> HIDE DEF content
<1>5. c.req = x.req /\ c.todo = x.todo /\ c.wrote = x.wrote /\ c.old = x.old
      /\ c.snap = x.snap /\ c.result = x.result /\ c.number = x.number
  BY <1>1 DEF SlotShaped, Fields
<1> HIDE DEF c
<1>6. slot'[w] = c
  BY <1>1, <1>4, SlotNow
<1>7. Follows(x.req.kind, x.todo, x.todo)
  BY FollowsItself
<1> QED BY <1>2, <1>3, <1>5, <1>6, <1>7 DEF Passes, Reaches, Held, SameBut, Name

LEMMA WritePasses ==
    ASSUME NEW Texts, NEW States, NEW w, OneWriter(w), FileInv(Texts, States, w),
           Bind(w) \/ SavePolicies(w) \/ SaveCanonical(w)
    PROVE  Passes(w)
<1> DEFINE x == slot[w]
<1>1. w \in Slots /\ SlotOK(Texts, States, disk, x) /\ SlotShaped(x)
  BY SlotsAre DEF OneWriter, SlotOK
<1>2. PICK name, content :
         /\ name \in {"bind", "policies", "canonical"} /\ Has(w, name) /\ Put(w, name, content, x)
         /\ past' = past /\ SameBut(lost, lost', "canonical")
  <2>1. CASE Bind(w)
    BY <2>1 DEF Bind, SameBut
  <2>2. CASE SavePolicies(w)
    <3> DEFINE k == x.req.target[1]
               policy == x.req.target[2]
               rows == x.copy
               new == [z \in (DOMAIN rows \ {k}) \cup (IF policy = Nothing THEN {} ELSE {k}) |->
                          IF z = k THEN policy ELSE rows[z]]
    <3>1. Has(w, "policies") /\ Put(w, "policies", new, x) /\ UNCHANGED <<lost, past>>
      BY <2>2 DEF SavePolicies
    <3> HIDE DEF new
    <3> QED BY <3>1 DEF SameBut
  <2>3. CASE SaveCanonical(w)
    <3> DEFINE content == Canonical(x.copy, Doc(w), x.result.state)
    <3>1. Has(w, "canonical") /\ Put(w, "canonical", content, x) /\ past' = past
          /\ lost' = lost \ {<<"canonical", Doc(w)>>}
      BY <2>3 DEF SaveCanonical
    <3> HIDE DEF content
    <3>2. SameBut(lost, lost', "canonical")
      BY <3>1 DEF SameBut
    <3> QED BY <3>1, <3>2
  <2> QED BY <2>1, <2>2, <2>3
<1>3. /\ name \in DOMAIN FileOf /\ name \in Copying \ {"history"} /\ FileOf[name] \in Files \ Recorders
      /\ name \in Passing
  BY <1>2 DEF FileOf, Copying, Files, Recorders, Passing
<1>4. Stored(w, name, content, x)
  BY <1>1, <1>2, <1>3, PutDone
<1>5. \A f \in Recorders : disk'[f] = disk[f]
  BY <1>3, <1>4 DEF Recorders, Files, Writes, Stored
<1> QED BY <1>2, <1>3, <1>4, <1>5, TailReaches DEF Held, Goes, Stored, Passes, Recorders

LEMMA FindEntryPasses ==
    ASSUME NEW Texts, NEW States, NEW w, OneWriter(w), FileInv(Texts, States, w), FindEntry(w)
    PROVE  Passes(w)
<1> DEFINE x == slot[w]
           kind == x.req.kind
           doc == x.req.doc
<1>1. w \in Slots /\ SlotOK(Texts, States, disk, x) /\ SlotShaped(x)
  BY SlotsAre DEF OneWriter, SlotOK
<1>2. UNCHANGED <<disk, lost, past>>
  BY DEF FindEntry
<1>3. x.todo # <<>> /\ Name(x) = "entry" /\ "entry" \in Passing
  BY <1>1, OnlyWriterWrites DEF FindEntry, Reads, Passing
<1>4. Formed(kind, doc, x.todo) /\ kind \in Kinds /\ Name(x) \in NamesOf(kind)
  BY <1>1, <1>3, SlotParts DEF SlotOK
<1>5. CASE Doc(w) \in disk.snapshot.live
  <2>1. PICK c : c = WithResult(x, disk.snapshot.path[Doc(w)])
    OBVIOUS
  <2>2. Advance(w, c)
    BY <1>5, <2>1 DEF FindEntry, WithResult
  <2>3. /\ SlotShaped(c) /\ c.req = x.req /\ c.todo = x.todo /\ c.wrote = x.wrote /\ c.old = x.old
        /\ c.snap = x.snap /\ c.number = x.number
    BY <1>1, <2>1, ResultChanged
  <2> QED BY <1>1, <1>2, <1>3, <2>2, <2>3, Advanced, TailReaches DEF Held, SameBut, Goes, Passes, Recorders
<1>6. CASE Doc(w) \notin disk.snapshot.live
  <2> DEFINE p == x.todo
             skipped == SubSeq(p, 3, Len(p))
             c == [x EXCEPT !.todo = skipped]
  <2>1. Tail(p) # <<>> /\ Tail(p)[1][1] = "policy" /\ Follows(kind, p, Tail(p)) /\ Formed(kind, doc, Tail(p))
    BY <1>1, <1>3, <1>4, CompactionTogether, TailFollows DEF Name
  <2> HIDE DEF p
  <2>2. /\ Tail(Tail(p)) # <<>> /\ Tail(Tail(p))[1][1] = "compact"
        /\ Follows(kind, Tail(p), Tail(Tail(p))) /\ Formed(kind, doc, Tail(Tail(p)))
    <3>1. Follows(kind, Tail(p), Tail(Tail(p))) /\ Formed(kind, doc, Tail(Tail(p)))
      BY <1>4, <2>1, TailFollows DEF Passing
    <3>2. PICK q : q = Tail(p)
      OBVIOUS
    <3>3. Tail(q) # <<>>
      <4>1. q \in Seq(Stage) /\ q # <<>> /\ Len(<<>>) = 0
        BY <2>1, <3>2 DEF Formed
      <4>2. Len(q) \in Nat /\ Len(Tail(q)) = Len(q) - 1
        BY <4>1, TailParts
      <4>3. q[Len(q)][1] # "policy"
        BY <2>1, <3>2 DEF Formed
      <4> QED BY <2>1, <3>2, <4>1, <4>2, <4>3
    <3>4. Tail(Tail(p))[1] = Tail(p)[2] /\ Leads(kind, Tail(p)[1], Tail(p)[2])
      BY <2>1, <3>2, <3>3, TailFormed
    <3> QED BY <2>1, <3>1, <3>2, <3>3, <3>4 DEF Leads
  <2>3. Follows(kind, Tail(Tail(p)), Tail(Tail(Tail(p)))) /\ "compact" \in Passing
    BY <1>4, <2>2, TailFollows DEF Passing
  <2>4. Follows(kind, p, Tail(Tail(Tail(p))))
    BY <2>1, <2>2, <2>3, FollowsOn
  <2>5. Tail(Tail(p)) = skipped
    <3>1. p \in Seq(Stage)
      BY <1>4 DEF Formed, p
    <3>2. Len(p) \in Nat /\ Len(p) > 1
      BY <1>3, <2>1, <3>1, TailParts
    <3>3. Tail(p) = SubSeq(p, 2, Len(p))
      BY <1>3, <3>1, TailIsSubSeq
    <3>4. 2 \in 1..Len(p) /\ Len(p) \in 2..Len(p)
      BY <3>2
    <3>5. Tail(SubSeq(p, 2, Len(p))) = SubSeq(p, 2 + 1, Len(p))
      BY <3>1, <3>4, HeadTailOfSubSeq
    <3> QED BY <3>3, <3>5
  <2>6. Advance(w, c)
    BY <1>6 DEF FindEntry, p
  <2> HIDE DEF skipped
  <2>7. /\ SlotShaped(c) /\ c.req = x.req /\ c.todo = skipped /\ c.wrote = x.wrote /\ c.old = x.old
        /\ c.snap = x.snap /\ c.result = x.result /\ c.number = x.number
    BY <1>1 DEF SlotShaped, Fields
  <2> HIDE DEF c
  <2>8. /\ Held(x, slot'[w]) /\ slot'[w].todo = Tail(Tail(Tail(p))) /\ slot'[w].wrote = x.wrote
        /\ slot'[w].result = x.result
    <3>1. Goes(c, slot'[w]) /\ slot'[w].wrote = c.wrote
      BY <1>1, <2>6, <2>7, Advanced
    <3> QED BY <2>5, <2>7, <3>1 DEF Held, Goes
  <2>9. kind # "purge"
    BY <1>3, <1>4 DEF NamesOf, Purging
  <2> QED BY <1>2, <1>3, <2>4, <2>8, <2>9 DEF Passes, Reaches, SameBut, p
<1> QED BY <1>5, <1>6

\* A compaction rewrites the revisions, or leaves them if it drops none.
Thins(w) ==
    LET x == slot[w]
    IN  /\ x.todo # <<>> /\ Name(x) = "compact" /\ disk["bodyRevs"] # Torn
        /\ Has(w, "compact") /\ Doc(w) = x.todo[1][2] /\ x.copy = disk["bodyRevs"]
        /\ disk'["bodyRevs"] = Compacted(disk["bodyRevs"], x.todo[1][2], x.result) /\ lost' = lost

LEMMA CompactReaches ==
    ASSUME NEW Texts, NEW States, NEW w, OneWriter(w), FileInv(Texts, States, w), Compact(w)
    PROVE  Reaches(w) /\ Thins(w) /\ slot'[w].req = slot[w].req /\ slot[w].req.kind # "purge"
<1> DEFINE x == slot[w]
           content == Compacted(x.copy, Doc(w), x.result)
<1>1. w \in Slots /\ SlotOK(Texts, States, disk, x) /\ SlotShaped(x)
  BY SlotsAre DEF OneWriter, SlotOK
<1>2. Has(w, "compact") /\ "compact" \in DOMAIN FileOf /\ FileOf["compact"] = "bodyRevs"
      /\ "compact" \in Copying \ {"history"} /\ lost' = lost /\ past' = past
  BY DEF Compact, FileOf, Copying
<1>3. x.todo # <<>> /\ Name(x) = "compact"
  BY <1>1, <1>2, OnlyWriterWrites DEF Has
<1>4. /\ x.req.kind # "purge" /\ Doc(w) = x.todo[1][2]
      /\ disk["bodyRevs"] # Torn /\ x.copy = disk["bodyRevs"]
  <2>1. Name(x) \in NamesOf(x.req.kind) /\ x.req.kind \in Kinds /\ Head(x.todo) = x.todo[1]
    BY <1>1, <1>3, SlotParts
  <2>2. x.copy # Nothing
    BY <1>2 DEF Has
  <2> QED BY <1>1, <1>2, <1>3, <2>1, <2>2 DEF NamesOf, Purging, Doc, SlotOK
<1>5. Goes(x, slot'[w]) /\ (x.wrote => slot'[w].wrote) /\ Writes("bodyRevs", content)
  <2>1. CASE content = x.copy
    <3>1. Advance(w, x) /\ disk' = disk
      BY <2>1 DEF Compact
    <3>2. Goes(x, slot'[w]) /\ slot'[w].wrote = x.wrote
      BY <1>1, <3>1, Advanced
    <3>3. Writes("bodyRevs", content)
      BY <1>4, <2>1, <3>1 DEF Writes
    <3> QED BY <3>2, <3>3
  <2>2. CASE content # x.copy
    <3>1. Put(w, "compact", content, x)
      BY <2>2 DEF Compact
    <3> HIDE DEF content
    <3>2. Stored(w, "compact", content, x)
      BY <1>1, <1>2, <3>1, PutDone
    <3> QED BY <1>2, <3>2 DEF Stored
  <2> QED BY <2>1, <2>2
<1>6. Thins(w)
  BY <1>2, <1>3, <1>4, <1>5 DEF Thins, Writes
<1> HIDE DEF content
<1>7. \A f \in Recorders \ {"bodyRevs"} : disk'[f] = disk[f]
  BY <1>5 DEF Writes, Recorders, Files
<1>8. SameBut(lost, lost', "canonical")
  BY <1>2 DEF SameBut
<1>9. Reaches(w)
  BY <1>2, <1>3, <1>4, <1>5, <1>7, <1>8, TailReaches DEF Held, Goes, Passing
<1> QED BY <1>4, <1>5, <1>6, <1>9 DEF Goes

-----------------------------------------------------------------------------
(* Keeping and recording.                                                  *)

LEMMA RecordsNext ==
    ASSUME NEW Texts, NEW States, NEW files, NEW x, SlotOK(Texts, States, files, x), x.todo # <<>>,
           Name(x) \in {"keep"} \cup Recording, NEW q, q = Tail(x.todo)
    PROVE  /\ q # <<>> => q[1][1] \in Recording \cup {"audit"} /\ Leads(x.req.kind, x.todo[1], q[1])
           /\ q # <<>> /\ x.req.kind \in Plans => q[1][1] \in Recording
           /\ x.req.kind \in Plans \cup {"purge"}
           /\ x.req.kind = "purge" => Name(x) = "number"
<1>1. x.todo \in Seq(Stage) /\ x.req.kind \in Kinds /\ Name(x) \in NamesOf(x.req.kind) /\ Len(x.todo) \in Nat /\ Len(x.todo) > 0
  BY SlotParts
<1>2. Formed(x.req.kind, x.req.doc, x.todo)
  BY DEF SlotOK
<1>3. q # <<>> => /\ q[1] = x.todo[2] /\ Len(x.todo) > 1 /\ Leads(x.req.kind, x.todo[1], x.todo[2])
  BY <1>2, TailFormed
<1>4. q # <<>> => q[1][1] \in Recording \cup {"audit"} /\ q[1][1] \in NamesOf(x.req.kind)
  <2>1. 1 \in 1..Len(x.todo) /\ (q # <<>> => 2 \in 1..Len(x.todo)) /\ 1 < 2
    BY <1>1, <1>3
  <2> QED BY <1>2, <1>3, <2>1 DEF Formed, Name
<1>5. x.req.kind \in Plans \cup {"purge"} /\ (x.req.kind = "purge" => Name(x) = "number")
  BY <1>1 DEF Plans, NamesOf, Kinds, Recording, History, Purging
<1>6. x.req.kind \in Plans => "audit" \notin NamesOf(x.req.kind)
  BY DEF Plans, NamesOf, Kinds, Recording, History
<1> QED BY <1>3, <1>4, <1>5, <1>6

LEMMA NumbersBelow ==
    ASSUME NEW events \in Seq(Event), Rising(events)
    PROVE  \A n, d : Row(events, n, d) => n \in Nat /\ n <= Number(events)
<1>1. Len(events) \in Nat /\ DOMAIN events = 1..Len(events) /\ \A i \in 1..Len(events) : events[i].seq \in Nat
  <2>1. \A i \in 1..Len(events) : events[i] \in Event
    BY ElementOfSeq
  <2> QED BY <2>1 DEF Event
<1>2. ASSUME NEW i \in DOMAIN events PROVE events[i].seq \in Nat /\ events[i].seq <= Number(events)
  <2>1. events # <<>> /\ i \in 1..Len(events)
    BY <1>1, <1>2
  <2>2. Number(events) = events[Len(events)].seq /\ Len(events) \in 1..Len(events)
    BY <2>1, NumberIs
  <2>3. CASE i = Len(events)
    BY <1>1, <2>1, <2>2, <2>3
  <2>4. CASE i < Len(events)
    <3>1. events[i].seq < events[Len(events)].seq
      BY <1>1, <2>1, <2>2, <2>4 DEF Rising
    <3> QED BY <1>1, <2>1, <2>2, <3>1
  <2> QED BY <1>1, <2>1, <2>3, <2>4
<1> QED BY <1>2 DEF Row

\* What the stages that write the snapshot and the history do.
Keeps(w) ==
    LET x == slot[w]
    IN  /\ x.todo # <<>> /\ Name(x) = "keep" /\ x.req.kind \in Plans
        /\ Goes(x, slot'[w]) /\ slot'[w].wrote = TRUE /\ Writes("snapshot", x.snap)
        /\ past' = past /\ lost' = lost \cup LeftBehind(w) \cup Unretained(w)

Counts(w) ==
    LET x == slot[w]  y == slot'[w]
    IN  /\ x.todo # <<>> /\ Name(x) = "number" /\ disk["events"] # Torn
        /\ y.req = x.req /\ y.todo = Tail(x.todo) /\ y.old = x.old /\ y.snap = x.snap /\ y.result = x.result
        /\ y.wrote = x.wrote /\ y.number = Number(disk["events"]) + 1
        /\ disk' = disk /\ past' = past /\ lost' = lost

Announces(w) ==
    LET x == slot[w]  d == x.todo[1][2]
    IN  /\ x.todo # <<>> /\ Name(x) \in {"event", "audit"} /\ disk["events"] # Torn /\ d \in Docs
        /\ Goes(x, slot'[w]) /\ slot'[w].wrote = TRUE
        /\ Writes("events", Append(disk["events"], [seq |-> x.number, doc |-> d, kind |-> x.req.kind]))
        /\ past' = past /\ lost' = lost \ {<<Name(x), d>>}

Blurred(x, rows, d) == x.req.kind = "update" /\ x.result.onto \notin {NoState, HeldState(rows, d)}

Retains(w) ==
    LET x == slot[w]  d == x.todo[1][2]  rows == disk["bodyRevs"]
    IN  /\ x.todo # <<>> /\ Name(x) = "body" /\ rows # Torn /\ d \in Docs /\ Doc(w) = d
        /\ Goes(x, slot'[w]) /\ slot'[w].wrote = TRUE /\ Writes("bodyRevs", Append(rows, Revision(w, rows)))
        /\ past' = past
        /\ lost' = IF Blurred(x, rows, d) THEN lost \cup {<<"body", d>>} ELSE lost \ {<<"body", d>>}

PathOf(x, d) == [seq |-> x.number, doc |-> d, path |-> x.snap.path[d], live |-> d \in x.snap.live]

Places(w) ==
    LET x == slot[w]  d == x.todo[1][2]
    IN  /\ x.todo # <<>> /\ Name(x) = "path" /\ disk["paths"] # Torn /\ d \in Docs
        /\ Goes(x, slot'[w]) /\ slot'[w].wrote = TRUE /\ Writes("paths", Append(disk["paths"], PathOf(x, d)))
        /\ past' = past /\ lost' = lost \ {<<"path", d>>}

LEMMA StageParts ==
    ASSUME NEW Texts, NEW States, NEW w, OneWriter(w), FileInv(Texts, States, w)
    PROVE  /\ w \in Slots /\ SlotOK(Texts, States, disk, slot[w]) /\ SlotShaped(slot[w])
           /\ \A name : At(w, name) => slot[w].todo # <<>> /\ Name(slot[w]) = name
           /\ slot[w].todo # <<>> /\ Name(slot[w]) \in Recording \cup Purging =>
                Doc(w) = slot[w].todo[1][2] /\ Doc(w) \in Docs
<1>1. w \in Slots /\ SlotOK(Texts, States, disk, slot[w]) /\ SlotShaped(slot[w])
  BY SlotsAre DEF OneWriter, SlotOK
<1>2. \A name : At(w, name) => slot[w].todo # <<>> /\ Name(slot[w]) = name
  BY <1>1, OnlyWriterWrites
<1>3. slot[w].todo # <<>> /\ Name(slot[w]) \in Recording \cup Purging =>
                Doc(w) = slot[w].todo[1][2] /\ Doc(w) \in Docs
  <2> SUFFICES ASSUME slot[w].todo # <<>>, Name(slot[w]) \in Recording \cup Purging
               PROVE  Doc(w) = slot[w].todo[1][2] /\ Doc(w) \in Docs
    OBVIOUS
  <2>1. Head(slot[w].todo) = slot[w].todo[1] /\ slot[w].todo[1][2] \in Docs
    BY <1>1, SlotParts
  <2> QED BY <2>1 DEF Doc
<1> QED BY <1>1, <1>2, <1>3

LEMMA KeepIs ==
    ASSUME NEW Texts, NEW States, NEW w, OneWriter(w), FileInv(Texts, States, w), KeepSnapshot(w)
    PROVE  Keeps(w)
<1> DEFINE x == slot[w]
<1>1. w \in Slots /\ SlotOK(Texts, States, disk, x) /\ SlotShaped(x) /\ \A name : At(w, name) => x.todo # <<>> /\ Name(x) = name
  BY StageParts
<1>2. /\ At(w, "keep") /\ Put(w, "keep", x.snap, x) /\ "keep" \in DOMAIN FileOf /\ FileOf["keep"] = "snapshot"
      /\ past' = past /\ lost' = lost \cup LeftBehind(w) \cup Unretained(w)
  BY DEF KeepSnapshot, FileOf
<1>3. Stored(w, "keep", x.snap, x)
  BY <1>1, <1>2, PutDone
<1>4. x.req.kind \in Plans
  <2>1. x.todo # <<>> /\ Name(x) = "keep"
    BY <1>1, <1>2
  <2>2. Name(x) \in NamesOf(x.req.kind) /\ x.req.kind \in Kinds
    BY <1>1, <2>1, SlotParts
  <2> QED BY <2>1, <2>2 DEF NamesOf, Kinds, Plans, Purging
<1> QED BY <1>2, <1>3, <1>4 DEF Keeps, Stored

LEMMA NumberIsTaken ==
    ASSUME NEW Texts, NEW States, NEW w, OneWriter(w), FileInv(Texts, States, w), TakeNumber(w)
    PROVE  Counts(w)
<1> DEFINE x == slot[w]
           c == [x EXCEPT !.number = Number(disk.events) + 1]
<1>1. w \in Slots /\ SlotShaped(x) /\ \A name : At(w, name) => x.todo # <<>> /\ Name(x) = name
  BY StageParts
<1>2. x.todo # <<>> /\ Name(x) = "number" /\ disk["events"] # Torn /\ UNCHANGED <<disk, past, lost>>
  BY <1>1 DEF TakeNumber, Reads, FileOf
<1>3. Advance(w, c)
  BY DEF TakeNumber
<1>4. /\ SlotShaped(c) /\ c.req = x.req /\ c.todo = x.todo /\ c.wrote = x.wrote /\ c.old = x.old
      /\ c.snap = x.snap /\ c.result = x.result /\ c.number = Number(disk["events"]) + 1
  BY <1>1 DEF SlotShaped, Fields
<1> HIDE DEF c
<1>5. Goes(c, slot'[w]) /\ slot'[w].wrote = c.wrote
  BY <1>1, <1>3, <1>4, Advanced
<1> QED BY <1>2, <1>4, <1>5 DEF Counts, Goes

LEMMA EventIsSaved ==
    ASSUME NEW Texts, NEW States, NEW w, OneWriter(w), FileInv(Texts, States, w), SaveEvent(w)
    PROVE  Announces(w)
<1> DEFINE x == slot[w]
<1>1. SlotShaped(x) /\ \A name : At(w, name) => x.todo # <<>> /\ Name(x) = name
  BY StageParts
<1>2. PICK name \in {"event", "audit"} :
         /\ Has(w, name)
         /\ Put(w, name, Append(x.copy, [seq |-> x.number, doc |-> Doc(w), kind |-> x.req.kind]), x)
         /\ lost' = lost \ {<<name, Doc(w)>>} /\ past' = past
  BY DEF SaveEvent
<1>3. name \in DOMAIN FileOf /\ FileOf[name] = "events" /\ name \in Copying \ {"history"}
      /\ name \in Recording \cup Purging
  BY DEF FileOf, Copying, Recording, Purging
<1>4. x.todo # <<>> /\ Name(x) = name
  BY <1>1, <1>2 DEF Has
<1>5. Doc(w) = x.todo[1][2] /\ Doc(w) \in Docs
  BY <1>3, <1>4, StageParts
<1> DEFINE content == Append(x.copy, [seq |-> x.number, doc |-> Doc(w), kind |-> x.req.kind])
<1>6. Stored(w, name, content, x)
  <2> HIDE DEF content
  <2>1. Put(w, name, content, x)
    BY <1>2 DEF content
  <2> QED BY <1>1, <1>2, <1>3, <2>1, PutDone
<1>7. disk["events"] # Torn /\ x.copy = disk["events"]
  BY <1>2, <1>3, <1>6 DEF Stored
<1> QED BY <1>2, <1>3, <1>4, <1>5, <1>6, <1>7 DEF Announces, Stored

LEMMA RevisionIsSaved ==
    ASSUME NEW Texts, NEW States, NEW w, OneWriter(w), FileInv(Texts, States, w), SaveRevision(w)
    PROVE  Retains(w)
<1> DEFINE x == slot[w]
           content == Append(x.copy, Revision(w, x.copy))
<1>1. SlotShaped(x) /\ \A name : At(w, name) => x.todo # <<>> /\ Name(x) = name
  BY StageParts
<1>2. /\ Has(w, "body") /\ Put(w, "body", content, x) /\ past' = past
      /\ lost' = IF Blurred(x, x.copy, Doc(w)) THEN lost \cup {<<"body", Doc(w)>>} ELSE lost \ {<<"body", Doc(w)>>}
  BY DEF SaveRevision, Blurred
<1>3. "body" \in DOMAIN FileOf /\ FileOf["body"] = "bodyRevs" /\ "body" \in Copying \ {"history"} /\ "body" \in Recording
  BY DEF FileOf, Copying, Recording, History
<1>4. x.todo # <<>> /\ Name(x) = "body"
  BY <1>1, <1>2 DEF Has
<1>5. Doc(w) = x.todo[1][2] /\ Doc(w) \in Docs
  BY <1>3, <1>4, StageParts
<1>6. Stored(w, "body", content, x)
  <2> HIDE DEF content
  <2> QED BY <1>1, <1>2, <1>3, PutDone
<1>7. disk["bodyRevs"] # Torn /\ x.copy = disk["bodyRevs"]
  BY <1>2, <1>3, <1>6 DEF Stored
<1> QED BY <1>2, <1>3, <1>4, <1>5, <1>6, <1>7 DEF Retains, Stored

LEMMA PathIsSaved ==
    ASSUME NEW Texts, NEW States, NEW w, OneWriter(w), FileInv(Texts, States, w), SavePath(w)
    PROVE  Places(w)
<1> DEFINE x == slot[w]
           content == Append(x.copy, PathOf(x, Doc(w)))
<1>1. SlotShaped(x) /\ \A name : At(w, name) => x.todo # <<>> /\ Name(x) = name
  BY StageParts
<1>2. Has(w, "path") /\ Put(w, "path", content, x) /\ past' = past /\ lost' = lost \ {<<"path", Doc(w)>>}
  BY DEF SavePath, PathOf
<1>3. "path" \in DOMAIN FileOf /\ FileOf["path"] = "paths" /\ "path" \in Copying \ {"history"} /\ "path" \in Recording
  BY DEF FileOf, Copying, Recording, History
<1>4. x.todo # <<>> /\ Name(x) = "path"
  BY <1>1, <1>2 DEF Has
<1>5. Doc(w) = x.todo[1][2] /\ Doc(w) \in Docs
  BY <1>3, <1>4, StageParts
<1>6. Stored(w, "path", content, x)
  <2> HIDE DEF content
  <2> QED BY <1>1, <1>2, <1>3, PutDone
<1>7. disk["paths"] # Torn /\ x.copy = disk["paths"]
  BY <1>2, <1>3, <1>6 DEF Stored
<1> QED BY <1>2, <1>3, <1>4, <1>5, <1>6, <1>7 DEF Places, Stored

LEMMA KeepPlan ==
    ASSUME NEW Texts, NEW States, NEW w, OneWriter(w), FileInv(Texts, States, w), PlanInv(w), Keeps(w)
    PROVE  PlanInv(w)' /\ Committed(slot'[w])
<1> DEFINE x == slot[w]
           y == slot'[w]
           kind == x.req.kind
<1>1. SlotOK(Texts, States, disk, x)
  BY StageParts
<1>2. /\ x.todo # <<>> /\ Name(x) = "keep" /\ kind \in Plans
      /\ y.req = x.req /\ y.todo = Tail(x.todo) /\ y.old = x.old /\ y.snap = x.snap
      /\ y.result = x.result /\ y.number = x.number /\ y.wrote = TRUE /\ past' = past
  BY DEF Keeps, Goes
<1>3. disk'["snapshot"] = x.snap /\ disk'["events"] = disk["events"]
  BY DEF Keeps, Writes, Files
<1>4. Foreseen(x) /\ Fulfilled(disk, x) /\ Seen(disk, past, x)
  BY DEF PlanInv
<1> HIDE DEF x, y
<1>5. y.todo # <<>> => y.todo[1][1] \in Recording /\ Leads(kind, x.todo[1], y.todo[1])
  BY <1>1, <1>2, RecordsNext DEF Name
<1>6. Committed(y)
  BY <1>2, <1>5 DEF Committed, Name
<1>7. y.todo # <<>> => Name(y) \notin {"event"} \cup History
  BY <1>2, <1>5 DEF Leads, Name, History
<1>8. Foreseen(y)
  BY <1>2, <1>5 DEF Foreseen, Name, Recording, History, Planning
<1>9. Bare(x.snap)
  BY <1>2, <1>4 DEF Foreseen, Planning
<1>10. Fulfilled(disk', y)
  <2>1. kind \in Texting => Texted(x)
    BY <1>2, <1>4 DEF Fulfilled
  <2>2. kind \in Texting => Texted(y)
    BY <1>2, <2>1 DEF Texted
  <2> QED BY <1>2, <1>3, <1>7, <2>2 DEF Fulfilled
<1>11. Purges(disk', y)
  BY <1>2 DEF Purges, Plans
<1>12. Seen(disk', past', y)
  BY <1>2, <1>3, <1>4, <1>7 DEF Seen
<1> QED BY <1>3, <1>6, <1>8, <1>9, <1>10, <1>11, <1>12 DEF PlanInv, y

\* What a stage after the keeping leaves as it was.
LEMMA RecordPlan ==
    ASSUME NEW Texts, NEW States, NEW w, OneWriter(w), FileInv(Texts, States, w), PlanInv(w),
           slot[w].todo # <<>>, Name(slot[w]) \in Recording,
           slot'[w].req = slot[w].req, slot'[w].todo = Tail(slot[w].todo), slot'[w].snap = slot[w].snap,
           slot'[w].wrote = slot[w].wrote \/ slot'[w].wrote = TRUE,
           disk'["snapshot"] = disk["snapshot"]
    PROVE  /\ Foreseen(slot'[w])
           /\ Committed(slot[w]) <=> slot[w].req.kind \in Plans
           /\ Committed(slot'[w]) <=> slot[w].req.kind \in Plans
           /\ Committed(slot'[w]) => /\ disk'["snapshot"] # Torn => disk'["snapshot"] = slot'[w].snap
                                     /\ slot'[w].todo # <<>> => slot'[w].wrote
           /\ (disk'["snapshot"] # Torn => Bare(disk'["snapshot"]))
<1> DEFINE x == slot[w]
           y == slot'[w]
           kind == x.req.kind
<1>1. SlotOK(Texts, States, disk, x)
  BY StageParts
<1>2. Foreseen(x) /\ Fulfilled(disk, x) /\ (disk["snapshot"] # Torn => Bare(disk["snapshot"]))
  BY DEF PlanInv
<1>3. y.req = x.req /\ y.todo = Tail(x.todo) /\ y.snap = x.snap /\ (y.wrote = x.wrote \/ y.wrote = TRUE)
      /\ x.todo # <<>> /\ Name(x) \in Recording
  OBVIOUS
<1> HIDE DEF x, y
<1>4. y.todo # <<>> /\ kind \in Plans => y.todo[1][1] \in Recording
  <2>1. PICK q : q = Tail(x.todo)
    OBVIOUS
  <2>2. Name(x) \in {"keep"} \cup Recording
    BY <1>3
  <2>3. q # <<>> /\ x.req.kind \in Plans => q[1][1] \in Recording
    BY <1>1, <1>3, <2>1, <2>2, RecordsNext
  <2> QED BY <1>3, <2>1, <2>3
<1>5. Foreseen(y)
  BY <1>3, <1>4 DEF Foreseen, Name, Recording, History, Planning
<1>6. (Committed(x) <=> kind \in Plans) /\ (Committed(y) <=> kind \in Plans)
  BY <1>3, <1>4 DEF Committed, Name
<1>7. Committed(y) => /\ disk'["snapshot"] # Torn => disk'["snapshot"] = y.snap
                      /\ y.todo # <<>> => y.wrote
  BY <1>2, <1>3, <1>6 DEF Fulfilled
<1> QED BY <1>2, <1>5, <1>6, <1>7 DEF x, y

LEMMA NumberPlan ==
    ASSUME NEW Texts, NEW States, NEW w, OneWriter(w), FileInv(Texts, States, w), PlanInv(w), Counts(w)
    PROVE  PlanInv(w)'
<1> DEFINE x == slot[w]
           y == slot'[w]
           kind == x.req.kind
           n == Number(disk["events"])
<1>1. SlotOK(Texts, States, disk, x)
  BY StageParts
<1>2. /\ x.todo # <<>> /\ Name(x) = "number" /\ disk["events"] # Torn
      /\ y.req = x.req /\ y.todo = Tail(x.todo) /\ y.old = x.old /\ y.snap = x.snap /\ y.result = x.result
      /\ y.wrote = x.wrote /\ y.number = n + 1 /\ disk' = disk /\ past' = past
  BY DEF Counts
<1>3. /\ Fulfilled(disk, x) /\ Seen(disk, past, x) /\ Purges(disk, x)
  BY DEF PlanInv
<1>4. /\ Foreseen(y) /\ (disk'["snapshot"] # Torn => Bare(disk'["snapshot"]))
      /\ Committed(y) => /\ disk'["snapshot"] # Torn => disk'["snapshot"] = y.snap
                         /\ y.todo # <<>> => y.wrote
  BY <1>2, RecordPlan DEF Recording
<1>5. disk["events"] \in Seq(Event) /\ Rising(disk["events"])
      /\ (disk["paths"] # Torn => Covered(disk["paths"], disk["events"]) /\ disk["paths"] \in Seq(PathRow))
  BY <1>2 DEF FileInv, DiskOK, NumbersOK, Files, Shaped
<1>6. n \in Nat /\ \A k, d : Row(disk["events"], k, d) => k \in Nat /\ k <= n
  BY <1>5, NumberIs, NumbersBelow
<1>7. y.todo # <<>> => Leads(kind, x.todo[1], y.todo[1])
  BY <1>1, <1>2, RecordsNext DEF Recording
<1> HIDE DEF x, y, n
<1>8. kind \in Texting /\ y.todo # <<>> => Texted(y)
  <2>1. kind \in Texting => Texted(x)
    BY <1>2, <1>3 DEF Fulfilled
  <2> QED BY <1>2, <2>1 DEF Texted
<1>9. disk["paths"] # Torn => \A i \in DOMAIN disk["paths"] : disk["paths"][i].seq < y.number
  <2> SUFFICES ASSUME disk["paths"] # Torn, NEW i \in DOMAIN disk["paths"]
               PROVE  disk["paths"][i].seq < n + 1
    BY <1>2
  <2>1. Row(disk["events"], disk["paths"][i].seq, disk["paths"][i].doc)
    BY <1>5 DEF Covered
  <2>2. disk["paths"][i].seq \in Nat /\ disk["paths"][i].seq <= n
    BY <1>6, <2>1
  <2> QED BY <1>6, <2>2
<1>10. Fulfilled(disk', y)
  BY <1>2, <1>4, <1>8, <1>9 DEF Fulfilled
<1>11. Purges(disk', y)
  <2> SUFFICES ASSUME y.todo # <<>>, kind = "purge"
               PROVE  LeftOfPurge(y.todo) /\ x.wrote
                      /\ (disk["bodyRevs"] # Torn => Cleared(disk["bodyRevs"], x.result, x.req.doc))
    BY <1>2 DEF Purges
  <2>1. LeftOfPurge(x.todo) /\ x.wrote
        /\ (disk["bodyRevs"] # Torn => Cleared(disk["bodyRevs"], x.result, x.req.doc))
    BY <1>2, <1>3 DEF Purges
  <2>2. Len(x.todo) = 2 /\ x.todo[2][1] = "audit" /\ x.todo \in Seq(Stage)
    BY <1>1, <1>2, <2>1, SlotParts DEF LeftOfPurge, Name
  <2>3. Len(y.todo) = 1 /\ y.todo[1] = x.todo[2]
    BY <1>2, <2>2, TailParts
  <2> QED BY <2>1, <2>2, <2>3 DEF LeftOfPurge
<1>12. Seen(disk', past', y)
  <2> SUFFICES ASSUME NEW v \in past
               PROVE  v.cursor \in Nat /\ Bare(v.snap) /\ v.cursor <= Number(disk["events"]) /\ v.cursor < n + 1
    BY <1>2 DEF Seen
  <2>1. v.cursor \in Nat /\ Bare(v.snap) /\ v.cursor <= n
    BY <1>2, <1>3 DEF Seen, n
  <2> QED BY <1>6, <2>1 DEF n
<1> QED BY <1>4, <1>10, <1>11, <1>12 DEF PlanInv, y

LEMMA SlotNext ==
    ASSUME NEW Texts, NEW States, NEW w, OneWriter(w), FileInv(Texts, States, w)'
    PROVE  SlotOK(Texts, States, disk', slot'[w])
BY DEF OneWriter, FileInv, SlotsOK

\* Requests that neither plan a snapshot nor purge owe nothing.
LEMMA QuietPlan ==
    ASSUME NEW Texts, NEW States, NEW files, NEW y, SlotOK(Texts, States, files, y),
           y.req.kind \notin Plans, y.todo = <<>> \/ y.req.kind # "purge"
    PROVE  /\ Foreseen(y) /\ Fulfilled(files, y) /\ Purges(files, y)
           /\ y.todo # <<>> => Name(y) \notin {"event"} \cup History
<1>1. y.todo # <<>> => Name(y) \in NamesOf(y.req.kind) /\ y.req.kind \in Kinds
  BY SlotParts
<1>2. y.todo # <<>> => Name(y) \notin {"event"} \cup History
  BY <1>1 DEF NamesOf, Plans, Kinds, History
<1> QED BY <1>2 DEF Foreseen, Fulfilled, Committed, Purges, Plans, Texting

LEMMA NumberAppended ==
    ASSUME NEW events \in Seq(Event), NEW e
    PROVE  Number(Append(events, e)) = e.seq
<1>1. Append(events, e) # <<>> /\ Len(Append(events, e)) = Len(events) + 1 /\ Append(events, e)[Len(events) + 1] = e
      /\ Len(events) \in Nat
  OBVIOUS
<1> QED BY <1>1 DEF Number, Last

LEMMA HistoryPlan ==
    ASSUME NEW Texts, NEW States, NEW w, OneWriter(w), FileInv(Texts, States, w), PlanInv(w),
           slot[w].todo # <<>>, Name(slot[w]) \in {"event", "body", "path"},
           Goes(slot[w], slot'[w]), slot'[w].wrote = TRUE, past' = past,
           disk'["snapshot"] = disk["snapshot"],
           disk'["paths"] = disk["paths"] \/ Name(slot[w]) = "path",
           disk'["events"] = disk["events"] \/ Number(disk'["events"]) = slot[w].number
    PROVE  PlanInv(w)'
<1> DEFINE x == slot[w]
           y == slot'[w]
           kind == x.req.kind
<1>1. SlotOK(Texts, States, disk, x)
  BY StageParts
<1>2. /\ x.todo # <<>> /\ Name(x) \in {"event", "body", "path"} /\ Name(x) \in Recording
      /\ y.req = x.req /\ y.todo = Tail(x.todo) /\ y.old = x.old /\ y.snap = x.snap /\ y.result = x.result
      /\ y.wrote = TRUE /\ y.number = x.number /\ past' = past
  BY DEF Goes, Recording, History
<1>3. /\ Fulfilled(disk, x) /\ Seen(disk, past, x)
  BY DEF PlanInv
<1>4. /\ Foreseen(y) /\ (disk'["snapshot"] # Torn => Bare(disk'["snapshot"]))
      /\ Committed(y) => /\ disk'["snapshot"] # Torn => disk'["snapshot"] = y.snap
                         /\ y.todo # <<>> => y.wrote
  BY <1>2, RecordPlan
<1>5. kind \in Plans
  <2>1. Name(x) \in NamesOf(kind) /\ kind \in Kinds
    BY <1>1, <1>2, SlotParts
  <2> QED BY <1>2, <2>1 DEF NamesOf, Plans, Kinds, Purging
<1> HIDE DEF x, y
<1>6. y.todo # <<>> => Leads(kind, x.todo[1], y.todo[1])
  <2>1. PICK q : q = Tail(x.todo)
    OBVIOUS
  <2>2. Name(x) \in {"keep"} \cup Recording
    BY <1>2
  <2>3. q # <<>> => Leads(x.req.kind, x.todo[1], q[1])
    BY <1>1, <1>2, <2>1, <2>2, RecordsNext
  <2> QED BY <1>2, <2>1, <2>3
<1>7. kind \in Texting /\ y.todo # <<>> /\ Name(y) \in {"canonical", "keep", "number", "event", "body"} => Texted(y)
  <2> SUFFICES ASSUME kind \in Texting, y.todo # <<>>, Name(y) \in {"canonical", "keep", "number", "event", "body"}
               PROVE  Texted(y)
    OBVIOUS
  <2>1. Name(x) = "event"
    BY <1>2, <1>6 DEF Leads, Name, Texting
  <2>2. Texted(x)
    BY <1>2, <1>3, <2>1 DEF Fulfilled
  <2> QED BY <1>2, <2>2 DEF Texted
<1>8. y.todo # <<>> /\ Name(y) \in {"event"} \cup History => Name(x) # "path"
  BY <1>2, <1>6 DEF Leads, Name, History
<1>9. y.todo # <<>> /\ Name(y) \in {"event"} \cup History /\ disk'["paths"] # Torn =>
         \A i \in DOMAIN disk'["paths"] : disk'["paths"][i].seq < y.number
  BY <1>2, <1>3, <1>8 DEF Fulfilled, History, x
<1>10. Fulfilled(disk', y)
  BY <1>2, <1>4, <1>7, <1>9 DEF Fulfilled
<1>11. Purges(disk', y)
  BY <1>2, <1>5 DEF Purges, Plans
<1>12. Seen(disk', past', y)
  <2> SUFFICES ASSUME NEW v \in past
               PROVE  /\ v.cursor \in Nat /\ Bare(v.snap) /\ v.cursor < x.number
                      /\ disk'["events"] # Torn => v.cursor <= Number(disk'["events"])
    BY <1>2 DEF Seen
  <2>1. v.cursor \in Nat /\ Bare(v.snap) /\ v.cursor < x.number
        /\ (disk["events"] # Torn => v.cursor <= Number(disk["events"]))
    BY <1>2, <1>3 DEF Seen, History
  <2>2. x.number \in Nat
    BY <1>1 DEF SlotOK
  <2> QED BY <2>1, <2>2 DEF x
<1> QED BY <1>4, <1>10, <1>11, <1>12 DEF PlanInv, y

LEMMA EventPlan ==
    ASSUME NEW Texts, NEW States, NEW w, OneWriter(w), FileInv(Texts, States, w), FileInv(Texts, States, w)',
           PlanInv(w), Announces(w)
    PROVE  PlanInv(w)' /\ Number(disk'["events"]) = Number(disk["events"]) + 1 /\ slot[w].number = Number(disk["events"]) + 1
<1> DEFINE x == slot[w]
           y == slot'[w]
           d == x.todo[1][2]
<1>1. SlotOK(Texts, States, disk, x)
  BY StageParts
<1>2. /\ x.todo # <<>> /\ Name(x) \in {"event", "audit"} /\ disk["events"] # Torn /\ d \in Docs
      /\ Goes(x, y) /\ y.wrote = TRUE
      /\ Writes("events", Append(disk["events"], [seq |-> x.number, doc |-> d, kind |-> x.req.kind]))
      /\ past' = past
  BY DEF Announces
<1>3. disk["events"] \in Seq(Event) /\ Number(disk["events"]) \in Nat
  BY <1>2, NumberIs DEF FileInv, DiskOK, Files, Shaped
<1>4. Number(disk'["events"]) = x.number
  BY <1>2, <1>3, NumberAppended DEF Writes
<1>5. x.number = Number(disk["events"]) + 1
  BY <1>1, <1>2 DEF SlotOK, Due, Numbered
<1>6. disk'["snapshot"] = disk["snapshot"] /\ disk'["paths"] = disk["paths"] /\ disk'["bodyRevs"] = disk["bodyRevs"]
  BY <1>2 DEF Writes, Files
<1>7. CASE Name(x) = "event"
  BY <1>2, <1>4, <1>5, <1>6, <1>7, HistoryPlan
<1>8. CASE Name(x) = "audit"
  <2>1. x.req.kind = "purge"
    <3>1. Name(x) \in NamesOf(x.req.kind) /\ x.req.kind \in Kinds
      BY <1>1, <1>2, SlotParts
    <3> QED BY <1>8, <3>1 DEF NamesOf, Kinds, Recording, History
  <2>2. Len(x.todo) = 1 /\ x.todo \in Seq(Stage)
    BY <1>1, <1>2, <1>8, <2>1, SlotParts DEF PlanInv, Purges, LeftOfPurge, Name
  <2>3. y.todo = <<>> /\ y.req = x.req
    <3>1. y.todo = Tail(x.todo) /\ y.req = x.req
      BY <1>2 DEF Goes
    <3>2. PICK q : q = x.todo
      OBVIOUS
    <3>3. q \in Seq(Stage) /\ Len(q) = 1
      BY <2>2, <3>2
    <3>4. Tail(q) = <<>>
      <4>1. q # <<>>
        BY <1>2, <3>2
      <4> QED BY <3>3, <4>1, TailParts
    <3> QED BY <3>1, <3>2, <3>4
  <2>4. Foreseen(y) /\ Fulfilled(disk', y) /\ Purges(disk', y)
    BY <2>1, <2>3, QuietPlan, SlotNext DEF Plans
  <2>5. Seen(disk', past', y)
    <3> SUFFICES ASSUME NEW v \in past
                 PROVE  v.cursor \in Nat /\ Bare(v.snap) /\ v.cursor <= Number(disk'["events"])
      BY <1>2, <2>3 DEF Seen
    <3>1. v.cursor \in Nat /\ Bare(v.snap) /\ v.cursor <= Number(disk["events"])
      BY <1>2 DEF PlanInv, Seen
    <3>2. ASSUME NEW n \in Nat, NEW m \in Nat, NEW k \in Nat, k <= n, m = n + 1
          PROVE  k <= m
      BY <3>2
    <3>3. Number(disk'["events"]) = Number(disk["events"]) + 1 /\ Number(disk'["events"]) \in Nat
      BY <1>3, <1>4, <1>5
    <3>4. v.cursor <= Number(disk'["events"])
      BY <1>3, <3>1, <3>2, <3>3
    <3> QED BY <3>1, <3>4
  <2>6. disk'["snapshot"] # Torn => Bare(disk'["snapshot"])
    BY <1>6 DEF PlanInv
  <2>7. PlanInv(w)'
    BY <2>4, <2>5, <2>6 DEF PlanInv
  <2> QED BY <1>4, <1>5, <2>7
<1> QED BY <1>2, <1>4, <1>5, <1>7, <1>8

LEMMA RowPlan ==
    ASSUME NEW Texts, NEW States, NEW w, OneWriter(w), FileInv(Texts, States, w), PlanInv(w), Retains(w) \/ Places(w)
    PROVE  PlanInv(w)'
<1>1. CASE Retains(w)
  <2>1. /\ slot[w].todo # <<>> /\ Name(slot[w]) = "body" /\ Goes(slot[w], slot'[w]) /\ slot'[w].wrote = TRUE
        /\ past' = past /\ disk'["snapshot"] = disk["snapshot"] /\ disk'["paths"] = disk["paths"]
        /\ disk'["events"] = disk["events"]
    BY <1>1 DEF Retains, Writes, Files
  <2> QED BY <2>1, HistoryPlan
<1>2. CASE Places(w)
  <2>1. /\ slot[w].todo # <<>> /\ Name(slot[w]) = "path" /\ Goes(slot[w], slot'[w]) /\ slot'[w].wrote = TRUE
        /\ past' = past /\ disk'["snapshot"] = disk["snapshot"] /\ disk'["events"] = disk["events"]
    BY <1>2 DEF Places, Writes, Files
  <2> QED BY <2>1, HistoryPlan
<1> QED BY <1>1, <1>2

-----------------------------------------------------------------------------
(* Purging.                                                                *)

Clears(w) ==
    LET x == slot[w]  y == slot'[w]  rows == disk["bodyRevs"]
    IN  /\ x.todo # <<>> /\ Name(x) = "erase" /\ x.req.kind = "purge" /\ rows # Torn
        /\ y.req = x.req /\ y.todo = Tail(x.todo) /\ y.wrote = TRUE /\ y.result = rows
        /\ Cleared(disk'["bodyRevs"], rows, x.req.doc)
        /\ \A f \in Files \ {"bodyRevs"} : disk'[f] = disk[f]
        /\ past' = past /\ lost' = lost

TakesBack(w) ==
    LET x == slot[w]  y == slot'[w]
    IN  /\ x.todo # <<>> /\ Name(x) = "rollback" /\ x.req.kind = "purge"
        /\ y.req = x.req /\ y.todo = Tail(x.todo) /\ Writes("bodyRevs", x.result)
        /\ past' = past /\ lost' = lost

LEMMA EraseIs ==
    ASSUME NEW Texts, NEW States, NEW w, OneWriter(w), FileInv(Texts, States, w), Erase(w)
    PROVE  Clears(w)
<1> DEFINE x == slot[w]
           d == x.req.doc
           rows == x.copy
           content == [i \in DOMAIN rows |-> IF rows[i].doc = d THEN Erased(rows[i]) ELSE rows[i]]
           c == [x EXCEPT !.result = rows]
<1>1. /\ Has(w, "erase") /\ Put(w, "erase", content, c) /\ lost' = lost /\ past' = past
      /\ "erase" \in DOMAIN FileOf /\ FileOf["erase"] = "bodyRevs" /\ "erase" \in Copying \ {"history"}
  BY DEF Erase, FileOf, Copying
<1>2. SlotShaped(x) /\ SlotOK(Texts, States, disk, x)
  BY StageParts
<1>3. /\ SlotShaped(c) /\ c.req = x.req /\ c.todo = x.todo /\ c.result = rows
  BY <1>2 DEF SlotShaped, Fields
<1> HIDE DEF c, content
<1>4. Stored(w, "erase", content, c)
  BY <1>1, <1>3, PutDone
<1>5. /\ x.todo # <<>> /\ Name(x) = "erase" /\ disk["bodyRevs"] # Torn /\ rows = disk["bodyRevs"]
      /\ Goes(c, slot'[w]) /\ slot'[w].wrote = TRUE /\ Writes("bodyRevs", content)
  BY <1>1, <1>4 DEF Stored
<1>6. x.req.kind = "purge"
  <2>1. Name(x) \in NamesOf(x.req.kind) /\ x.req.kind \in Kinds
    BY <1>2, <1>5, SlotParts
  <2> QED BY <1>5, <2>1 DEF NamesOf, Kinds, Recording, History
<1>7. Cleared(content, rows, d)
  <2>1. rows \in Seq(BodyRow(Texts, States))
    BY <1>5 DEF FileInv, DiskOK, Shaped, Files
  <2>2. DOMAIN rows = 1..Len(rows) /\ Len(rows) \in Nat
    BY <2>1, LenProperties
  <2>3. Len(content) = Len(rows)
    BY <2>2 DEF content
  <2>4. ASSUME NEW i \in 1..Len(rows)
        PROVE  /\ content[i].seq = rows[i].seq /\ content[i].doc = rows[i].doc
               /\ rows[i].doc # d => content[i] = rows[i]
    <3>1. rows[i] \in BodyRow(Texts, States)
      BY <2>1, ElementOfSeq
    <3>2. PICK r : r = rows[i]
      OBVIOUS
    <3>3. Erased(r).seq = r.seq /\ Erased(r).doc = r.doc
      BY <3>1, <3>2 DEF BodyRow, Erased
    <3> QED BY <2>2, <3>2, <3>3 DEF content
  <2> QED BY <2>3, <2>4 DEF Cleared
<1> QED BY <1>1, <1>3, <1>5, <1>6, <1>7 DEF Clears, Goes, Writes

LEMMA RollBackIs ==
    ASSUME NEW Texts, NEW States, NEW w, OneWriter(w), FileInv(Texts, States, w), RollBack(w)
    PROVE  TakesBack(w)
<1> DEFINE x == slot[w]
<1>1. /\ At(w, "rollback") /\ Put(w, "rollback", x.result, x) /\ lost' = lost /\ past' = past
      /\ "rollback" \in DOMAIN FileOf /\ FileOf["rollback"] = "bodyRevs"
  BY DEF RollBack, FileOf
<1>2. SlotShaped(x) /\ SlotOK(Texts, States, disk, x)
  BY StageParts
<1>3. Stored(w, "rollback", x.result, x)
  BY <1>1, <1>2, PutDone
<1>4. x.todo # <<>> /\ Name(x) = "rollback"
  BY <1>3 DEF Stored
<1>5. x.req.kind = "purge"
  <2>1. Name(x) \in NamesOf(x.req.kind) /\ x.req.kind \in Kinds
    BY <1>2, <1>4, SlotParts
  <2> QED BY <1>4, <2>1 DEF NamesOf, Kinds, Recording, History
<1> QED BY <1>1, <1>3, <1>4, <1>5 DEF TakesBack, Stored, Goes

LEMMA ClearPlan ==
    ASSUME NEW Texts, NEW States, NEW w, OneWriter(w), FileInv(Texts, States, w), PlanInv(w), Clears(w)
    PROVE  PlanInv(w)' /\ slot'[w].todo # <<>> /\ Name(slot'[w]) = "locate"
<1> DEFINE x == slot[w]
           y == slot'[w]
<1>1. SlotOK(Texts, States, disk, x)
  BY StageParts
<1>2. /\ x.todo # <<>> /\ Name(x) = "erase" /\ x.req.kind = "purge"
      /\ y.req = x.req /\ y.todo = Tail(x.todo) /\ y.wrote = TRUE /\ y.result = disk["bodyRevs"]
      /\ Cleared(disk'["bodyRevs"], disk["bodyRevs"], x.req.doc) /\ past' = past
  BY DEF Clears
<1>3. disk'["snapshot"] = disk["snapshot"] /\ disk'["events"] = disk["events"]
  BY DEF Clears, Files
<1>4. LeftOfPurge(x.todo) /\ Seen(disk, past, x) /\ (disk["snapshot"] # Torn => Bare(disk["snapshot"]))
  BY <1>2 DEF PlanInv, Purges
<1>5. LeftOfPurge(y.todo) /\ y.todo # <<>> /\ Name(y) = "locate"
  <2>1. x.todo \in Seq(Stage) /\ Len(x.todo) = 4
        /\ x.todo[2][1] = "locate" /\ x.todo[3][1] = "number" /\ x.todo[4][1] = "audit"
    BY <1>1, <1>2, <1>4, SlotParts DEF LeftOfPurge, Name
  <2>2. PICK q : q = y.todo
    OBVIOUS
  <2>3. Len(q) = 3 /\ q[1] = x.todo[2] /\ q[2] = x.todo[3] /\ q[3] = x.todo[4]
    BY <1>2, <2>1, <2>2, TailParts
  <2>4. LeftOfPurge(q)
    BY <2>1, <2>3 DEF LeftOfPurge
  <2>5. q # <<>>
    BY <2>3
  <2> QED BY <2>1, <2>2, <2>3, <2>4, <2>5 DEF Name
<1> HIDE DEF x, y
<1>6. Foreseen(y) /\ Fulfilled(disk', y)
  BY <1>2, <1>5 DEF Foreseen, Fulfilled, Committed, Plans, Texting, History
<1>7. Purges(disk', y)
  BY <1>2, <1>5 DEF Purges
<1>8. Seen(disk', past', y)
  BY <1>2, <1>3, <1>4, <1>5 DEF Seen, History
<1>9. PlanInv(w)'
  BY <1>3, <1>4, <1>6, <1>7, <1>8 DEF PlanInv, y
<1> QED BY <1>5, <1>9 DEF y

LEMMA TakeBackPlan ==
    ASSUME NEW Texts, NEW States, NEW w, OneWriter(w), FileInv(Texts, States, w), FileInv(Texts, States, w)',
           PlanInv(w), TakesBack(w)
    PROVE  PlanInv(w)' /\ slot'[w].todo = <<>>
<1> DEFINE x == slot[w]
           y == slot'[w]
<1>1. SlotOK(Texts, States, disk, x)
  BY StageParts
<1>2. /\ x.todo # <<>> /\ Name(x) = "rollback" /\ x.req.kind = "purge"
      /\ y.req = x.req /\ y.todo = Tail(x.todo) /\ past' = past
  BY DEF TakesBack
<1>3. disk'["snapshot"] = disk["snapshot"] /\ disk'["events"] = disk["events"]
  BY DEF TakesBack, Writes, Files
<1>4. LeftOfPurge(x.todo) /\ Seen(disk, past, x) /\ (disk["snapshot"] # Torn => Bare(disk["snapshot"]))
  BY <1>2 DEF PlanInv, Purges
<1>5. y.todo = <<>>
  <2>1. x.todo \in Seq(Stage) /\ Len(x.todo) = 1
    BY <1>1, <1>2, <1>4, SlotParts DEF LeftOfPurge, Name
  <2> QED BY <1>2, <2>1, TailParts
<1>6. Foreseen(y) /\ Fulfilled(disk', y) /\ Purges(disk', y)
  BY <1>2, <1>5, QuietPlan, SlotNext DEF Plans
<1> HIDE DEF x, y
<1>8. Seen(disk', past', y)
  BY <1>2, <1>3, <1>4, <1>5 DEF Seen
<1>9. PlanInv(w)'
  BY <1>3, <1>4, <1>6, <1>8 DEF PlanInv, y
<1> QED BY <1>5, <1>9 DEF y

-----------------------------------------------------------------------------
(* The end of a request.                                                   *)

Spared(f) == disk'[f] \in {disk[f], Torn}

\* A request is broken off, or the server is killed, ...
Stops(w) ==
    /\ slot'[w].req.kind = "none" /\ slot'[w].todo = <<>>
    /\ (\A f \in Files : Spared(f)) /\ past' = past /\ lost \cup Broken(w) \subseteq lost'

\* ... or a purge that cannot append its event is to be taken back; ...
Undoes(w) ==
    LET x == slot[w]  y == slot'[w]
    IN  /\ x.todo # <<>> /\ Name(x) = "audit" /\ x.req.kind = "purge"
        /\ y.req = x.req /\ y.todo = <<<<"rollback", x.todo[1][2]>>>> /\ y.wrote = x.wrote /\ y.result = x.result
        /\ (\A f \in Files : Spared(f)) /\ past' = past /\ lost' = lost

\* ... it has done all its stages; ...
Answers(w) ==
    /\ slot[w].todo = <<>> /\ slot'[w].req.kind = "none" /\ slot'[w].todo = <<>>
    /\ disk' = disk /\ lost' = lost
    /\ past' \in {past, past \cup {[cursor |-> Current, snap |-> disk["snapshot"], lost |-> lost]}}
    /\ past' # past => Torn \notin {disk["events"], disk["snapshot"]}

\* ... it has not written anything, ...
Uncommitted(x) == ~Committed(x) /\ (x.req.kind = "purge" /\ x.todo # <<>> => Name(x) = "erase")

Thinks(w) ==
    /\ disk' = disk /\ past' = past /\ lost' = lost
    /\ Uncommitted(slot[w]) /\ Uncommitted(slot'[w])

\* ... or another slot is at work.
Elsewhere(w) == slot'[w] = slot[w] /\ disk' = disk /\ past' = past /\ lost \subseteq lost'

LEMMA EndPlan ==
    ASSUME NEW Texts, NEW States, NEW w, OneWriter(w), FileInv(Texts, States, w), FileInv(Texts, States, w)',
           PlanInv(w), slot'[w].req.kind \notin Plans, slot'[w].todo = <<>> \/ slot'[w].req.kind # "purge",
           \A f \in Files : Spared(f), past' = past
    PROVE  PlanInv(w)'
<1> DEFINE y == slot'[w]
<1>1. Foreseen(y) /\ Fulfilled(disk', y) /\ Purges(disk', y) /\ (y.todo # <<>> => Name(y) \notin {"event"} \cup History)
  BY QuietPlan, SlotNext
<1>2. /\ disk'["snapshot"] # Torn => disk'["snapshot"] = disk["snapshot"]
      /\ disk'["events"] # Torn => disk'["events"] = disk["events"]
  BY DEF Spared, Files
<1>3. Seen(disk', past', y)
  BY <1>1, <1>2 DEF PlanInv, Seen
<1>4. disk'["snapshot"] # Torn => Bare(disk'["snapshot"])
  BY <1>2 DEF PlanInv
<1> QED BY <1>1, <1>3, <1>4 DEF PlanInv

LEMMA StopPlan ==
    ASSUME NEW Texts, NEW States, NEW w, OneWriter(w), FileInv(Texts, States, w), FileInv(Texts, States, w)',
           PlanInv(w), Stops(w)
    PROVE  PlanInv(w)'
<1>1. slot'[w].req.kind \notin Plans
  BY DEF Stops, Plans
<1> QED BY <1>1, EndPlan DEF Stops

LEMMA AnswerPlan ==
    ASSUME NEW Texts, NEW States, NEW w, OneWriter(w), FileInv(Texts, States, w), FileInv(Texts, States, w)',
           PlanInv(w), Answers(w)
    PROVE  PlanInv(w)'
<1> DEFINE y == slot'[w]
           v2 == [cursor |-> Current, snap |-> disk["snapshot"], lost |-> lost]
<1>1. y.req.kind \notin Plans /\ y.todo = <<>> /\ disk' = disk
  BY DEF Answers, Plans
<1>2. Foreseen(y) /\ Fulfilled(disk', y) /\ Purges(disk', y)
  BY <1>1, QuietPlan, SlotNext
<1>3. ASSUME past' # past
      PROVE  v2.cursor \in Nat /\ Bare(v2.snap) /\ v2.cursor <= Number(disk["events"])
  <2>1. disk["events"] # Torn /\ disk["snapshot"] # Torn
    BY <1>3 DEF Answers
  <2>2. disk["events"] \in Seq(Event)
    BY <2>1 DEF FileInv, DiskOK, Files, Shaped
  <2>3. Current = Number(disk["events"]) /\ Number(disk["events"]) \in Nat
    BY <2>1, <2>2, NumberIs DEF Current
  <2>4. Current \in Nat /\ Current <= Number(disk["events"])
    BY <2>3
  <2> QED BY <2>1, <2>4 DEF PlanInv
<1> HIDE DEF v2
<1>4. past' \in {past, past \cup {v2}}
  BY DEF Answers, v2
<1>5. Seen(disk', past', y)
  BY <1>1, <1>3, <1>4 DEF PlanInv, Seen
<1> QED BY <1>1, <1>2, <1>5 DEF PlanInv

LEMMA UndoPlan ==
    ASSUME NEW Texts, NEW States, NEW w, OneWriter(w), FileInv(Texts, States, w), PlanInv(w), Undoes(w)
    PROVE  PlanInv(w)' /\ slot'[w].todo # <<>> /\ Name(slot'[w]) = "rollback"
<1> DEFINE x == slot[w]
           y == slot'[w]
<1>1. /\ x.todo # <<>> /\ Name(x) = "audit" /\ x.req.kind = "purge"
      /\ y.req = x.req /\ y.todo = <<<<"rollback", x.todo[1][2]>>>> /\ y.wrote = x.wrote /\ y.result = x.result
      /\ past' = past
  BY DEF Undoes
<1>2. /\ disk'["snapshot"] # Torn => disk'["snapshot"] = disk["snapshot"]
      /\ disk'["events"] # Torn => disk'["events"] = disk["events"]
      /\ disk'["bodyRevs"] # Torn => disk'["bodyRevs"] = disk["bodyRevs"]
  BY DEF Undoes, Spared, Files
<1>3. Len(y.todo) = 1 /\ y.todo # <<>> /\ Name(y) = "rollback"
  <2>1. PICK a : a = x.todo[1][2]
    OBVIOUS
  <2>2. PICK q : q = <<<<"rollback", a>>>>
    OBVIOUS
  <2>3. Len(q) = 1 /\ q[1] = <<"rollback", a>> /\ Len(<<>>) = 0
    BY <2>2
  <2>4. q # <<>> /\ q[1][1] = "rollback"
    BY <2>3
  <2> QED BY <1>1, <2>1, <2>2, <2>3, <2>4 DEF Name
<1>4. Purges(disk, x) /\ Seen(disk, past, x) /\ (disk["snapshot"] # Torn => Bare(disk["snapshot"]))
  BY DEF PlanInv
<1> HIDE DEF x, y
<1>5. x.wrote /\ (disk["bodyRevs"] # Torn => Cleared(disk["bodyRevs"], x.result, x.req.doc))
  BY <1>1, <1>4 DEF Purges
<1>6. Foreseen(y) /\ Fulfilled(disk', y)
  BY <1>1, <1>3 DEF Foreseen, Fulfilled, Committed, Plans, Texting, History
<1>7. Purges(disk', y)
  <2>1. LeftOfPurge(y.todo)
    BY <1>3 DEF LeftOfPurge, Name
  <2> QED BY <1>1, <1>2, <1>3, <1>5, <2>1 DEF Purges
<1>8. Seen(disk', past', y)
  BY <1>1, <1>2, <1>3, <1>4 DEF Seen, History
<1>9. PlanInv(w)'
  BY <1>2, <1>4, <1>6, <1>7, <1>8 DEF PlanInv, y
<1> QED BY <1>3, <1>9 DEF y

LEMMA ElsewherePlan ==
    ASSUME NEW w, PlanInv(w), Elsewhere(w)
    PROVE  PlanInv(w)'
BY DEF PlanInv, Elsewhere, Foreseen, Own, Changes, Fulfilled, Purges, Seen

\* Breaking a request off.
LEMMA BreakOffIs ==
    ASSUME NEW Texts, NEW States, NEW w, OneWriter(w), FileInv(Texts, States, w),
           slot[w].todo # <<>>, BreakOff(w), past' = past, \A f \in Files : Spared(f)
    PROVE  Stops(w) \/ Undoes(w)
<1> DEFINE x == slot[w]
           undo == <<<<"rollback", Doc(w)>>>>
           c == [x EXCEPT !.todo = undo, !.copy = Nothing]
<1>1. w \in Slots /\ SlotOK(Texts, States, disk, x) /\ SlotShaped(x)
  BY StageParts
<1>2. undo # <<>>
  <2>1. Len(undo) = 1 /\ Len(<<>>) = 0
    OBVIOUS
  <2> QED BY <2>1
<1>3. CASE At(w, "audit")
  <2>1. slot' = [slot EXCEPT ![w] = c] /\ lost' = lost
    BY <1>2, <1>3 DEF BreakOff, FailureStages
  <2>2. Name(x) = "audit" /\ "audit" \in Purging
    BY <1>3, StageParts DEF Purging
  <2>3. Doc(w) = x.todo[1][2]
    BY <2>2, StageParts
  <2>4. x.req.kind = "purge"
    <3>1. Name(x) \in NamesOf(x.req.kind) /\ x.req.kind \in Kinds
      BY <1>1, SlotParts
    <3> QED BY <2>2, <3>1 DEF NamesOf, Kinds, Recording, History
  <2> HIDE DEF undo
  <2>5. c.req = x.req /\ c.todo = undo /\ c.wrote = x.wrote /\ c.result = x.result
    BY <1>1 DEF SlotShaped, Fields
  <2> HIDE DEF c
  <2>6. slot'[w] = c
    BY <1>1, <2>1, SlotNow
  <2> QED BY <2>1, <2>2, <2>3, <2>4, <2>5, <2>6 DEF Undoes, undo
<1>4. CASE ~At(w, "audit")
  <2>1. slot' = [slot EXCEPT ![w] = Idle] /\ lost' = lost \cup Broken(w)
    BY <1>2, <1>4 DEF BreakOff, FailureStages
  <2>2. slot'[w] = Idle
    BY <1>1, <2>1, SlotNow
  <2> QED BY <2>1, <2>2, IdleOK DEF Stops
<1> QED BY <1>3, <1>4

LEMMA FailIs ==
    ASSUME NEW Texts, NEW States, NEW w, OneWriter(w), FileInv(Texts, States, w), Fail(w) \/ FailToWrite(w)
    PROVE  Stops(w) \/ Undoes(w)
<1>1. disk = [f \in Files |-> disk[f]] /\ w \in Slots
  BY DEF FileInv, DiskOK, OneWriter
<1>2. CASE Fail(w)
  <2>1. PICK f \in DOMAIN disk : ReadsNext(w, f)
    BY <1>2 DEF Fail
  <2>2. slot[w].todo # <<>>
    BY <2>1 DEF ReadsNext, Has, At
  <2>3. BreakOff(w) /\ UNCHANGED <<disk, past>>
    BY <1>2 DEF Fail
  <2> QED BY <1>1, <2>2, <2>3, BreakOffIs DEF Spared
<1>3. CASE FailToWrite(w)
  <2>1. PICK f \in DOMAIN disk : Writing(w, f) /\ disk' \in {disk, [disk EXCEPT ![f] = Torn]}
    BY <1>3 DEF FailToWrite
  <2>2. slot[w].todo # <<>>
    BY <2>1 DEF Writing, Has, At
  <2>3. \A g \in Files : Spared(g)
    BY <1>1, <2>1 DEF Spared
  <2>4. BreakOff(w) /\ past' = past
    BY <1>3 DEF FailToWrite
  <2> QED BY <2>2, <2>3, <2>4, BreakOffIs
<1> QED BY <1>2, <1>3

LEMMA CrashIs ==
    ASSUME NEW Texts, NEW States, NEW w, OneWriter(w), FileInv(Texts, States, w), NEW torn, Crash(torn)
    PROVE  Stops(w)
<1>1. disk = [f \in Files |-> disk[f]] /\ w \in Slots
  BY DEF FileInv, DiskOK, OneWriter
<1>2. disk' = [f \in DOMAIN disk |-> IF f \in torn THEN Torn ELSE disk[f]] /\ past' = past
  BY DEF Crash
<1>3. \A f \in Files : Spared(f)
  BY <1>1, <1>2 DEF Spared
<1>4. slot' = [s \in Slots |-> Idle] /\ lost' = lost \cup UNION {Broken(s) : s \in Slots}
  BY DEF Crash
<1> QED BY <1>1, <1>2, <1>3, <1>4, IdleOK DEF Stops

LEMMA AnswerIs ==
    ASSUME NEW Texts, NEW States, NEW w, OneWriter(w), FileInv(Texts, States, w), Answer(w)
    PROVE  Answers(w)
<1>1. w \in Slots
  BY DEF OneWriter
<1>2. slot' = [slot EXCEPT ![w] = Idle] /\ slot[w].todo = <<>> /\ UNCHANGED <<disk, lost>>
      /\ past' = IF slot[w].req.kind = "changes" \/ Torn \in {disk["events"], disk["snapshot"]} THEN past
                 ELSE past \cup {[cursor |-> Current, snap |-> disk["snapshot"], lost |-> lost]}
  BY DEF Answer
<1>3. slot'[w] = Idle
  BY <1>1, <1>2, SlotNow
<1> QED BY <1>2, <1>3, IdleOK DEF Answers

-----------------------------------------------------------------------------
(* Planning.                                                               *)

\* The stages a plan goes on with: a restore that places nothing drops the last.
LEMMA PlanTodo ==
    ASSUME NEW Texts, NEW States, NEW files, NEW x, SlotOK(Texts, States, files, x), x.todo # <<>>, Name(x) = "snapshot",
           NEW todo, todo = x.todo \/ (x.req.kind = "restore" /\ todo = Front(x.todo))
    PROVE  /\ \A name \in {"event", "body"} : \A d : StagedIn(x.todo, name, d) => StagedIn(Tail(todo), name, d)
           /\ HasKeep(x.todo) => HasKeep(Tail(todo))
           /\ todo = x.todo => \A d : StagedIn(x.todo, "path", d) => StagedIn(Tail(todo), "path", d)
           /\ Tail(todo) # <<>> => Leads(x.req.kind, x.todo[1], Tail(todo)[1])
<1> DEFINE kind == x.req.kind
           p == x.todo
<1>1. Formed(kind, x.req.doc, p) /\ p \in Seq(Stage) /\ Len(p) \in Nat /\ p # <<>> /\ p[1][1] = "snapshot"
  BY SlotParts DEF SlotOK, Name
<1>2. CASE todo = p
  <2>1. Tail(p) # <<>> => Leads(kind, p[1], Tail(p)[1])
    BY <1>1, TailFormed
  <2> QED BY <1>1, <1>2, <2>1, TailStaged
<1>3. CASE kind = "restore" /\ todo = Front(p) /\ todo # p
  <2>1. Len(p) > 2 /\ p[Len(p) - 1][1] = "compact"
    BY <1>1, <1>3 DEF SlotOK, Due, Begun
  <2> HIDE DEF p
  <2>2. PICK n \in Nat : n = Len(p) - 1 /\ n > 1
    BY <1>1, <2>1
  <2>3. p[n][1] = "compact" /\ n > 0 /\ n + 1 = Len(p) /\ n \in 1..(Len(p) - 1) /\ n \in 1..Len(p) /\ n + 1 \in 1..Len(p) /\ n < n + 1
    BY <1>1, <2>1, <2>2
  <2>4. Formed(kind, x.req.doc, todo)
    <3>1. Formed(kind, x.req.doc, Front(p))
      BY <1>1, <2>2, <2>3, FrontFormed DEF Planning
    <3> QED BY <1>3, <3>1
  <2>5. Len(todo) = n /\ \A i \in 1..n : todo[i] = p[i]
    BY <1>1, <1>3, <2>2, FrontParts
  <2>6. p[Len(p)][1] \notin {"event", "body", "keep"}
    <3>1. Leads(kind, p[n], p[n + 1])
      BY <1>1, <2>3 DEF Formed
    <3>2. p[n + 1][1] \in Recording \cup {"audit"}
      BY <1>1, <2>3 DEF Formed, Recording, History
    <3>3. p[n + 1][1] \notin {"event", "body"}
      BY <2>3, <3>1 DEF Leads
    <3> QED BY <2>3, <3>2, <3>3 DEF Recording, History
  <2>7. ASSUME NEW i \in 1..Len(p), p[i][1] \in {"event", "body", "keep"}
        PROVE  i \in 1..Len(todo) /\ todo[i] = p[i]
    <3>1. i # Len(p)
      BY <2>6, <2>7
    <3>2. i \in 1..n
      BY <1>1, <2>2, <3>1
    <3> QED BY <2>5, <3>2
  <2>8. todo # <<>> /\ todo[1] = p[1] /\ todo \in Seq(Stage)
    <3>1. Len(<<>>) = 0
      OBVIOUS
    <3> QED BY <2>2, <2>4, <2>5, <3>1 DEF Formed
  <2>9. \A name \in {"event", "body"} : \A d : StagedIn(p, name, d) => StagedIn(todo, name, d)
    BY <2>7 DEF StagedIn
  <2>10. HasKeep(p) => HasKeep(todo)
    BY <2>7 DEF HasKeep
  <2>11. Tail(todo) # <<>> => Leads(kind, todo[1], Tail(todo)[1])
    BY <2>4, <2>8, TailFormed
  <2>12. /\ \A name, d : name # "snapshot" => (StagedIn(todo, name, d) <=> StagedIn(Tail(todo), name, d))
         /\ HasKeep(todo) => HasKeep(Tail(todo))
    BY <1>1, <2>8, TailStaged
  <2> QED BY <1>3, <2>8, <2>9, <2>10, <2>11, <2>12 DEF p
<1> QED BY <1>2, <1>3

\* What a plan leaves of a document as it was.
Leaves(old, snap, d) ==
    snap.path[d] = old.path[d] /\ (d \in snap.live <=> d \in old.live) /\ snap.bodies[d] = old.bodies[d]

LEMMA LeavesChanges ==
    ASSUME NEW y, NEW d, Leaves(y.old, y.snap, d)
    PROVE  Changes(y, d)
BY DEF Leaves, Changes, View, Spot

LEMMA PlannedPlan ==
    ASSUME NEW Texts, NEW States, NEW w, OneWriter(w), FileInv(Texts, States, w), FileInv(Texts, States, w)',
           PlanInv(w), NEW x, x = slot[w], NEW y, y = slot'[w],
           x.todo # <<>>, Name(x) = "snapshot", x.req.kind \in Plans,
           NEW todo, todo = x.todo \/ (x.req.kind = "restore" /\ todo = Front(x.todo)),
           y.req = x.req, y.todo = Tail(todo),
           todo # x.todo => Spot(y.snap, x.req.doc) = Spot(y.old, x.req.doc),
           x.req.kind = "update" => Spot(y.snap, x.req.doc) = Spot(y.old, x.req.doc),
           x.req.kind \notin Texting /\ x.req.doc \in y.snap.live =>
              x.req.doc \in y.old.live /\ y.snap.bodies[x.req.doc] = y.old.bodies[x.req.doc],
           \A d \in Docs : Leaves(y.old, y.snap, d) \/ (d = x.req.doc /\ x.req.kind # "rewind"),
           Bare(y.snap), x.req.kind \in Texting => x.req.doc \in y.snap.live,
           x.req.kind = "create" => Texted(y),
           UNCHANGED <<disk, past, lost>>
    PROVE  PlanInv(w)' /\ Thinks(w) /\ (x.req.kind = "rewind" => Name(y) # "keep")
<1> DEFINE kind == x.req.kind
           doc == x.req.doc
<1>1. SlotOK(Texts, States, disk, x)
  BY StageParts
<1>2. /\ \A name \in {"event", "body"} : \A d : Staged(x, name, d) => Staged(y, name, d)
      /\ HasKeep(x.todo) => HasKeep(y.todo)
      /\ todo = x.todo => \A d : Staged(x, "path", d) => Staged(y, "path", d)
      /\ y.todo # <<>> => Leads(kind, x.todo[1], y.todo[1])
  BY <1>1, PlanTodo DEF Staged
<1>3. /\ HasKeep(x.todo) /\ Own(x) /\ Seen(disk, past, x) /\ (disk["snapshot"] # Torn => Bare(disk["snapshot"]))
  BY DEF PlanInv, Foreseen, Planning
<1>4. SlotOK(Texts, States, disk, y)
  BY SlotNext
<1>5. HasKeep(y.todo) /\ y.todo # <<>> /\ Name(y) \notin Recording
  BY <1>2, <1>3, <1>4, KeptLater DEF SlotOK, Name
<1>6. /\ Name(y) # "snapshot"
      /\ kind \in Texting => Name(y) # "keep" /\ (Name(y) = "canonical" => kind = "create")
  BY <1>2, <1>5 DEF Leads, Name
<1> HIDE DEF kind, doc
<1>7. \A d \in Docs : Changes(y, d)
  <2> SUFFICES ASSUME NEW d \in Docs, d = doc, kind # "rewind" PROVE Changes(y, d)
    BY LeavesChanges DEF kind, doc
  <2>1. Staged(y, "event", doc) /\ (kind \in Texting => Staged(y, "body", doc))
    BY <1>2, <1>3 DEF Own, kind, doc
  <2>2. Spot(y.snap, doc) # Spot(y.old, doc) => Staged(y, "path", doc)
    <3>1. CASE kind = "update"
      BY <3>1 DEF kind, doc
    <3>2. CASE kind = "move"
      BY <1>2, <1>3, <3>2 DEF Own, kind, doc
    <3>3. CASE kind \in {"create", "delete", "restore"}
      BY <1>2, <1>3, <3>3 DEF Own, kind, doc
    <3> QED BY <3>1, <3>2, <3>3 DEF Plans, kind
  <2>3. kind \notin Texting /\ doc \in y.snap.live =>
              doc \in y.old.live /\ y.snap.bodies[doc] = y.old.bodies[doc]
    BY DEF kind, doc
  <2> QED BY <2>1, <2>2, <2>3 DEF Changes, kind
<1>8. Own(y)
  <2>1. kind # "rewind" => Staged(y, "event", doc)
    BY <1>2, <1>3 DEF Own, kind, doc
  <2>2. kind \in Texting => Staged(y, "body", doc)
    BY <1>2, <1>3 DEF Own, kind, doc
  <2>3. kind \in {"create", "delete", "move"} => Staged(y, "path", doc)
    BY <1>2, <1>3 DEF Own, kind, doc
  <2>4. Name(y) # "check"
    BY <1>2, <1>5 DEF Leads, Name
  <2> QED BY <1>6, <2>1, <2>2, <2>3, <2>4 DEF Own, kind, doc
<1>9. Foreseen(y)
  BY <1>5, <1>7, <1>8 DEF Foreseen, kind, doc
<1>10. ~Committed(y) /\ ~Committed(x)
  BY <1>5 DEF Committed, Recording, History
<1>11. Fulfilled(disk', y)
  <2>1. Name(y) \notin {"number", "event", "body"} \cup History
    BY <1>5 DEF Recording, History
  <2> QED BY <1>6, <1>10, <2>1 DEF Fulfilled, kind
<1>12. Purges(disk', y) /\ kind # "purge"
  BY DEF Purges, Plans, kind
<1>13. Seen(disk', past', y)
  BY <1>3, <1>5 DEF Seen, Recording
<1>14. kind = "rewind" => Name(y) # "keep"
  <2>1. kind = "rewind" => Staged(x, "history", doc) /\ todo = x.todo
    BY <1>3 DEF Own, kind, doc
  <2>2. kind = "rewind" => Staged(y, "history", doc)
    BY <1>1, <2>1, SlotParts, TailStaged DEF Staged, Name
  <2> QED BY <1>4, <1>5, <2>2, KeptLater DEF Staged, SlotOK, Name, Planning
<1> QED BY <1>3, <1>9, <1>10, <1>11, <1>12, <1>13, <1>14 DEF PlanInv, Thinks, Uncommitted, kind

LEMMA PlanIs ==
    ASSUME NEW Texts, NEW States, NEW w, OneWriter(w), FileInv(Texts, States, w),
           NEW kind \in Plans, NEW snap, NEW result, Plan(w, kind, snap, result)
    PROVE  LET x == slot[w]  y == slot'[w]
           IN  /\ x.todo # <<>> /\ Name(x) = "snapshot" /\ x.req.kind = kind /\ disk["snapshot"] # Torn
               /\ y.req = x.req /\ y.todo = Tail(x.todo) /\ y.old = disk["snapshot"] /\ y.snap = snap
               /\ y.result = result /\ UNCHANGED <<disk, past, lost>>
<1> DEFINE x == slot[w]
           c == [x EXCEPT !.old = disk.snapshot, !.snap = snap, !.result = result]
<1>1. w \in Slots /\ SlotShaped(x)
  BY StageParts
<1>2. x.todo # <<>> /\ Name(x) = "snapshot" /\ disk["snapshot"] # Torn /\ x.req.kind = kind
  BY <1>1, OnlyWriterWrites DEF Plan, Reads, FileOf
<1>3. Advance(w, c) /\ UNCHANGED <<disk, past, lost>>
  BY DEF Plan
<1>4. /\ SlotShaped(c) /\ c.req = x.req /\ c.todo = x.todo /\ c.old = disk["snapshot"]
      /\ c.snap = snap /\ c.result = result
  BY <1>1 DEF SlotShaped, Fields
<1> HIDE DEF c
<1>5. Goes(c, slot'[w])
  BY <1>1, <1>3, <1>4, Advanced
<1> QED BY <1>2, <1>3, <1>4, <1>5 DEF Goes

\* What a plan step has come to.
Considers(w) == Thinks(w) /\ (slot'[w].req.kind = "rewind" => Name(slot'[w]) # "keep")

LEMMA CreatePlan ==
    ASSUME NEW Texts, NEW States, NEW w, OneWriter(w), FileInv(Texts, States, w), FileInv(Texts, States, w)',
           PlanInv(w), PlanCreate(w)
    PROVE  PlanInv(w)' /\ Considers(w)
<1> DEFINE x == slot[w]
           y == slot'[w]
           r == slot[w].req
           old == disk["snapshot"]
           snap == [disk.snapshot EXCEPT !.path[r.doc] = r.path, !.live = @ \cup {r.doc},
                                         !.bodies[r.doc] = r.edit.text]
<1>1. Plan(w, "create", snap, Plain(r.edit.text)) /\ w \in Slots
  BY DEF PlanCreate, OneWriter
<1>2. Reads(w, "snapshot") /\ Acceptable(w) /\ r.kind = "create"
  BY <1>1 DEF Plan
<1>3. Snapshot(Texts, old) /\ r.doc \in Docs
  BY <1>1, <1>2, SnapshotRead DEF Plans
<1>4. /\ snap.path = [old.path EXCEPT ![r.doc] = r.path] /\ snap.live = old.live \cup {r.doc}
      /\ snap.bodies = [old.bodies EXCEPT ![r.doc] = r.edit.text]
  BY <1>3 DEF Snapshot
<1> HIDE DEF snap
<1>5. /\ x.todo # <<>> /\ Name(x) = "snapshot" /\ r.kind \in Plans /\ old # Torn
      /\ y.req = r /\ y.todo = Tail(x.todo) /\ y.old = old /\ y.snap = snap /\ y.result = Plain(r.edit.text)
      /\ UNCHANGED <<disk, past, lost>>
  BY <1>1, <1>2, PlanIs DEF Plans
<1>6. Bare(old)
  BY <1>5 DEF PlanInv
<1>7. \A d \in Docs : Leaves(old, snap, d) \/ d = r.doc
  BY <1>3, <1>4 DEF Snapshot, Leaves
<1>8. Bare(snap) /\ r.doc \in snap.live /\ snap.bodies[r.doc] = r.edit.text
  BY <1>3, <1>4, <1>6 DEF Bare, Snapshot
<1>9. Texted(y)
  BY <1>5, <1>8 DEF Texted, Plain, Checkpoint
<1>10. r.kind \in Texting /\ r.kind # "rewind" /\ r.kind # "update"
  BY <1>2 DEF Texting
<1> QED BY <1>2, <1>5, <1>7, <1>8, <1>9, <1>10, PlannedPlan DEF Considers

LEMMA DeletePlan ==
    ASSUME NEW Texts, NEW States, NEW w, OneWriter(w), FileInv(Texts, States, w), FileInv(Texts, States, w)',
           PlanInv(w), PlanDelete(w)
    PROVE  PlanInv(w)' /\ Considers(w)
<1> DEFINE x == slot[w]
           y == slot'[w]
           r == slot[w].req
           d0 == slot[w].req.doc
           old == disk["snapshot"]
           snap == [disk.snapshot EXCEPT !.live = @ \ {d0}, !.bodies[d0] = NoBody]
<1>1. Plan(w, "delete", snap, Nothing) /\ w \in Slots
  BY DEF PlanDelete, OneWriter
<1>2. Reads(w, "snapshot") /\ Acceptable(w) /\ r.kind = "delete"
  BY <1>1 DEF Plan
<1>3. Snapshot(Texts, old) /\ r.doc \in Docs
  BY <1>1, <1>2, SnapshotRead DEF Plans
<1>4. /\ snap.path = old.path /\ snap.live = old.live \ {r.doc}
      /\ snap.bodies = [old.bodies EXCEPT ![r.doc] = NoBody]
  BY <1>3 DEF Snapshot
<1> HIDE DEF snap
<1>5. /\ x.todo # <<>> /\ Name(x) = "snapshot" /\ r.kind \in Plans /\ old # Torn
      /\ y.req = r /\ y.todo = Tail(x.todo) /\ y.old = old /\ y.snap = snap
      /\ UNCHANGED <<disk, past, lost>>
  BY <1>1, <1>2, PlanIs DEF Plans
<1>6. Bare(old)
  BY <1>5 DEF PlanInv
<1>7. \A d \in Docs : Leaves(old, snap, d) \/ d = r.doc
  BY <1>3, <1>4 DEF Snapshot, Leaves
<1>8. Bare(snap) /\ r.doc \notin snap.live
  BY <1>3, <1>4, <1>6 DEF Bare, Snapshot
<1>10. r.kind \notin Texting /\ r.kind \notin {"rewind", "update", "create"}
  BY <1>2 DEF Texting
<1> QED BY <1>2, <1>5, <1>7, <1>8, <1>10, PlannedPlan DEF Considers

LEMMA MovePlan ==
    ASSUME NEW Texts, NEW States, NEW w, OneWriter(w), FileInv(Texts, States, w), FileInv(Texts, States, w)',
           PlanInv(w), PlanMove(w)
    PROVE  PlanInv(w)' /\ Considers(w)
<1> DEFINE x == slot[w]
           y == slot'[w]
           r == slot[w].req
           old == disk["snapshot"]
           snap == [disk.snapshot EXCEPT !.path[r.doc] = r.path]
<1>1. Plan(w, "move", snap, Nothing) /\ w \in Slots
  BY DEF PlanMove, OneWriter
<1>2. Reads(w, "snapshot") /\ Acceptable(w) /\ r.kind = "move"
  BY <1>1 DEF Plan
<1>3. Snapshot(Texts, old) /\ r.doc \in Docs
  BY <1>1, <1>2, SnapshotRead DEF Plans
<1>4. /\ snap.path = [old.path EXCEPT ![r.doc] = r.path]
      /\ snap.live = old.live /\ snap.bodies = old.bodies
  BY <1>3 DEF Snapshot
<1> HIDE DEF snap
<1>5. /\ x.todo # <<>> /\ Name(x) = "snapshot" /\ r.kind \in Plans /\ old # Torn
      /\ y.req = r /\ y.todo = Tail(x.todo) /\ y.old = old /\ y.snap = snap
      /\ UNCHANGED <<disk, past, lost>>
  BY <1>1, <1>2, PlanIs DEF Plans
<1>6. Bare(old)
  BY <1>5 DEF PlanInv
<1>7. \A d \in Docs : Leaves(old, snap, d) \/ d = r.doc
  BY <1>3, <1>4 DEF Snapshot, Leaves
<1>8. Bare(snap)
  BY <1>4, <1>6 DEF Bare
<1>10. r.kind \notin Texting /\ r.kind \notin {"rewind", "update", "create"}
  BY <1>2 DEF Texting
<1>11. r.doc \in y.snap.live => r.doc \in y.old.live /\ y.snap.bodies[r.doc] = y.old.bodies[r.doc]
  BY <1>4, <1>5
<1> QED BY <1>2, <1>5, <1>7, <1>8, <1>10, <1>11, PlannedPlan DEF Considers

LEMMA UpdatePlan ==
    ASSUME NEW Texts, NEW States, NEW w, OneWriter(w), FileInv(Texts, States, w), FileInv(Texts, States, w)',
           PlanInv(w), PlanUpdate(w) \/ BeginRewind(w)
    PROVE  PlanInv(w)' /\ Considers(w)
<1> DEFINE x == slot[w]
           y == slot'[w]
           r == slot[w].req
           old == disk["snapshot"]
<1>1. r.kind \in {"update", "rewind"} /\ Plan(w, r.kind, old, Nothing) /\ w \in Slots
  BY DEF PlanUpdate, BeginRewind, Plan, OneWriter
<1>2. Reads(w, "snapshot") /\ Acceptable(w)
  BY <1>1 DEF Plan
<1>3. r.kind = "update" => r.doc \in old.live
  BY <1>1, <1>2, SnapshotRead DEF Plans
<1>5. /\ x.todo # <<>> /\ Name(x) = "snapshot" /\ r.kind \in Plans /\ old # Torn
      /\ y.req = r /\ y.todo = Tail(x.todo) /\ y.old = old /\ y.snap = old
      /\ UNCHANGED <<disk, past, lost>>
  BY <1>1, PlanIs DEF Plans
<1>6. Bare(old)
  BY <1>5 DEF PlanInv
<1>7. \A d \in Docs : Leaves(old, old, d)
  BY DEF Leaves
<1>8. r.kind \in Texting => r.kind = "update"
  BY <1>1 DEF Texting
<1> QED BY <1>1, <1>3, <1>5, <1>6, <1>7, <1>8, PlannedPlan DEF Considers

LEMMA RestorePlan ==
    ASSUME NEW Texts, NEW States, NEW w, OneWriter(w), FileInv(Texts, States, w), FileInv(Texts, States, w)',
           PlanInv(w), PlanRestore(w)
    PROVE  PlanInv(w)' /\ Considers(w)
<1> DEFINE x == slot[w]
           y == slot'[w]
           r == slot[w].req
           old == disk["snapshot"]
           snap == [disk.snapshot EXCEPT !.path[r.doc] = r.path, !.live = @ \cup {r.doc}]
           todo == IF Placing(r, disk.snapshot) THEN x.todo ELSE Front(x.todo)
           c == [x EXCEPT !.old = disk.snapshot, !.snap = snap, !.todo = todo]
<1>1. w \in Slots /\ SlotShaped(x)
  BY StageParts
<1>2. /\ x.todo # <<>> /\ Name(x) = "snapshot" /\ disk["snapshot"] # Torn /\ r.kind = "restore"
      /\ Reads(w, "snapshot") /\ Acceptable(w)
  BY <1>1, OnlyWriterWrites DEF PlanRestore, Reads, FileOf
<1>3. Advance(w, c) /\ UNCHANGED <<disk, past, lost>>
  BY DEF PlanRestore
<1>4. Snapshot(Texts, old) /\ r.doc \in Docs /\ r.path \in Paths
  BY <1>1, <1>2, SnapshotRead DEF Plans, Request
<1>5. /\ snap.path = [old.path EXCEPT ![r.doc] = r.path]
      /\ snap.live = old.live \cup {r.doc} /\ snap.bodies = old.bodies
  BY <1>4 DEF Snapshot
<1> HIDE DEF snap
<1>6. todo = x.todo \/ (todo = Front(x.todo) /\ r.doc \in old.live /\ r.path = old.path[r.doc])
  BY DEF Placing
<1>7. todo # x.todo => Spot(snap, r.doc) = Spot(old, r.doc)
  BY <1>4, <1>5, <1>6 DEF Spot, Snapshot
<1> HIDE DEF todo
<1>8. /\ SlotShaped(c) /\ c.req = x.req /\ c.todo = todo /\ c.old = old /\ c.snap = snap
  BY <1>1 DEF SlotShaped, Fields
<1> HIDE DEF c
<1>9. Goes(c, slot'[w])
  BY <1>1, <1>3, <1>8, Advanced
<1>10. y.req = r /\ y.todo = Tail(todo) /\ y.old = old /\ y.snap = snap
  BY <1>8, <1>9 DEF Goes
<1>11. Bare(old)
  BY <1>2 DEF PlanInv
<1>12. \A d \in Docs : Leaves(old, snap, d) \/ d = r.doc
  BY <1>4, <1>5 DEF Snapshot, Leaves
<1>13. Bare(snap) /\ r.doc \in snap.live
  BY <1>5, <1>11 DEF Bare
<1>14. r.kind \in Plans /\ r.kind \in Texting /\ r.kind \notin {"rewind", "update", "create"}
  BY <1>2 DEF Plans, Texting
<1>15. todo = x.todo \/ (r.kind = "restore" /\ todo = Front(x.todo))
  BY <1>2, <1>6
<1>16. Spot(y.snap, r.doc) = Spot(y.old, r.doc) \/ todo = x.todo
  BY <1>7, <1>10
<1> QED BY <1>2, <1>3, <1>10, <1>12, <1>13, <1>14, <1>15, <1>16, PlannedPlan DEF Considers

\* How the text worked out came about.
LEMMA WorkedPlan ==
    ASSUME NEW Texts, NEW States, NEW w, OneWriter(w), FileInv(Texts, States, w), FileInv(Texts, States, w)',
           PlanInv(w), slot[w].todo # <<>>, Name(slot[w]) \in {"merge", "revision"},
           NEW result, NEW text, text = result.state.text,
           IF result.onto = NoState THEN text = result.own
           ELSE LET edit == slot[w].req.edit
                IN  result.state = ApplyUpdate(result.onto, edit.actor, edit.base, edit.text),
           Advance(w, [slot[w] EXCEPT !.result = result, !.snap.bodies[slot[w].req.doc] = text]),
           UNCHANGED <<disk, past, lost>>
    PROVE  PlanInv(w)' /\ Considers(w)
<1> DEFINE x == slot[w]
           y == slot'[w]
           doc == x.req.doc
           kind == x.req.kind
           c == [x EXCEPT !.result = result, !.snap.bodies[doc] = text]
<1>1. w \in Slots /\ SlotOK(Texts, States, disk, x) /\ SlotShaped(x)
  BY StageParts
<1>2. kind \in {"update", "restore"} /\ kind \in Plans /\ kind \in Texting
  <2>1. Name(x) \in NamesOf(kind) /\ kind \in Kinds
    BY <1>1, SlotParts
  <2> QED BY <2>1 DEF NamesOf, Kinds, Recording, History, Purging, Plans, Texting
<1>3. Snapshot(Texts, x.snap) /\ doc \in Docs
  BY <1>1, <1>2 DEF SlotOK, Due, Planned, Plans, Request
<1>4. /\ SlotShaped(c) /\ c.req = x.req /\ c.todo = x.todo /\ c.old = x.old
      /\ c.snap = [x.snap EXCEPT !.bodies[doc] = text] /\ c.result = result /\ c.number = x.number
  BY <1>1 DEF SlotShaped, Fields
<1>5. /\ c.snap.path = x.snap.path /\ c.snap.live = x.snap.live
      /\ c.snap.bodies = [x.snap.bodies EXCEPT ![doc] = text]
  <2> HIDE DEF c
  <2> QED BY <1>3, <1>4 DEF Snapshot
<1>6. Advance(w, c)
  OBVIOUS
<1> HIDE DEF c
<1>7. Goes(c, y)
  BY <1>1, <1>4, <1>6, Advanced
<1>8. /\ y.req = x.req /\ y.todo = Tail(x.todo) /\ y.old = x.old /\ y.result = result
      /\ y.snap.path = x.snap.path /\ y.snap.live = x.snap.live
      /\ y.snap.bodies = [x.snap.bodies EXCEPT ![doc] = text]
  BY <1>4, <1>5, <1>7 DEF Goes
<1>9. y.snap.bodies[doc] = text /\ \A d \in Docs \ {doc} : y.snap.bodies[d] = x.snap.bodies[d]
  BY <1>3, <1>8 DEF Snapshot
<1>10. /\ HasKeep(x.todo) /\ Own(x) /\ Bare(x.snap) /\ (\A d \in Docs : Changes(x, d)) /\ doc \in x.snap.live
       /\ Seen(disk, past, x) /\ (disk["snapshot"] # Torn => Bare(disk["snapshot"]))
  BY <1>2 DEF PlanInv, Foreseen, Planning
<1>11. /\ \A name \in {"event", "body", "path"} : \A d : Staged(x, name, d) => Staged(y, name, d)
       /\ HasKeep(y.todo)
  <2>1. x.todo \in Seq(Stage)
    BY <1>1, SlotParts
  <2>2. \A name, d : name # x.todo[1][1] => (StagedIn(x.todo, name, d) <=> StagedIn(y.todo, name, d))
    BY <1>8, <2>1, TailStaged
  <2>3. HasKeep(x.todo) /\ x.todo[1][1] # "keep" => HasKeep(y.todo)
    BY <1>8, <2>1, TailStaged
  <2> QED BY <1>10, <2>2, <2>3 DEF Staged, Name
<1>12. y.todo # <<>> /\ Name(y) \notin Recording /\ Leads(kind, x.todo[1], y.todo[1])
  <2>1. y.todo # <<>> /\ Name(y) \notin Recording
    BY <1>11, SlotNext, KeptLater DEF SlotOK, Name
  <2>2. Formed(kind, doc, x.todo)
    BY <1>1 DEF SlotOK
  <2>3. x.todo # <<>>
    BY <1>1
  <2>4. Tail(x.todo) # <<>> => Tail(x.todo)[1] = x.todo[2] /\ Leads(kind, x.todo[1], x.todo[2])
    BY <2>2, <2>3, TailFormed
  <2>5. PICK q : q = Tail(x.todo)
    OBVIOUS
  <2>6. y.todo = q
    BY <1>8, <2>5
  <2> QED BY <2>1, <2>4, <2>5, <2>6
<1> HIDE DEF x, y, doc, kind
<1>13. \A d \in Docs : Changes(y, d)
  <2> SUFFICES ASSUME NEW d \in Docs PROVE Changes(y, d)
    OBVIOUS
  <2>1. Changes(x, d)
    BY <1>10
  <2>2. CASE d # doc
    <3>1. View(y.snap, d) = View(x.snap, d) /\ Spot(y.snap, d) = Spot(x.snap, d)
          /\ Shown(y.snap.bodies[d]) = Shown(x.snap.bodies[d])
      BY <1>8, <1>9, <2>2 DEF View, Spot
    <3>2. \A name \in {"event", "body", "path"} : Staged(x, name, d) => Staged(y, name, d)
      BY <1>11
    <3> QED BY <1>8, <2>1, <3>1, <3>2 DEF Changes
  <2>3. CASE d = doc
    <3>1. Staged(y, "event", d) /\ Staged(y, "body", d)
      BY <1>2, <1>10, <1>11, <2>3 DEF Own, kind, doc
    <3>2. Spot(y.snap, d) = Spot(x.snap, d) /\ (Staged(x, "path", d) => Staged(y, "path", d))
      BY <1>8, <1>11 DEF Spot
    <3> QED BY <1>8, <2>1, <3>1, <3>2 DEF Changes
  <2> QED BY <2>2, <2>3
<1>14. Own(y)
  <2>1. Staged(y, "event", doc) /\ Staged(y, "body", doc)
    BY <1>2, <1>10, <1>11 DEF Own, kind, doc
  <2>2. Name(y) # "snapshot"
    BY <1>12 DEF Leads, Name, x
  <2> QED BY <1>2, <1>8, <2>1, <2>2 DEF Own, kind, doc
<1>15. Foreseen(y)
  <2>1. Bare(y.snap)
    BY <1>8, <1>9, <1>10 DEF Bare
  <2> QED BY <1>8, <1>10, <1>11, <1>13, <1>14, <2>1 DEF Foreseen, kind, doc
<1>16. ~Committed(y) /\ ~Committed(x)
  BY <1>12 DEF Committed, Recording, History, x
<1>17. Texted(y)
  BY <1>8, <1>9 DEF Texted, x, doc
<1>18. Fulfilled(disk', y)
  BY <1>12, <1>16, <1>17 DEF Fulfilled, Recording
<1>19. Purges(disk', y) /\ kind # "purge"
  BY <1>2, <1>8 DEF Purges, kind
<1>20. Seen(disk', past', y)
  BY <1>10, <1>12 DEF Seen, Recording
<1> QED BY <1>2, <1>8, <1>10, <1>15, <1>16, <1>18, <1>19, <1>20 DEF PlanInv, Considers, Thinks, Uncommitted, x, y, kind

LEMMA MergePlan ==
    ASSUME NEW Texts, NEW States, Closed(Texts, States), NEW w, OneWriter(w),
           FileInv(Texts, States, w), FileInv(Texts, States, w)', PlanInv(w), Merge(w)
    PROVE  PlanInv(w)' /\ Considers(w)
<1> DEFINE x == slot[w]
           r == x.req
           row == disk.canonical[r.doc]
           state == IF row # NoState THEN row ELSE Checkpoint(Shown(x.snap.bodies[r.doc]))
           result == Converged(r.edit, state)
<1>1. x.todo # <<>> /\ Name(x) = "merge" /\ w \in Slots
  BY StageParts DEF Merge, Reads
<1>2. SlotOK(Texts, States, disk, x) /\ r.kind = "update"
  <2>1. SlotOK(Texts, States, disk, x)
    BY StageParts
  <2>2. Name(x) \in NamesOf(r.kind) /\ r.kind \in Kinds
    BY <1>1, <2>1, SlotParts
  <2> QED BY <1>1, <2>1, <2>2 DEF NamesOf, Kinds, Recording, History, Purging
<1>3. Snapshot(Texts, x.snap) /\ r.doc \in Docs
  BY <1>1, <1>2 DEF SlotOK, Due, Planned, Plans, Request
<1>5. Checkpoint(Shown(x.snap.bodies[r.doc])) # NoState
  <2>1. x.snap.bodies[r.doc] \in Texts \cup {NoBody}
    BY <1>3 DEF Snapshot
  <2>2. Shown(x.snap.bodies[r.doc]) \in Texts
    BY <2>1, ShownIs
  <2>3. \A t \in Texts : Checkpoint(t) # NoState
    BY DEF Closed
  <2> QED BY <2>2, <2>3
<1>6. state # NoState
  BY <1>5
<1> HIDE DEF state
<1>7. IF result.onto = NoState THEN result.state.text = result.own
      ELSE result.state = ApplyUpdate(result.onto, r.edit.actor, r.edit.base, r.edit.text)
  BY <1>6 DEF Converged, Plain, Checkpoint
<1>8. /\ Advance(w, [x EXCEPT !.result = result, !.snap.bodies[r.doc] = result.state.text])
      /\ UNCHANGED <<disk, past, lost>>
  BY DEF Merge, state
<1> HIDE DEF result
<1> QED BY <1>1, <1>7, <1>8, WorkedPlan

LEMMA RevisionPlan ==
    ASSUME NEW Texts, NEW States, NEW w, OneWriter(w),
           FileInv(Texts, States, w), FileInv(Texts, States, w)', PlanInv(w), LoadRevision(w)
    PROVE  PlanInv(w)' /\ Considers(w)
<1> DEFINE x == slot[w]
           r == x.req
           row == CHOOSE k \in ToSet(disk.bodyRevs) : k.doc = r.doc /\ k.seq = r.target
           state == IF row.replayed.text = row.own THEN row.replayed ELSE Checkpoint(row.own)
           result == [own |-> row.own, state |-> state, onto |-> NoState]
<1>1. x.todo # <<>> /\ Name(x) = "revision" /\ w \in Slots
  BY StageParts DEF LoadRevision, Reads
<1> HIDE DEF row
<1>2. state.text = row.own
  BY DEF Checkpoint
<1>3. /\ Advance(w, [x EXCEPT !.result = result, !.snap.bodies[r.doc] = row.own])
      /\ UNCHANGED <<disk, past, lost>>
  BY DEF LoadRevision, row
<1> HIDE DEF state
<1>4. result.onto = NoState /\ result.own = row.own /\ result.state.text = row.own
  BY <1>2
<1> HIDE DEF result
<1> QED BY <1>1, <1>3, <1>4, WorkedPlan

-----------------------------------------------------------------------------
(* Working out a rewind.                                                   *)

\* What is joined is there in what it is joined to.
LEMMA JoinedHolds ==
    ASSUME NEW S, NEW q \in Seq(Seq(S)), NEW k \in 1..Len(q), NEW i \in 1..Len(q[k])
    PROVE  \E j \in 1..Len(FlattenSeq(q)) : FlattenSeq(q)[j] = q[k][i]
<1> DEFINE n == Len(q)
           h == Joined(q)
           e == q[k][i]
           T == {m \in Nat : m \in 1..n => /\ h[m] \in Seq(S)
                                           /\ k <= m => \E j \in 1..Len(h[m]) : h[m][j] = e}
<1>1. n \in Nat /\ \A m \in 1..n : q[m] \in Seq(S)
  BY LenProperties
<1>2. \A m \in 1..n : h[m] = IF m = 1 THEN q[m] ELSE h[m - 1] \o q[m]
  <2> DEFINE R == Seq(S)
  <2>1. R \in SUBSET Seq(S) /\ <<>> \in R /\ \A a \in R, b \in R : a \o b \in R
    OBVIOUS
  <2> HIDE DEF R
  <2>2. q \in Seq(R)
    BY DEF R
  <2> QED BY <2>1, <2>2, JoinedUnfolds
<1> HIDE DEF h, n, e
<1>3. 0 \in T
  OBVIOUS
<1>4. ASSUME NEW m \in Nat, m \in T PROVE m + 1 \in T
  <2> SUFFICES ASSUME m + 1 \in 1..n
               PROVE  /\ h[m + 1] \in Seq(S)
                      /\ k <= m + 1 => \E j \in 1..Len(h[m + 1]) : h[m + 1][j] = e
    OBVIOUS
  <2>1. CASE m = 0
    <3>1. m + 1 = 1 /\ 1 \in 1..n /\ (k <= 1 => k = 1) /\ k \in Nat
      BY <2>1 DEF n
    <3>2. h[1] = q[1] /\ q[1] \in Seq(S)
      BY <1>1, <1>2, <3>1
    <3>3. k = 1 => \E j \in 1..Len(q[1]) : q[1][j] = e
      BY DEF e
    <3> QED BY <3>1, <3>2, <3>3
  <2>2. CASE m # 0
    <3>1. m \in 1..n /\ m + 1 # 1 /\ (m + 1) - 1 = m
      BY <1>1, <2>2
    <3>2. h[m + 1] = h[m] \o q[m + 1] /\ q[m + 1] \in Seq(S)
      BY <1>1, <1>2, <3>1
    <3>3. h[m] \in Seq(S) /\ (k <= m => \E j \in 1..Len(h[m]) : h[m][j] = e)
      BY <1>4, <3>1
    <3>4. PICK a : a = h[m]
      OBVIOUS
    <3>5. PICK b : b = q[m + 1]
      OBVIOUS
    <3>6. PICK c : c = a \o b
      OBVIOUS
    <3>7. a \in Seq(S) /\ b \in Seq(S) /\ Len(a) \in Nat /\ Len(b) \in Nat
      BY <3>2, <3>3, <3>4, <3>5
    <3>8. /\ c \in Seq(S) /\ Len(c) = Len(a) + Len(b)
          /\ \A j \in 1..(Len(a) + Len(b)) : c[j] = IF j <= Len(a) THEN a[j] ELSE b[j - Len(a)]
      BY <3>6, <3>7, ConcatProperties
    <3>9. k <= m => \E j \in 1..Len(c) : c[j] = e
      <4> SUFFICES ASSUME k <= m PROVE \E j \in 1..Len(c) : c[j] = e
        OBVIOUS
      <4>1. PICK j \in 1..Len(a) : a[j] = e
        BY <3>3, <3>4
      <4>2. j \in 1..(Len(a) + Len(b)) /\ j <= Len(a)
        BY <3>7
      <4> QED BY <3>8, <4>1, <4>2
    <3>10. k = m + 1 => \E j \in 1..Len(c) : c[j] = e
      <4> SUFFICES ASSUME k = m + 1 PROVE \E j \in 1..Len(c) : c[j] = e
        OBVIOUS
      <4>1. b[i] = e /\ i \in 1..Len(b)
        BY <3>5 DEF e
      <4>2. /\ Len(a) + i \in 1..(Len(a) + Len(b)) /\ ~(Len(a) + i <= Len(a))
            /\ (Len(a) + i) - Len(a) = i
        BY <3>7, <4>1
      <4> QED BY <3>8, <4>1, <4>2
    <3>11. k <= m + 1 => k <= m \/ k = m + 1
      BY DEF n
    <3> QED BY <3>2, <3>4, <3>5, <3>6, <3>8, <3>9, <3>10, <3>11
  <2> QED BY <2>1, <2>2
<1>5. Nat \subseteq T
  <2> HIDE DEF T
  <2> QED BY <1>3, <1>4, Induction
<1>6. n \in T /\ n \in 1..n /\ k <= n /\ n # 0
  BY <1>1, <1>5 DEF n
<1>7. \E j \in 1..Len(h[n]) : h[n][j] = e
  BY <1>6
<1>8. FlattenSeq(q) = h[n]
  BY <1>6, FlattenUnfolds DEF n, h
<1> QED BY <1>7, <1>8 DEF e

LEMMA NthReached ==
    ASSUME NEW S, IsFiniteSet(S), S \subseteq Nat, NEW d \in S
    PROVE  RankIn(S, d) \in 1..Cardinality(S) /\ NthOf(S, RankIn(S, d)) = d
<1>1. RankIn(S, d) \in 1..Cardinality(S)
  BY RankRises
<1>2. ASSUME NEW k \in S, RankIn(S, k) = RankIn(S, d) PROVE k = d
  <2>1. RankIn(S, k) \in 1..Cardinality(S) /\ Cardinality(S) \in Nat
    BY RankRises, RankReached
  <2>2. RankIn(S, k) <= RankIn(S, d) /\ RankIn(S, d) <= RankIn(S, k)
    BY <1>1, <1>2, <2>1
  <2>3. k <= d /\ d <= k
    BY <2>2, RankRises
  <2>4. k \in Nat /\ d \in Nat
    OBVIOUS
  <2> QED BY <2>3, <2>4
<1>3. NthOf(S, RankIn(S, d)) = CHOOSE k \in S : RankIn(S, k) = RankIn(S, d)
  BY DEF NthOf, RankIn
<1> QED BY <1>1, <1>2, <1>3

LEMMA ChangeTold ==
    ASSUME NEW old, NEW new, NEW d \in Docs
    PROVE  LET q == StagesOfChange(old, new, d)
           IN  /\ StagedIn(q, "event", d) /\ StagedIn(q, "path", d)
               /\ d \in new.live /\ BodyChanged(old, new, d) => StagedIn(q, "body", d)
<1> DEFINE long == <<"number", "event", "body", "entry", "policy", "compact", "path">>
           short == <<"number", "event", "path">>
           names == IF d \in new.live /\ BodyChanged(old, new, d) THEN long ELSE short
           q == ForDoc(names, d)
<1>1. /\ DOMAIN names = 1..Len(names) /\ Len(names) \in Nat
      /\ \E i \in 1..Len(names) : names[i] = "event"
      /\ \E i \in 1..Len(names) : names[i] = "path"
      /\ d \in new.live /\ BodyChanged(old, new, d) => \E i \in 1..Len(names) : names[i] = "body"
  <2>1. CASE d \in new.live /\ BodyChanged(old, new, d)
    <3>1. DOMAIN long = 1..7 /\ Len(long) = 7 /\ long[2] = "event" /\ long[3] = "body" /\ long[7] = "path"
      OBVIOUS
    <3>2. names = long
      BY <2>1
    <3> HIDE DEF long, names
    <3>3. DOMAIN names = 1..7 /\ Len(names) = 7 /\ names[2] = "event" /\ names[3] = "body" /\ names[7] = "path"
      BY <3>1, <3>2
    <3>4. 2 \in 1..7 /\ 3 \in 1..7 /\ 7 \in 1..7 /\ 7 \in Nat
      OBVIOUS
    <3> QED BY <2>1, <3>3, <3>4
  <2>2. CASE ~(d \in new.live /\ BodyChanged(old, new, d))
    <3>1. DOMAIN short = 1..3 /\ Len(short) = 3 /\ short[2] = "event" /\ short[3] = "path"
      OBVIOUS
    <3>2. names = short
      BY <2>2
    <3> HIDE DEF short, names
    <3>3. DOMAIN names = 1..3 /\ Len(names) = 3 /\ names[2] = "event" /\ names[3] = "path"
      BY <3>1, <3>2
    <3>4. 2 \in 1..3 /\ 3 \in 1..3 /\ 3 \in Nat
      OBVIOUS
    <3> QED BY <2>2, <3>3, <3>4
  <2> QED BY <2>1, <2>2
<1>2. StagesOfChange(old, new, d) = q
  BY DEF StagesOfChange
<1> HIDE DEF names
<1>3. q = [i \in 1..Len(names) |-> <<names[i], d>>]
  BY <1>1 DEF ForDoc
<1>4. Len(q) = Len(names) /\ \A i \in 1..Len(names) : q[i] = <<names[i], d>>
  BY <1>1, <1>3
<1> HIDE DEF q
<1> QED BY <1>1, <1>2, <1>4 DEF StagedIn

LEMMA ChangeStages ==
    ASSUME NEW old, NEW new, NEW d \in Docs
    PROVE  StagesOfChange(old, new, d) \in Seq(Stage)
<1> DEFINE long == <<"number", "event", "body", "entry", "policy", "compact", "path">>
           short == <<"number", "event", "path">>
           names == IF d \in new.live /\ BodyChanged(old, new, d) THEN long ELSE short
<1>1. names \in Seq(DOMAIN FileOf)
  <2>1. long \in Seq(DOMAIN FileOf) /\ short \in Seq(DOMAIN FileOf)
    BY DEF FileOf
  <2> HIDE DEF long, short
  <2> QED BY <2>1
<1>2. StagesOfChange(old, new, d) = ForDoc(names, d)
  BY DEF StagesOfChange
<1> HIDE DEF names
<1>3. d \in Nat
  BY FilesAssumption
<1>4. ForDoc(names, d) = [i \in 1..Len(names) |-> <<names[i], d>>] /\ Len(names) \in Nat
  BY <1>1 DEF ForDoc
<1>5. \A i \in 1..Len(names) : <<names[i], d>> \in Stage
  BY <1>1, <1>3 DEF Stage
<1>6. [i \in 1..Len(names) |-> <<names[i], d>>] \in Seq(Stage)
  BY <1>4, <1>5
<1> QED BY <1>2, <1>4, <1>6


\* What a rewind does not count as changed it leaves as it was.
LEMMA RewoundLeaves ==
    ASSUME NEW old, Bare(old), NEW paths, NEW revs, NEW c, NEW new, new = Rewound(old, paths, revs, c)
    PROVE  /\ Bare(new)
           /\ \A d \in Docs \ Changed(old, new) :
                 View(new, d) = View(old, d) /\ Spot(new, d) = Spot(old, d)
                 /\ (d \in new.live => ~BodyChanged(old, new, d))
<1>1. /\ new.live = There(paths, c)
      /\ \A d \in Docs : /\ d \notin new.live => new.path[d] = old.path[d] /\ new.bodies[d] = NoBody
  BY DEF Rewound, Placed, There
<1>2. Bare(new)
  BY <1>1 DEF Bare
<1>3. ASSUME NEW d \in Docs, d \notin Changed(old, new)
      PROVE  View(new, d) = View(old, d) /\ Spot(new, d) = Spot(old, d)
             /\ (d \in new.live => ~BodyChanged(old, new, d))
  <2>1. CASE d \in new.live
    <3>1. d \in old.live /\ old.path[d] = new.path[d] /\ ~BodyChanged(old, new, d)
      BY <1>3, <2>1 DEF Changed
    <3> QED BY <2>1, <3>1 DEF View, Spot, BodyChanged
  <2>2. CASE d \notin new.live
    <3>1. d \notin old.live
      BY <1>3, <2>2 DEF Changed
    <3>2. new.path[d] = old.path[d] /\ new.bodies[d] = NoBody /\ old.bodies[d] = NoBody
      BY <1>1, <2>2, <3>1 DEF Bare
    <3> QED BY <2>2, <3>1, <3>2 DEF View, Spot
  <2> QED BY <2>1, <2>2
<1> QED BY <1>2, <1>3

\* What a rewind keeps is what the history said of its target.
Reconstructs(w) ==
    LET x == slot[w]  y == slot'[w]
    IN  /\ x.todo # <<>> /\ Name(x) = "history" /\ x.req.kind = "rewind" /\ y.req = x.req
        /\ disk["paths"] # Torn /\ disk["bodyRevs"] # Torn
        /\ y.snap = Rewound(x.old, disk["paths"], disk["bodyRevs"], x.req.target)

LEMMA RewindPlan ==
    ASSUME NEW Texts, NEW States, NEW w, OneWriter(w), FileInv(Texts, States, w), FileInv(Texts, States, w)',
           PlanInv(w), PlanRewind(w)
    PROVE  PlanInv(w)' /\ Thinks(w) /\ Reconstructs(w)
<1> DEFINE x == slot[w]
           y == slot'[w]
           old == x.old
           new == Rewound(old, x.copy, disk["bodyRevs"], x.req.target)
           changes == Changed(old, new)
           change(i) == StagesOfChange(old, new, NthOf(changes, i))
           seqs == [i \in 1..Cardinality(changes) |-> change(i)]
           stages == FlattenSeq(seqs)
           c == [x EXCEPT !.snap = new, !.todo = @ \o stages]
<1>1. Has(w, "history") /\ disk["bodyRevs"] # Torn /\ UNCHANGED <<disk, past, lost>>
  BY DEF PlanRewind
<1>2. Advance(w, c)
  BY DEF PlanRewind
<1>3. /\ w \in Slots /\ x.todo # <<>> /\ Name(x) = "history" /\ SlotOK(Texts, States, disk, x) /\ SlotShaped(x)
      /\ disk["paths"] # Torn /\ x.copy = disk["paths"]
  <2>1. w \in Slots /\ x.todo # <<>> /\ Name(x) = "history" /\ SlotOK(Texts, States, disk, x) /\ SlotShaped(x)
    BY <1>1, StageParts DEF Has
  <2>2. FileOf["history"] = "paths"
    BY DEF FileOf
  <2> QED BY <1>1, <2>1, <2>2 DEF Has, SlotOK
<1>4. x.req.kind = "rewind" /\ x.todo \in Seq(Stage)
  <2>1. Name(x) \in NamesOf(x.req.kind) /\ x.req.kind \in Kinds /\ x.todo \in Seq(Stage)
    BY <1>3, SlotParts
  <2> QED BY <1>3, <2>1 DEF NamesOf, Kinds, Recording, History, Purging
<1>5. /\ Snapshot(Texts, old) /\ disk["snapshot"] # Torn /\ old = disk["snapshot"]
  BY <1>3, <1>4 DEF SlotOK, Due, Planned, Kept, Planning, Plans
<1>6. Bare(old) /\ Seen(disk, past, x) /\ HasKeep(x.todo)
  BY <1>3, <1>4, <1>5 DEF PlanInv, Foreseen, Plans, Planning
<1>7. /\ Bare(new)
      /\ \A d \in Docs \ changes : View(new, d) = View(old, d) /\ Spot(new, d) = Spot(old, d)
                                   /\ (d \in new.live => ~BodyChanged(old, new, d))
  BY <1>6, RewoundLeaves
<1>8. new = Rewound(old, disk["paths"], disk["bodyRevs"], x.req.target)
  BY <1>3
<1>p. x.copy \in Seq(PathRow) /\ disk["bodyRevs"] \in Seq(BodyRow(Texts, States))
  BY <1>1, <1>3 DEF FileInv, DiskOK, Shaped, Files
<1> HIDE DEF new
<1>9. changes \subseteq Docs /\ changes \subseteq Nat /\ IsFiniteSet(changes)
  <2>1. changes \subseteq Docs
    BY DEF Changed
  <2> HIDE DEF changes
  <2> QED BY <2>1, FilesAssumption, FS_Subset
<1> HIDE DEF changes
<1>10. ASSUME NEW d \in changes
       PROVE  \E k \in 1..Len(seqs) : seqs[k] = StagesOfChange(old, new, d)
  <2>1. RankIn(changes, d) \in 1..Cardinality(changes) /\ NthOf(changes, RankIn(changes, d)) = d
    BY <1>9, <1>10, NthReached
  <2>2. Cardinality(changes) \in Nat
    BY <1>9, FS_CardinalityType
  <2>3. Len(seqs) = Cardinality(changes)
    <3> HIDE DEF change
    <3> QED BY <2>2
  <2>4. seqs[RankIn(changes, d)] = change(RankIn(changes, d))
    <3> HIDE DEF change
    <3> QED BY <2>1
  <2> QED BY <2>1, <2>3, <2>4
<1>11. seqs \in Seq(Seq(Stage)) /\ stages \in Seq(Stage)
  <2>1. Cardinality(changes) \in Nat
    BY <1>9, FS_CardinalityType
  <2>2. ASSUME NEW i \in 1..Cardinality(changes) PROVE change(i) \in Seq(Stage)
    <3>1. PICK k \in changes : RankIn(changes, k) = i
      BY <1>9, RankReached
    <3>2. NthOf(changes, i) = k /\ k \in Docs
      BY <1>9, <3>1, NthReached
    <3>3. change(i) = StagesOfChange(old, new, k)
      BY <3>2
    <3> HIDE DEF change
    <3>4. StagesOfChange(old, new, k) \in Seq(Stage)
      BY <3>2, ChangeStages
    <3> QED BY <3>3, <3>4
  <2> HIDE DEF change
  <2>3. seqs \in Seq(Seq(Stage))
    BY <2>1, <2>2
  <2> HIDE DEF seqs
  <2>4. stages \in Seq(Stage)
    <3> DEFINE R == Seq(Stage)
    <3>1. R \in SUBSET Seq(Stage) /\ <<>> \in R /\ \A a \in R, b \in R : a \o b \in R
      OBVIOUS
    <3> HIDE DEF R
    <3>2. seqs \in Seq(R)
      BY <2>3 DEF R
    <3>3. FlattenSeq(seqs) \in R
      BY <3>1, <3>2, FlattenStays
    <3> QED BY <3>3 DEF R
  <2> QED BY <2>3, <2>4
<1>12. ASSUME NEW d \in changes
       PROVE  /\ StagedIn(stages, "event", d) /\ StagedIn(stages, "path", d)
              /\ d \in new.live /\ BodyChanged(old, new, d) => StagedIn(stages, "body", d)
  <2>1. PICK k \in 1..Len(seqs) : seqs[k] = StagesOfChange(old, new, d)
    BY <1>10, <1>12
  <2> HIDE DEF seqs
  <2>2. \A i \in 1..Len(seqs[k]) : \E j \in 1..Len(stages) : stages[j] = seqs[k][i]
    BY <1>11, JoinedHolds
  <2>3. d \in Docs
    BY <1>9, <1>12
  <2>4. LET q == StagesOfChange(old, new, d)
        IN  /\ StagedIn(q, "event", d) /\ StagedIn(q, "path", d)
            /\ d \in new.live /\ BodyChanged(old, new, d) => StagedIn(q, "body", d)
    BY <2>3, ChangeTold
  <2> HIDE DEF stages
  <2> QED BY <2>1, <2>2, <2>4 DEF StagedIn
<1> HIDE DEF stages
<1>13. PICK todo : todo = x.todo \o stages
  OBVIOUS
<1>14. /\ todo \in Seq(Stage) /\ todo # <<>> /\ todo[1][1] = "history" /\ HasKeep(todo)
       /\ \A name, d : StagedIn(stages, name, d) => StagedIn(todo, name, d)
  <2>1. /\ todo \in Seq(Stage) /\ Len(todo) = Len(x.todo) + Len(stages) /\ Len(x.todo) \in Nat /\ Len(stages) \in Nat
        /\ \A i \in 1..(Len(x.todo) + Len(stages)) :
              todo[i] = IF i <= Len(x.todo) THEN x.todo[i] ELSE stages[i - Len(x.todo)]
    BY <1>4, <1>11, <1>13, ConcatProperties
  <2>2. Len(x.todo) > 0 /\ x.todo[1][1] = "history"
    BY <1>3, <1>4, TailParts DEF Name
  <2>3. 1 \in 1..(Len(x.todo) + Len(stages)) /\ 1 <= Len(x.todo)
    BY <2>1, <2>2
  <2>4. todo # <<>> /\ todo[1][1] = "history"
    <3>1. Len(<<>>) = 0
      OBVIOUS
    <3>2. Len(todo) > 0
      BY <2>1, <2>2
    <3> QED BY <2>1, <2>2, <2>3, <3>1, <3>2
  <2>5. HasKeep(todo)
    <3>1. PICK i \in 1..Len(x.todo) : x.todo[i][1] = "keep"
      BY <1>6 DEF HasKeep
    <3>2. i \in 1..(Len(x.todo) + Len(stages)) /\ i <= Len(x.todo)
      BY <2>1
    <3> QED BY <2>1, <3>1, <3>2 DEF HasKeep
  <2>6. ASSUME NEW i \in 1..Len(stages)
        PROVE  \E j \in 1..Len(todo) : todo[j] = stages[i]
    <3>1. /\ Len(x.todo) + i \in 1..(Len(x.todo) + Len(stages)) /\ ~(Len(x.todo) + i <= Len(x.todo))
          /\ (Len(x.todo) + i) - Len(x.todo) = i
      BY <2>1
    <3> QED BY <2>1, <3>1
  <2> QED BY <2>1, <2>4, <2>5, <2>6 DEF StagedIn
<1>15. /\ SlotShaped(c) /\ c.req = x.req /\ c.todo = todo /\ c.old = old /\ c.snap = new
  BY <1>3, <1>13 DEF SlotShaped, Fields
<1> HIDE DEF c
<1>16. Goes(c, y)
  BY <1>2, <1>3, <1>15, Advanced
<1>17. y.req = x.req /\ y.todo = Tail(todo) /\ y.old = old /\ y.snap = new
  BY <1>15, <1>16 DEF Goes
<1>18. /\ \A name \in {"event", "body", "path"} : \A d : StagedIn(stages, name, d) => Staged(y, name, d)
       /\ HasKeep(y.todo)
  <2>1. \A name, d : name # todo[1][1] => (StagedIn(todo, name, d) <=> StagedIn(y.todo, name, d))
    BY <1>14, <1>17, TailStaged
  <2>2. HasKeep(todo) /\ todo[1][1] # "keep" => HasKeep(y.todo)
    BY <1>14, <1>17, TailStaged
  <2> QED BY <1>14, <2>1, <2>2 DEF Staged
<1>19. y.todo # <<>> /\ Name(y) \notin Recording /\ Name(y) \notin {"check", "snapshot"}
  <2>1. SlotOK(Texts, States, disk', y)
    BY SlotNext
  <2>2. y.todo # <<>> /\ y.todo[1][1] \notin Recording
    BY <1>18, <2>1, KeptLater DEF SlotOK
  <2>3. Name(y) \notin {"check", "snapshot"}
    <3>1. Tail(x.todo) # <<>>
      <4>1. HasKeep(Tail(x.todo))
        BY <1>3, <1>4, <1>6, TailStaged DEF Name
      <4>2. PICK q : q = Tail(x.todo)
        OBVIOUS
      <4>3. PICK i \in 1..Len(q) : TRUE
        BY <4>1, <4>2 DEF HasKeep
      <4>4. Len(<<>>) = 0
        OBVIOUS
      <4>5. q # <<>>
        BY <4>3, <4>4
      <4> QED BY <4>2, <4>5
    <3>2. Formed(x.req.kind, x.req.doc, x.todo)
      BY <1>3 DEF SlotOK
    <3>3. Len(x.todo) > 1 /\ Leads(x.req.kind, x.todo[1], x.todo[2])
      BY <1>3, <3>1, <3>2, TailFormed
    <3>4. x.todo[2][1] \notin {"check", "snapshot"}
      BY <1>3, <3>3 DEF Leads, Name
    <3>5. todo[2] = x.todo[2]
      <4>1. /\ Len(x.todo) \in Nat /\ Len(stages) \in Nat
            /\ \A i \in 1..(Len(x.todo) + Len(stages)) :
                  todo[i] = IF i <= Len(x.todo) THEN x.todo[i] ELSE stages[i - Len(x.todo)]
        BY <1>4, <1>11, <1>13, ConcatProperties
      <4>2. 2 \in 1..(Len(x.todo) + Len(stages)) /\ 2 <= Len(x.todo)
        BY <3>3, <4>1
      <4> QED BY <4>1, <4>2
    <3>6. y.todo[1] = todo[2]
      <4>1. PICK q : q = Tail(todo)
        OBVIOUS
      <4>2. q = y.todo
        BY <1>17, <4>1
      <4>3. Tail(todo) # <<>> => Tail(todo)[1] = todo[2]
        BY <1>14, TailParts
      <4> QED BY <2>2, <4>1, <4>2, <4>3
    <3> QED BY <3>4, <3>5, <3>6 DEF Name
  <2> QED BY <2>2, <2>3 DEF Name
<1> HIDE DEF x, y, old
<1>20. \A d \in Docs : Changes(y, d)
  <2> SUFFICES ASSUME NEW d \in Docs PROVE Changes(y, d)
    OBVIOUS
  <2>1. CASE d \in changes
    <3>1. Staged(y, "event", d) /\ Staged(y, "path", d) /\ (d \in new.live /\ BodyChanged(old, new, d) => Staged(y, "body", d))
      BY <1>12, <1>18, <2>1
    <3> QED BY <1>4, <1>17, <3>1 DEF Changes, BodyChanged
  <2>2. CASE d \notin changes
    <3>1. View(new, d) = View(old, d) /\ Spot(new, d) = Spot(old, d) /\ (d \in new.live => ~BodyChanged(old, new, d))
      BY <1>7, <2>2
    <3> QED BY <1>4, <1>17, <3>1 DEF Changes, BodyChanged
  <2> QED BY <2>1, <2>2
<1>21. Own(y)
  BY <1>4, <1>17, <1>19 DEF Own, Texting
<1>22. Foreseen(y)
  BY <1>4, <1>7, <1>17, <1>18, <1>20, <1>21 DEF Foreseen, Texting
<1>23. ~Committed(y) /\ ~Committed(x)
  BY <1>3, <1>19 DEF Committed, Recording, History
<1>24. Fulfilled(disk', y)
  BY <1>4, <1>17, <1>19, <1>23 DEF Fulfilled, Texting, Recording
<1>25. Purges(disk', y)
  BY <1>4, <1>17 DEF Purges
<1>26. Seen(disk', past', y)
  BY <1>1, <1>6, <1>19 DEF Seen, Recording
<1>27. PlanInv(w)'
  BY <1>1, <1>5, <1>6, <1>22, <1>24, <1>25, <1>26 DEF PlanInv, y
<1>28. Thinks(w)
  BY <1>1, <1>4, <1>17, <1>23 DEF Thinks, Uncommitted, x, y
<1>29. Reconstructs(w)
  BY <1>1, <1>3, <1>4, <1>8, <1>17 DEF Reconstructs, x, y, old
<1> QED BY <1>27, <1>28, <1>29

-----------------------------------------------------------------------------
(* Whose step it is.                                                       *)

\* A slot at work changes no other and keeps its request until it is done.
Frames(s) ==
    /\ \A t \in Slots \ {s} : slot'[t] = slot[t]
    /\ slot'[s].req \in {slot[s].req, NoRequest}

LEMMA Framed ==
    ASSUME NEW Texts, NEW States, NEW w, OneWriter(w), FileInv(Texts, States, w), NEW s \in Slots,
           NEW y, slot' = [slot EXCEPT ![s] = y], y.req \in {slot[s].req, NoRequest}
    PROVE  Frames(s)
BY SlotNow DEF Frames

LEMMA AdvanceFrames ==
    ASSUME NEW Texts, NEW States, NEW w, OneWriter(w), FileInv(Texts, States, w), NEW s \in Slots,
           NEW c, SlotShaped(c), c.req = slot[s].req,
           \/ Advance(s, c)
           \/ \E name, content : Put(s, name, content, c)
    PROVE  Frames(s)
<1>1. CASE Advance(s, c)
  <2>1. PICK y : y = Onward(c)
    OBVIOUS
  <2>2. slot' = [slot EXCEPT ![s] = y] /\ y.req = slot[s].req
    BY <1>1, <2>1, OnwardIs DEF Advance, Onward
  <2> QED BY <2>2, Framed
<1>2. CASE \E name, content : Put(s, name, content, c)
  <2>1. PICK y : y = Wrote(c)
    OBVIOUS
  <2>2. slot' = [slot EXCEPT ![s] = y] /\ y.req = slot[s].req
    BY <1>2, <2>1, WroteIs DEF Put, Advance, Wrote, Onward
  <2> QED BY <2>2, Framed
<1> QED BY <1>1, <1>2

LEMMA WorkFrames ==
    ASSUME NEW Texts, NEW States, NEW w, OneWriter(w), FileInv(Texts, States, w), NEW s \in Slots, Work(s)
    PROVE  Frames(s)
<1> DEFINE x == slot[s]
<1>1. SlotShaped(x)
  BY SlotsAre DEF SlotOK
<1>2. \A c : SlotShaped(c) /\ c.req = x.req /\ (Advance(s, c) \/ \E name, content : Put(s, name, content, c)) => Frames(s)
  BY AdvanceFrames
<1>3. CASE Check(s) \/ Bind(s) \/ SaveCanonical(s) \/ KeepSnapshot(s) \/ SaveEvent(s) \/ SaveRevision(s)
           \/ SavePath(s) \/ SavePolicies(s) \/ Compact(s) \/ RollBack(s)
  <2>1. Advance(s, x) \/ \E name, content : Put(s, name, content, x)
    BY <1>3 DEF Check, Bind, SaveCanonical, KeepSnapshot, SaveEvent, SaveRevision, SavePath, SavePolicies,
                Compact, RollBack
  <2> QED BY <1>1, <1>2, <2>1
<1>4. CASE TakeNumber(s) \/ FindPolicy(s) \/ FindEntry(s) \/ ReadSince(s) \/ ReadDelta(s) \/ ReadChanged(s)
  <2>1. PICK c : Advance(s, c) /\ \/ \E n : c = [x EXCEPT !.number = n]
                                  \/ \E v : c = [x EXCEPT !.result = v]
                                  \/ \E v : c = [x EXCEPT !.todo = v]
                                  \/ \E v : c = [x EXCEPT !.snap = v]
                                  \/ \E n, v : c = [x EXCEPT !.number = n, !.todo = v]
    BY <1>4 DEF TakeNumber, FindPolicy, FindEntry, ReadSince, ReadDelta, ReadChanged
  <2>2. SlotShaped(c) /\ c.req = x.req
    BY <1>1, <2>1 DEF SlotShaped, Fields
  <2> QED BY <1>2, <2>1, <2>2
<1>5. CASE PlanCreate(s) \/ PlanDelete(s) \/ PlanMove(s) \/ PlanUpdate(s) \/ BeginRewind(s)
  <2>1. PICK c : Advance(s, c) /\ \E o, v, r : c = [x EXCEPT !.old = o, !.snap = v, !.result = r]
    <3>1. PICK kind, v, r : Plan(s, kind, v, r)
      <4>1. CASE PlanCreate(s)
        BY <4>1, Zenon DEF PlanCreate
      <4>2. CASE PlanDelete(s)
        BY <4>2, Zenon DEF PlanDelete
      <4>3. CASE PlanMove(s)
        BY <4>3, Zenon DEF PlanMove
      <4>4. CASE PlanUpdate(s) \/ BeginRewind(s)
        BY <4>4, Zenon DEF PlanUpdate, BeginRewind
      <4> QED BY <1>5, <4>1, <4>2, <4>3, <4>4
    <3>2. Advance(s, [x EXCEPT !.old = disk.snapshot, !.snap = v, !.result = r])
      BY <3>1 DEF Plan
    <3> QED BY <3>2, Zenon
  <2>2. SlotShaped(c) /\ c.req = x.req
    BY <1>1, <2>1 DEF SlotShaped, Fields
  <2> QED BY <1>2, <2>1, <2>2
<1>6. CASE Merge(s) \/ LoadRevision(s)
  <2>1. PICK c : Advance(s, c) /\ \E d, r, v : c = [x EXCEPT !.result = r, !.snap.bodies[d] = v]
    <3>1. CASE Merge(s)
      <4> DEFINE r == x.req
                 row == disk.canonical[r.doc]
                 state == IF row # NoState THEN row ELSE Checkpoint(Shown(x.snap.bodies[r.doc]))
                 result == Converged(r.edit, state)
                 d == r.doc
                 text == result.state.text
      <4>1. Advance(s, [x EXCEPT !.result = result, !.snap.bodies[d] = text])
        BY <3>1 DEF Merge
      <4> HIDE DEF result, text, d
      <4> QED BY <4>1, Zenon
    <3>2. CASE LoadRevision(s)
      <4> DEFINE d == x.req.doc
                 row == CHOOSE k \in ToSet(disk.bodyRevs) : k.doc = d /\ k.seq = x.req.target
                 text == row.own
                 state == IF row.replayed.text = row.own THEN row.replayed ELSE Checkpoint(row.own)
                 result == [own |-> row.own, state |-> state, onto |-> NoState]
      <4>1. Advance(s, [x EXCEPT !.result = result, !.snap.bodies[d] = text])
        BY <3>2 DEF LoadRevision
      <4> HIDE DEF result, text, d
      <4> QED BY <4>1, Zenon
    <3> QED BY <1>6, <3>1, <3>2
  <2>2. SlotShaped(c) /\ c.req = x.req
    BY <1>1, <2>1 DEF SlotShaped, Fields
  <2> QED BY <1>2, <2>1, <2>2
<1>7. CASE PlanRestore(s) \/ PlanRewind(s)
  <2>1. PICK c : Advance(s, c) /\ \/ \E o, v, q : c = [x EXCEPT !.old = o, !.snap = v, !.todo = q]
                                  \/ \E v, q : c = [x EXCEPT !.snap = v, !.todo = q]
    <3>1. CASE PlanRestore(s)
      <4> DEFINE r == x.req
                 o == disk.snapshot
                 v == [disk.snapshot EXCEPT !.path[r.doc] = r.path, !.live = @ \cup {r.doc}]
                 q == IF Placing(r, disk.snapshot) THEN x.todo ELSE Front(x.todo)
      <4>1. Advance(s, [x EXCEPT !.old = o, !.snap = v, !.todo = q])
        BY <3>1 DEF PlanRestore
      <4> HIDE DEF o, v, q
      <4> QED BY <4>1, Zenon
    <3>2. CASE PlanRewind(s)
      <4> DEFINE old == slot[s].old
                 new == Rewound(old, slot[s].copy, disk.bodyRevs, slot[s].req.target)
                 stages == FlattenSeq([i \in 1..Cardinality(Changed(old, new)) |->
                                         StagesOfChange(old, new, NthOf(Changed(old, new), i))])
      <4>1. Advance(s, [x EXCEPT !.snap = new, !.todo = @ \o stages])
        BY <3>2 DEF PlanRewind
      <4> HIDE DEF new, stages
      <4>2. [x EXCEPT !.snap = new, !.todo = @ \o stages] = [x EXCEPT !.snap = new, !.todo = x.todo \o stages]
        BY <1>1 DEF SlotShaped, Fields
      <4> QED BY <4>1, <4>2
    <3> QED BY <1>7, <3>1, <3>2
  <2>2. SlotShaped(c) /\ c.req = x.req
    BY <1>1, <2>1 DEF SlotShaped, Fields
  <2> QED BY <1>2, <2>1, <2>2
<1>8. CASE Erase(s)
  <2> DEFINE rows == slot[s].copy
             new == [i \in DOMAIN rows |-> IF rows[i].doc = slot[s].req.doc THEN Erased(rows[i]) ELSE rows[i]]
             c == [x EXCEPT !.result = rows]
  <2>1. Put(s, "erase", new, c)
    BY <1>8 DEF Erase
  <2> HIDE DEF new
  <2>2. SlotShaped(c) /\ c.req = x.req
    BY <1>1 DEF SlotShaped, Fields
  <2> HIDE DEF c
  <2> QED BY <1>2, <2>1, <2>2
<1>9. CASE Fetch(s)
  <2>1. PICK v, y : slot' = [slot EXCEPT ![s] = y] /\ y = [x EXCEPT !.copy = v]
    <3> DEFINE v == disk[FileOf[Head(slot[s].todo)[1]]]
    <3>1. slot' = [slot EXCEPT ![s].copy = v]
      BY <1>9 DEF Fetch
    <3> HIDE DEF v
    <3>2. slot' = [slot EXCEPT ![s] = [x EXCEPT !.copy = v]]
      BY <3>1
    <3> QED BY <3>2
  <2>2. y.req = x.req
    BY <1>1, <2>1 DEF SlotShaped, Fields
  <2> QED BY <2>1, <2>2, Framed
<1>10. CASE Refuse(s) \/ Answer(s)
  <2>1. slot' = [slot EXCEPT ![s] = Idle] /\ Idle.req = NoRequest
    BY <1>10 DEF Refuse, Answer, Idle
  <2> QED BY <2>1, Framed
<1>11. CASE Fail(s) \/ FailToWrite(s)
  <2> DEFINE undo == FailureStages(s)
             c == [x EXCEPT !.todo = undo, !.copy = Nothing]
             y == IF undo = <<>> THEN Idle ELSE c
  <2>1. slot' = [slot EXCEPT ![s] = y]
    BY <1>11 DEF Fail, FailToWrite, BreakOff
  <2> HIDE DEF undo
  <2>2. c.req = x.req
    BY <1>1 DEF SlotShaped, Fields
  <2>3. Idle.req = NoRequest
    BY DEF Idle
  <2> HIDE DEF c
  <2>4. y.req \in {x.req, NoRequest}
    BY <2>2, <2>3
  <2> HIDE DEF y
  <2> QED BY <2>1, <2>4, Framed
<1> QED BY <1>3, <1>4, <1>5, <1>6, <1>7, <1>8, <1>9, <1>10, <1>11 DEF Work

\* A slot that answers a client has come to one of three stages, ...
LEMMA ClientStages ==
    ASSUME NEW Texts, NEW States, NEW w, FileInv(Texts, States, w), NEW s \in Slots,
           s # w \/ slot[s].req.kind = "changes"
    PROVE  \A name : At(s, name) => name \in {"since", "delta", "changed"}
<1> SUFFICES ASSUME NEW name, At(s, name) PROVE name \in {"since", "delta", "changed"}
  OBVIOUS
<1>1. name = Name(slot[s]) /\ slot[s].todo # <<>> /\ (s # w => name \in {"since", "delta", "changed"})
  BY OnlyWriterWrites
<1>2. SlotOK(Texts, States, disk, slot[s])
  BY SlotsAre
<1>3. Name(slot[s]) \in NamesOf(slot[s].req.kind)
  BY <1>1, <1>2, SlotParts
<1> QED BY <1>1, <1>3 DEF NamesOf

\* ... and reads there, or is done.
LEMMA ClientWork ==
    ASSUME NEW s \in Slots, \A name : At(s, name) => name \in {"since", "delta", "changed"}, Work(s)
    PROVE  Fail(s) \/ Answer(s) \/ ReadSince(s) \/ ReadDelta(s) \/ ReadChanged(s)
<1>1. \A name : Reads(s, name) \/ Has(s, name) => At(s, name)
  BY DEF Reads, Has
<1>2. ~Check(s) /\ ~Fetch(s) /\ ~Bind(s) /\ ~SaveCanonical(s) /\ ~KeepSnapshot(s)
  BY <1>1 DEF Check, Fetch, Bind, SaveCanonical, KeepSnapshot, Copying
<1>3. ~Refuse(s)
  <2>1. Acceptable(s)
    BY <1>1 DEF Acceptable
  <2> QED BY <2>1 DEF Refuse
<1>4. ~FailToWrite(s)
  <2>1. \A f : ~Writing(s, f)
    BY <1>1 DEF Writing, Copying
  <2> QED BY <2>1 DEF FailToWrite
<1>5. ~PlanCreate(s) /\ ~PlanDelete(s) /\ ~PlanMove(s) /\ ~PlanUpdate(s) /\ ~BeginRewind(s)
  BY <1>1 DEF PlanCreate, PlanDelete, PlanMove, PlanUpdate, BeginRewind, Plan
<1>6. ~Merge(s) /\ ~PlanRestore(s) /\ ~LoadRevision(s) /\ ~PlanRewind(s)
  <2>1. ~Merge(s)
    BY <1>1 DEF Merge
  <2>a. ~Reads(s, "snapshot") /\ ~Reads(s, "revision") /\ ~Has(s, "history")
    BY <1>1
  <2>2. ~PlanRestore(s)
    BY <2>a, Zenon DEF PlanRestore
  <2>3. ~LoadRevision(s)
    BY <2>a, Zenon DEF LoadRevision
  <2>4. ~PlanRewind(s)
    BY <2>a, Zenon DEF PlanRewind
  <2> QED BY <2>1, <2>2, <2>3, <2>4
<1>7. ~TakeNumber(s) /\ ~SaveEvent(s) /\ ~SaveRevision(s) /\ ~SavePath(s) /\ ~SavePolicies(s)
  BY <1>1 DEF TakeNumber, SaveEvent, SaveRevision, SavePath, SavePolicies
<1>8. ~FindEntry(s) /\ ~FindPolicy(s) /\ ~Compact(s) /\ ~Erase(s) /\ ~RollBack(s)
  BY <1>1 DEF FindEntry, FindPolicy, Compact, Erase, RollBack
<1> QED BY <1>2, <1>3, <1>4, <1>5, <1>6, <1>7, <1>8 DEF Work

\* What an answer's reads find.
Stays == disk' = disk /\ past' = past /\ lost' = lost

Begins(s) ==
    LET y == slot'[s]
    IN  /\ y.req.kind = "changes" /\ y.todo = Stages("changes", y.req.doc) /\ y.snap = Nothing /\ y.req.target \in past
        /\ Stays

Sinces(s) ==
    LET x == slot[s]  y == slot'[s]  current == Number(disk["events"])
    IN  /\ x.todo # <<>> /\ Name(x) = "since" /\ x.req.kind = "changes" /\ disk["events"] # Torn
        /\ y.req = x.req /\ y.number = current /\ y.snap = x.snap /\ y.result = x.result
        /\ y.todo = IF current <= x.req.target.cursor THEN <<>> ELSE Tail(x.todo)
        /\ Stays

Deltas(s) ==
    LET x == slot[s]  y == slot'[s]
    IN  /\ x.todo # <<>> /\ Name(x) = "delta" /\ x.req.kind = "changes" /\ disk["snapshot"] # Torn
        /\ y.req = x.req /\ y.number = x.number /\ y.snap = disk["snapshot"] /\ y.todo = Tail(x.todo)
        /\ Stays

ChangedSince(events, c) == {e.doc : e \in {k \in ToSet(events) : k.seq > c}}

Tallies(s) ==
    LET x == slot[s]  y == slot'[s]
    IN  /\ x.todo # <<>> /\ Name(x) = "changed" /\ x.req.kind = "changes" /\ disk["events"] # Torn
        /\ y.req = x.req /\ y.number = x.number /\ y.snap = x.snap /\ y.todo = Tail(x.todo)
        /\ y.result = ChangedSince(disk["events"], x.req.target.cursor)
        /\ Stays

LEMMA ReaderParts ==
    ASSUME NEW Texts, NEW States, NEW w, FileInv(Texts, States, w), NEW s \in Slots,
           NEW name \in {"since", "delta", "changed"}, At(s, name)
    PROVE  /\ slot[s].todo # <<>> /\ Name(slot[s]) = name /\ slot[s].req.kind = "changes"
           /\ SlotShaped(slot[s]) /\ slot[s].todo \in Seq(Stage)
<1>1. name = Name(slot[s]) /\ slot[s].todo # <<>>
  BY OnlyWriterWrites
<1>2. SlotOK(Texts, States, disk, slot[s])
  BY SlotsAre
<1>3. Name(slot[s]) \in NamesOf(slot[s].req.kind) /\ slot[s].req.kind \in Kinds /\ slot[s].todo \in Seq(Stage)
  BY <1>1, <1>2, SlotParts
<1> QED BY <1>1, <1>2, <1>3 DEF SlotOK, NamesOf, Kinds, Recording, History, Purging

LEMMA SinceIs ==
    ASSUME NEW Texts, NEW States, NEW w, FileInv(Texts, States, w), NEW s \in Slots, ReadSince(s)
    PROVE  Sinces(s)
<1> DEFINE x == slot[s]
           current == Number(disk["events"])
           todo == IF current <= x.req.target.cursor THEN <<Head(x.todo)>> ELSE x.todo
           c == [x EXCEPT !.number = current, !.todo = todo]
<1>1. At(s, "since") /\ disk["events"] # Torn /\ Stays
  BY DEF ReadSince, Reads, FileOf, Stays
<1>2. /\ x.todo # <<>> /\ Name(x) = "since" /\ x.req.kind = "changes" /\ SlotShaped(x)
  BY <1>1, ReaderParts
<1>3. Advance(s, c)
  BY DEF ReadSince
<1>4. Tail(<<Head(x.todo)>>) = <<>>
  OBVIOUS
<1> HIDE DEF current
<1>5. SlotShaped(c) /\ c.req = x.req /\ c.number = current /\ c.todo = todo /\ c.snap = x.snap /\ c.result = x.result
  <2> HIDE DEF todo
  <2> QED BY <1>2 DEF SlotShaped, Fields
<1> HIDE DEF c
<1>6. Goes(c, slot'[s])
  BY <1>3, <1>5, Advanced
<1>7. Tail(todo) = IF current <= x.req.target.cursor THEN <<>> ELSE Tail(x.todo)
  BY <1>4
<1> HIDE DEF todo
<1> QED BY <1>1, <1>2, <1>5, <1>6, <1>7 DEF Goes, Sinces, current

LEMMA DeltaIs ==
    ASSUME NEW Texts, NEW States, NEW w, FileInv(Texts, States, w), NEW s \in Slots, ReadDelta(s)
    PROVE  Deltas(s)
<1> DEFINE x == slot[s]
           c == [x EXCEPT !.snap = disk["snapshot"]]
<1>1. At(s, "delta") /\ disk["snapshot"] # Torn /\ Stays
  BY DEF ReadDelta, Reads, FileOf, Stays
<1>2. /\ x.todo # <<>> /\ Name(x) = "delta" /\ x.req.kind = "changes" /\ SlotShaped(x)
  BY <1>1, ReaderParts
<1>3. Advance(s, c)
  BY DEF ReadDelta
<1>5. SlotShaped(c) /\ c.req = x.req /\ c.number = x.number /\ c.todo = x.todo /\ c.snap = disk["snapshot"]
  BY <1>2 DEF SlotShaped, Fields
<1> HIDE DEF c
<1>6. Goes(c, slot'[s])
  BY <1>3, <1>5, Advanced
<1> QED BY <1>1, <1>2, <1>5, <1>6 DEF Goes, Deltas

LEMMA TallyIs ==
    ASSUME NEW Texts, NEW States, NEW w, FileInv(Texts, States, w), NEW s \in Slots, ReadChanged(s)
    PROVE  Tallies(s)
<1> DEFINE x == slot[s]
           told == ChangedSince(disk["events"], x.req.target.cursor)
           c == [x EXCEPT !.result = told]
<1>1. At(s, "changed") /\ disk["events"] # Torn /\ Stays
  BY DEF ReadChanged, Reads, FileOf, Stays
<1>2. /\ x.todo # <<>> /\ Name(x) = "changed" /\ x.req.kind = "changes" /\ SlotShaped(x)
  BY <1>1, ReaderParts
<1>3. Advance(s, c)
  BY DEF ReadChanged, ChangedSince
<1> HIDE DEF told
<1>5. SlotShaped(c) /\ c.req = x.req /\ c.number = x.number /\ c.todo = x.todo /\ c.snap = x.snap /\ c.result = told
  BY <1>2 DEF SlotShaped, Fields
<1> HIDE DEF c
<1>6. Goes(c, slot'[s])
  BY <1>3, <1>5, Advanced
<1> QED BY <1>1, <1>2, <1>5, <1>6 DEF Goes, Tallies, told

-----------------------------------------------------------------------------
(* Beginning a request.                                                    *)

LEMMA StagesHold ==
    ASSUME NEW kind \in Plans
    PROVE  LET names == StagesOf(kind)
           IN  /\ \E i \in 1..Len(names) : names[i] = "keep"
               /\ kind # "rewind" => \E i \in 1..Len(names) : names[i] = "event"
               /\ kind \in Texting => \E i \in 1..Len(names) : names[i] = "body"
               /\ kind \in {"create", "delete", "move", "restore"} => \E i \in 1..Len(names) : names[i] = "path"
               /\ kind = "rewind" => \E i \in 1..Len(names) : names[i] = "history"
<1>1. CASE kind = "create"
  <2>1. PICK q : q = StagesOf(kind)
    OBVIOUS
  <2>2. Len(q) = 12 /\ q[5] = "keep" /\ q[7] = "event" /\ q[8] = "body" /\ q[12] = "path"
    BY <1>1, <2>1 DEF StagesOf
  <2>3. 5 \in 1..12 /\ 7 \in 1..12 /\ 8 \in 1..12 /\ 12 \in 1..12
    OBVIOUS
  <2> QED BY <1>1, <2>1, <2>2, <2>3
<1>2. CASE kind = "update"
  <2>1. PICK q : q = StagesOf(kind)
    OBVIOUS
  <2>2. Len(q) = 10 /\ q[4] = "keep" /\ q[6] = "event" /\ q[7] = "body"
    BY <1>2, <2>1 DEF StagesOf
  <2>3. 4 \in 1..10 /\ 6 \in 1..10 /\ 7 \in 1..10
    OBVIOUS
  <2> QED BY <1>2, <2>1, <2>2, <2>3
<1>3. CASE kind = "delete"
  <2>1. PICK q : q = StagesOf(kind)
    OBVIOUS
  <2>2. Len(q) = 6 /\ q[3] = "keep" /\ q[5] = "event" /\ q[6] = "path"
    BY <1>3, <2>1 DEF StagesOf
  <2>3. 3 \in 1..6 /\ 5 \in 1..6 /\ 6 \in 1..6
    OBVIOUS
  <2> QED BY <1>3, <2>1, <2>2, <2>3 DEF Texting
<1>4. CASE kind = "move"
  <2>1. PICK q : q = StagesOf(kind)
    OBVIOUS
  <2>2. Len(q) = 7 /\ q[4] = "keep" /\ q[6] = "event" /\ q[7] = "path"
    BY <1>4, <2>1 DEF StagesOf
  <2>3. 4 \in 1..7 /\ 6 \in 1..7 /\ 7 \in 1..7
    OBVIOUS
  <2> QED BY <1>4, <2>1, <2>2, <2>3 DEF Texting
<1>5. CASE kind = "restore"
  <2>1. PICK q : q = StagesOf(kind)
    OBVIOUS
  <2>2. Len(q) = 11 /\ q[4] = "keep" /\ q[6] = "event" /\ q[7] = "body" /\ q[11] = "path"
    BY <1>5, <2>1 DEF StagesOf
  <2>3. 4 \in 1..11 /\ 6 \in 1..11 /\ 7 \in 1..11 /\ 11 \in 1..11
    OBVIOUS
  <2> QED BY <1>5, <2>1, <2>2, <2>3
<1>6. CASE kind = "rewind"
  <2>1. PICK q : q = StagesOf(kind)
    OBVIOUS
  <2>2. Len(q) = 4 /\ q[3] = "history" /\ q[4] = "keep"
    BY <1>6, <2>1 DEF StagesOf
  <2>3. 3 \in 1..4 /\ 4 \in 1..4
    OBVIOUS
  <2> QED BY <1>6, <2>1, <2>2, <2>3 DEF Texting
<1> QED BY <1>1, <1>2, <1>3, <1>4, <1>5, <1>6 DEF Plans

LEMMA StagesAre ==
    ASSUME NEW kind \in Kinds, NEW doc
    PROVE  LET names == StagesOf(kind)  q == Stages(kind, doc)
           IN  Len(q) = Len(names) /\ \A i \in 1..Len(names) : q[i] = <<names[i], doc>>
<1> DEFINE names == StagesOf(kind)
           q == Stages(kind, doc)
<1>1. Listing(kind, names)
  BY StagesListed
<1>2. q = [i \in 1..Len(names) |-> <<names[i], doc>>] /\ Len(names) \in Nat \ {0}
  BY <1>1 DEF Stages, ForDoc, Listing
<1> HIDE DEF q, names
<1> QED BY <1>2 DEF q, names

LEMMA PurgeStages ==
    ASSUME NEW doc
    PROVE  LeftOfPurge(Stages("purge", doc)) /\ Stages("purge", doc)[1][1] = "erase"
<1>1. PICK q : q = StagesOf("purge")
  OBVIOUS
<1>2. Len(q) = 4 /\ q[1] = "erase" /\ q[2] = "locate" /\ q[3] = "number" /\ q[4] = "audit"
  BY <1>1 DEF StagesOf
<1>3. PICK p : p = Stages("purge", doc)
  OBVIOUS
<1>4. Len(p) = Len(q) /\ \A i \in 1..Len(q) : p[i] = <<q[i], doc>>
  BY <1>1, <1>3, StagesAre DEF Kinds
<1>5. 1 \in 1..4 /\ 2 \in 1..4 /\ 3 \in 1..4 /\ 4 \in 1..4
  OBVIOUS
<1>6. Len(p) = 4 /\ p[1][1] = "erase" /\ p[2][1] = "locate" /\ p[3][1] = "number" /\ p[4][1] = "audit"
  BY <1>2, <1>4, <1>5
<1> QED BY <1>3, <1>6 DEF LeftOfPurge

LEMMA AskIs ==
    ASSUME NEW Texts, NEW States, Closed(Texts, States), NEW w, OneWriter(w), FileInv(Texts, States, w),
           NEW s \in Slots, NEW kind \in Serves[s], NEW r \in Asked(kind), Ask(s, r)
    PROVE  /\ slot[s] = Idle /\ slot'[s].req = r /\ r.kind = kind /\ kind \in Kinds /\ Request(Texts, r)
           /\ slot'[s].todo = Stages(kind, r.doc) /\ slot'[s].snap = Nothing /\ Stays
           /\ kind = "changes" => r.target \in past
           /\ \A t \in Slots \ {s} : slot'[t] = slot[t]
<1> DEFINE q == Stages(r.kind, r.doc)
           y == [Idle EXCEPT !.req = r, !.todo = q]
<1>1. slot' = [slot EXCEPT ![s] = y] /\ slot[s] = Idle /\ Stays
  BY DEF Ask, Stays
<1>2. kind \in Kinds /\ given \subseteq Docs
  BY FilesAssumption DEF FileInv
<1>3. Request(Texts, r) /\ r.kind = kind
  BY <1>2, AskedIs
<1> HIDE DEF q
<1>4. y.req = r /\ y.todo = q /\ y.snap = Nothing
  BY DEF Idle
<1> HIDE DEF y
<1>5. slot'[s] = y /\ \A t \in Slots \ {s} : slot'[t] = slot[t]
  BY <1>1, SlotNow
<1>6. kind = "changes" => r.target \in past
  <2> SUFFICES ASSUME kind = "changes" PROVE r.target \in past
    OBVIOUS
  <2>1. Asked("changes") = {[kind |-> "changes", doc |-> 0, path |-> NoPath, edit |-> Nothing,
                             cursor |-> Current, target |-> v] : v \in past}
    BY DEF Asked
  <2> QED BY <2>1
<1> QED BY <1>1, <1>2, <1>3, <1>4, <1>5, <1>6 DEF q

LEMMA AskPlan ==
    ASSUME NEW Texts, NEW States, Closed(Texts, States), NEW w, OneWriter(w), FileInv(Texts, States, w),
           FileInv(Texts, States, w)', PlanInv(w), NEW kind \in Serves[w], NEW r \in Asked(kind), Ask(w, r)
    PROVE  PlanInv(w)' /\ Considers(w)
<1> DEFINE y == slot'[w]
           doc == r.doc
           q == Stages(kind, doc)
<1>1. /\ slot[w] = Idle /\ y.req = r /\ r.kind = kind /\ kind \in Kinds /\ Request(Texts, r)
      /\ y.todo = q /\ Stays
  BY AskIs DEF OneWriter
<1>2. q # <<>> /\ doc \in Nat /\ SlotOK(Texts, States, disk', y)
  BY <1>1, StagesFormed, SlotNext DEF Request
<1>3. /\ kind \in Plans => Name(y) \in {"check", "snapshot"}
      /\ kind = "purge" => Name(y) = "erase"
  BY <1>1, <1>2, StagesBegin DEF Name
<1>4. Idle.req.kind = "none" /\ Idle.todo = <<>>
  BY IdleOK
<1> HIDE DEF y, doc, q
<1>5. Considers(w)
  <2>1. Uncommitted(slot[w])
    BY <1>1, <1>4 DEF Uncommitted, Committed, Plans
  <2>2. Uncommitted(y) /\ (kind = "rewind" => Name(y) # "keep")
    BY <1>1, <1>2, <1>3 DEF Uncommitted, Committed, Recording, History, Plans
  <2> QED BY <1>1, <2>1, <2>2 DEF Considers, Thinks, Stays, y
<1>6. PlanInv(w)'
  <2>1. CASE kind \notin Plans \cup {"purge"}
    <3>1. \A f \in Files : Spared(f)
      BY <1>1 DEF Spared, Stays
    <3> QED BY <1>1, <2>1, <3>1, EndPlan DEF y, Stays
  <2>2. CASE kind = "purge"
    <3>1. Foreseen(y) /\ Fulfilled(disk', y)
      BY <1>1, <1>3, <2>2 DEF Foreseen, Fulfilled, Committed, Plans, Texting, History
    <3>2. Purges(disk', y)
      BY <1>1, <1>3, <2>2, PurgeStages DEF Purges, q
    <3>3. Seen(disk', past', y)
      BY <1>1, <1>3, <2>2 DEF PlanInv, Seen, Stays, History
    <3> QED BY <1>1, <3>1, <3>2, <3>3 DEF PlanInv, Stays, y
  <2>3. CASE kind \in Plans
    <3>1. Name(y) \in {"check", "snapshot"}
      BY <1>3, <2>3
    <3>2. PICK names : names = StagesOf(kind)
      OBVIOUS
    <3>3. Len(q) = Len(names) /\ \A i \in 1..Len(names) : q[i] = <<names[i], doc>>
      BY <1>1, <3>2, StagesAre DEF q
    <3>4. /\ \E i \in 1..Len(names) : names[i] = "keep"
          /\ kind # "rewind" => \E i \in 1..Len(names) : names[i] = "event"
          /\ kind \in Texting => \E i \in 1..Len(names) : names[i] = "body"
          /\ kind \in {"create", "delete", "move", "restore"} => \E i \in 1..Len(names) : names[i] = "path"
          /\ kind = "rewind" => \E i \in 1..Len(names) : names[i] = "history"
      BY <2>3, <3>2, StagesHold
    <3>5. \A name : (\E i \in 1..Len(names) : names[i] = name) => StagedIn(q, name, doc)
      BY <3>3 DEF StagedIn
    <3>6. HasKeep(q)
      <4>1. PICK i \in 1..Len(names) : names[i] = "keep"
        BY <3>4
      <4> QED BY <3>3, <4>1 DEF HasKeep
    <3>7. Own(y)
      BY <1>1, <3>4, <3>5 DEF Own, Staged, doc
    <3>8. Foreseen(y)
      BY <1>1, <3>1, <3>6, <3>7 DEF Foreseen
    <3>9. Fulfilled(disk', y)
      BY <1>1, <1>2, <3>1 DEF Fulfilled, Committed, Recording, History
    <3>10. Purges(disk', y)
      BY <1>1, <2>3 DEF Purges, Plans
    <3>11. Seen(disk', past', y)
      BY <1>1, <3>1 DEF PlanInv, Seen, Stays, History
    <3> QED BY <1>1, <3>8, <3>9, <3>10, <3>11 DEF PlanInv, Stays, y
  <2> QED BY <2>1, <2>2, <2>3
<1> QED BY <1>5, <1>6

LEMMA RefusePlan ==
    ASSUME NEW Texts, NEW States, NEW w, OneWriter(w), FileInv(Texts, States, w),
           FileInv(Texts, States, w)', PlanInv(w), Refuse(w)
    PROVE  PlanInv(w)' /\ Considers(w)
<1> DEFINE x == slot[w]
<1>1. slot' = [slot EXCEPT ![w] = Idle] /\ Stays /\ ~Acceptable(w)
  BY DEF Refuse, Stays
<1>2. slot'[w] = Idle /\ Idle.req.kind = "none" /\ Idle.todo = <<>>
  BY <1>1, SlotNow, IdleOK DEF OneWriter
<1>3. x.todo # <<>> /\ Name(x) \in {"check", "mount", "snapshot", "revision", "bind", "erase"}
  <2>1. \E name \in {"check", "mount", "snapshot", "revision", "bind", "erase"} : At(w, name)
    BY <1>1 DEF Acceptable, Has
  <2> QED BY <2>1, StageParts
<1>4. Name(x) \in NamesOf(x.req.kind)
  BY <1>3, StageParts, SlotParts
<1>5. Uncommitted(x)
  BY <1>3, <1>4 DEF Uncommitted, Committed, Recording, History, NamesOf, Purging
<1>6. Uncommitted(Idle)
  BY <1>2 DEF Uncommitted, Committed, Plans
<1>7. \A f \in Files : Spared(f)
  BY <1>1 DEF Spared, Stays
<1>8. PlanInv(w)'
  BY <1>1, <1>2, <1>7, EndPlan DEF Plans, Stays
<1> QED BY <1>1, <1>2, <1>5, <1>6, <1>8 DEF Considers, Thinks, Stays

-----------------------------------------------------------------------------
(* Every step.                                                             *)

\* A slot other than w that holds no request is idle.
Clients(w) == \A s \in Slots \ {w} : slot[s].req.kind = "none" => slot[s] = Idle

\* What has come of the request w works on, ...
Did(w) ==
    \/ Passes(w) \/ (Reaches(w) /\ Thins(w)) \/ Keeps(w) \/ Counts(w) \/ Announces(w) \/ Retains(w) \/ Places(w)
    \/ Clears(w) \/ TakesBack(w) \/ Stops(w) \/ Undoes(w) \/ Answers(w)
    \/ Considers(w) \/ (Thinks(w) /\ Reconstructs(w)) \/ Elsewhere(w)

\* ... and of an answer.
Served(s) ==
    \/ slot'[s] = slot[s] \/ slot'[s].req.kind # "changes"
    \/ Begins(s) \/ Sinces(s) \/ Deltas(s) \/ Tallies(s)

LEMMA OtherWork ==
    ASSUME NEW Texts, NEW States, NEW w, OneWriter(w), FileInv(Texts, States, w), Clients(w), NEW s \in Slots \ {w}, Work(s)
    PROVE  /\ Elsewhere(w) /\ Clients(w)' /\ Served(s)
<1> DEFINE x == slot[s]
           y == slot'[s]
<1>1. Frames(s)
  BY WorkFrames
<1>2. slot'[w] = slot[w] /\ \A t \in Slots \ {w, s} : slot'[t] = slot[t]
  BY <1>1 DEF Frames, OneWriter
<1>3. \A name : At(s, name) => name \in {"since", "delta", "changed"}
  BY ClientStages
<1>4. Fail(s) \/ Answer(s) \/ ReadSince(s) \/ ReadDelta(s) \/ ReadChanged(s)
  BY <1>3, ClientWork
<1>5. Idle.req.kind = "none"
  BY IdleOK
<1>6. CASE Fail(s)
  <2>1. FailureStages(s) = <<>>
    BY <1>3 DEF FailureStages
  <2>2. disk' = disk /\ past' = past /\ lost \subseteq lost' /\ slot' = [slot EXCEPT ![s] = Idle]
    BY <1>6, <2>1 DEF Fail, BreakOff
  <2>3. y = Idle
    BY <2>2, SlotNow
  <2> QED BY <1>2, <1>5, <2>2, <2>3 DEF Elsewhere, Clients, Served
<1>7. CASE Answer(s)
  <2>1. slot' = [slot EXCEPT ![s] = Idle] /\ x # Idle /\ disk' = disk /\ lost' = lost
        /\ (x.req.kind = "changes" => past' = past)
    BY <1>7 DEF Answer
  <2>2. x.req.kind = "changes"
    BY <2>1, SlotsAre DEF Clients
  <2>3. y = Idle
    BY <2>1, SlotNow
  <2> QED BY <1>2, <1>5, <2>1, <2>2, <2>3 DEF Elsewhere, Clients, Served
<1>8. CASE ReadSince(s) \/ ReadDelta(s) \/ ReadChanged(s)
  <2>1. Sinces(s) \/ Deltas(s) \/ Tallies(s)
    BY <1>8, SinceIs, DeltaIs, TallyIs
  <2>2. Stays /\ y.req = x.req /\ x.req.kind = "changes"
    BY <2>1 DEF Sinces, Deltas, Tallies
  <2> QED BY <1>2, <2>1, <2>2 DEF Elsewhere, Clients, Served, Stays
<1> QED BY <1>4, <1>6, <1>7, <1>8

LEMMA WriterWork ==
    ASSUME NEW Texts, NEW States, Closed(Texts, States), NEW w, OneWriter(w), FileInv(Texts, States, w),
           FileInv(Texts, States, w)', PlanInv(w), Work(w)
    PROVE  /\ PlanInv(w)' /\ Did(w) /\ Served(w)
<1> DEFINE x == slot[w]
           y == slot'[w]
<1>a. w \in Slots
  BY DEF OneWriter
<1>1. Served(w)
  <2>1. CASE x.req.kind = "changes"
    <3>1. \A name : At(w, name) => name \in {"since", "delta", "changed"}
      BY <1>a, <2>1, ClientStages
    <3>2. Fail(w) \/ Answer(w) \/ ReadSince(w) \/ ReadDelta(w) \/ ReadChanged(w)
      BY <1>a, <3>1, ClientWork
    <3>3. CASE Fail(w)
      <4>1. FailureStages(w) = <<>>
        BY <3>1 DEF FailureStages
      <4>2. slot' = [slot EXCEPT ![w] = Idle]
        BY <3>3, <4>1 DEF Fail, BreakOff
      <4> QED BY <1>a, <4>2, SlotNow, IdleOK DEF Served
    <3>4. CASE Answer(w)
      <4>1. slot' = [slot EXCEPT ![w] = Idle]
        BY <3>4 DEF Answer
      <4> QED BY <1>a, <4>1, SlotNow, IdleOK DEF Served
    <3> QED BY <1>a, <3>2, <3>3, <3>4, SinceIs, DeltaIs, TallyIs DEF Served
  <2>2. CASE x.req.kind # "changes"
    <3>1. y.req \in {x.req, NoRequest}
      BY <1>a, WorkFrames DEF Frames
    <3>2. NoRequest.kind = "none"
      BY DEF NoRequest
    <3> QED BY <2>2, <3>1, <3>2 DEF Served
  <2> QED BY <2>1, <2>2
<1>2. CASE Check(w) \/ Fetch(w) \/ FindPolicy(w) \/ FindEntry(w) \/ Bind(w) \/ SavePolicies(w) \/ SaveCanonical(w)
  <2>1. Passes(w)
    BY <1>2, CheckPasses, FetchPasses, WritePasses, FindEntryPasses
  <2> QED BY <1>1, <2>1, ReachesPlan DEF Did, Passes
<1>3. CASE Refuse(w) \/ PlanCreate(w) \/ PlanDelete(w) \/ PlanMove(w) \/ PlanUpdate(w) \/ BeginRewind(w) \/ PlanRestore(w)
  <2>1. PlanInv(w)' /\ Considers(w)
    BY <1>3, RefusePlan, CreatePlan, DeletePlan, MovePlan, UpdatePlan, RestorePlan
  <2> QED BY <1>1, <2>1 DEF Did
<1>4. CASE Merge(w) \/ LoadRevision(w)
  <2>1. PlanInv(w)' /\ Considers(w)
    BY <1>4, MergePlan, RevisionPlan
  <2> QED BY <1>1, <2>1 DEF Did
<1>5. CASE PlanRewind(w)
  <2>1. PlanInv(w)' /\ Thinks(w) /\ Reconstructs(w)
    BY <1>5, RewindPlan
  <2> QED BY <1>1, <2>1 DEF Did
<1>6. CASE Fail(w) \/ FailToWrite(w)
  <2>1. Stops(w) \/ Undoes(w)
    BY <1>6, FailIs
  <2>2. PlanInv(w)'
    BY <2>1, StopPlan, UndoPlan
  <2> QED BY <1>1, <2>1, <2>2 DEF Did
<1>7. CASE Answer(w)
  <2>1. Answers(w)
    BY <1>7, AnswerIs
  <2>2. PlanInv(w)'
    BY <2>1, AnswerPlan
  <2> QED BY <1>1, <2>1, <2>2 DEF Did
<1>8. CASE KeepSnapshot(w) \/ TakeNumber(w) \/ SaveEvent(w)
  <2>1. Keeps(w) \/ Counts(w) \/ Announces(w)
    BY <1>8, KeepIs, NumberIsTaken, EventIsSaved
  <2>2. PlanInv(w)'
    BY <2>1, KeepPlan, NumberPlan, EventPlan
  <2> QED BY <1>1, <2>1, <2>2 DEF Did
<1>9. CASE SaveRevision(w) \/ SavePath(w)
  <2>1. Retains(w) \/ Places(w)
    BY <1>9, RevisionIsSaved, PathIsSaved
  <2>2. PlanInv(w)'
    BY <2>1, RowPlan
  <2> QED BY <1>1, <2>1, <2>2 DEF Did
<1>10. CASE Compact(w)
  <2>1. Reaches(w) /\ Thins(w)
    BY <1>10, CompactReaches
  <2>2. PlanInv(w)'
    BY <2>1, ReachesPlan
  <2> QED BY <1>1, <2>1, <2>2 DEF Did
<1>11. CASE Erase(w) \/ RollBack(w)
  <2>1. Clears(w) \/ TakesBack(w)
    BY <1>11, EraseIs, RollBackIs
  <2>2. PlanInv(w)'
    BY <2>1, ClearPlan, TakeBackPlan
  <2> QED BY <1>1, <2>1, <2>2 DEF Did
<1>12. CASE ReadSince(w) \/ ReadDelta(w) \/ ReadChanged(w)
  <2>1. Sinces(w) \/ Deltas(w) \/ Tallies(w)
    BY <1>a, <1>12, SinceIs, DeltaIs, TallyIs
  <2>2. Stays /\ y.req = x.req /\ x.req.kind = "changes"
    BY <2>1 DEF Sinces, Deltas, Tallies
  <2>3. Considers(w)
    BY <2>2 DEF Considers, Thinks, Uncommitted, Committed, Plans, Stays
  <2>4. \A f \in Files : Spared(f)
    BY <2>2 DEF Spared, Stays
  <2>5. PlanInv(w)'
    BY <2>2, <2>4, EndPlan DEF Plans, Stays
  <2> QED BY <1>1, <2>3, <2>5 DEF Did
<1> QED BY <1>2, <1>3, <1>4, <1>5, <1>6, <1>7, <1>8, <1>9, <1>10, <1>11, <1>12 DEF Work

LEMMA NextPlan ==
    ASSUME NEW Texts, NEW States, Closed(Texts, States), NEW w, OneWriter(w), FileInv(Texts, States, w),
           FileInv(Texts, States, w)', PlanInv(w), Clients(w), [Next]_vars
    PROVE  /\ PlanInv(w)' /\ Clients(w)' /\ Did(w) /\ \A s \in Slots : Served(s)
<1>a. w \in Slots
  BY DEF OneWriter
<1>b. Idle.req.kind = "none"
  BY IdleOK
<1>1. ASSUME NEW s \in Slots, Work(s)
      PROVE  PlanInv(w)' /\ Clients(w)' /\ Did(w) /\ \A t \in Slots : Served(t)
  <2>1. \A t \in Slots \ {s} : slot'[t] = slot[t]
    BY <1>1, WorkFrames DEF Frames
  <2>2. \A t \in Slots \ {s} : Served(t)
    BY <2>1 DEF Served
  <2>3. CASE s = w
    <3>1. PlanInv(w)' /\ Did(w) /\ Served(w)
      BY <1>1, <2>3, WriterWork
    <3>2. Clients(w)'
      BY <2>1, <2>3 DEF Clients
    <3> QED BY <2>2, <2>3, <3>1, <3>2
  <2>4. CASE s # w
    <3>1. Elsewhere(w) /\ Clients(w)' /\ Served(s)
      BY <1>1, <2>4, OtherWork
    <3> QED BY <2>2, <3>1, ElsewherePlan DEF Did
  <2> QED BY <2>3, <2>4
<1>2. ASSUME NEW s \in Slots, NEW kind \in Serves[s], NEW r \in Asked(kind), Ask(s, r)
      PROVE  PlanInv(w)' /\ Clients(w)' /\ Did(w) /\ \A t \in Slots : Served(t)
  <2>1. /\ slot'[s].req = r /\ r.kind = kind /\ kind \in Kinds /\ Stays
        /\ slot'[s].todo = Stages(kind, r.doc) /\ slot'[s].snap = Nothing
        /\ kind = "changes" => r.target \in past
        /\ \A t \in Slots \ {s} : slot'[t] = slot[t]
    BY <1>2, AskIs
  <2>2. Served(s)
    BY <2>1 DEF Served, Begins
  <2>3. \A t \in Slots : Served(t)
    BY <2>1, <2>2 DEF Served
  <2>4. CASE s = w
    <3>1. PlanInv(w)' /\ Considers(w)
      BY <1>2, <2>4, AskPlan
    <3>2. Clients(w)'
      BY <2>1, <2>4 DEF Clients
    <3> QED BY <2>3, <3>1, <3>2 DEF Did
  <2>5. CASE s # w
    <3>1. Elsewhere(w)
      BY <1>a, <2>1, <2>5 DEF Elsewhere, Stays
    <3>2. Clients(w)'
      BY <2>1, <2>5 DEF Clients, Kinds
    <3> QED BY <2>3, <3>1, <3>2, ElsewherePlan DEF Did
  <2> QED BY <2>4, <2>5
<1>3. ASSUME NEW torn, Crash(torn)
      PROVE  PlanInv(w)' /\ Clients(w)' /\ Did(w) /\ \A t \in Slots : Served(t)
  <2>1. slot' = [s \in Slots |-> Idle]
    BY <1>3 DEF Crash
  <2>2. Stops(w)
    BY <1>3, CrashIs
  <2> QED BY <1>b, <2>1, <2>2, StopPlan DEF Clients, Served, Did
<1>4. CASE UNCHANGED vars
  <2>1. Elsewhere(w) /\ Clients(w)' /\ \A t \in Slots : Served(t)
    BY <1>4 DEF vars, Elsewhere, Clients, Served
  <2> QED BY <2>1, ElsewherePlan DEF Did
<1> QED BY <1>1, <1>2, <1>3, <1>4 DEF Next

LEMMA PlanInit ==
    ASSUME NEW w, OneWriter(w), Init
    PROVE  PlanInv(w) /\ Clients(w)
<1>1. slot = [s \in Slots |-> Idle] /\ w \in Slots
  BY DEF Init, OneWriter
<1>2. slot[w] = Idle /\ Idle.todo = <<>> /\ Idle.req.kind = "none"
  BY <1>1, IdleOK
<1>3. Foreseen(Idle) /\ Fulfilled(disk, Idle) /\ Purges(disk, Idle)
  BY <1>2 DEF Foreseen, Fulfilled, Purges, Committed, Plans
<1>4. /\ disk["snapshot"] = [path |-> [d \in Docs |-> NoPath], live |-> {}, bodies |-> [d \in Docs |-> NoBody]]
      /\ disk["events"] = <<>>
      /\ past = {[cursor |-> 0, snap |-> disk["snapshot"], lost |-> {}]}
  BY DEF Init
<1>5. Bare(disk["snapshot"])
  BY <1>4 DEF Bare
<1>6. Seen(disk, past, Idle)
  <2>1. Number(disk["events"]) = 0
    BY <1>4 DEF Number
  <2>2. \A v \in past : v.cursor = 0 /\ v.snap = disk["snapshot"]
    BY <1>4
  <2> QED BY <1>2, <1>5, <2>1, <2>2 DEF Seen
<1> QED BY <1>1, <1>2, <1>3, <1>5, <1>6 DEF PlanInv, Clients

-----------------------------------------------------------------------------
(* Rows that are still to be written.                                      *)

Opens(w, name, d) == Open(lost, slot[w], name, d) => Open(lost', slot'[w], name, d)

\* The row that a step writes is open no more, ...
Closes(w, name, d) ==
    /\ slot[w].todo # <<>> /\ slot[w].todo[1] = <<name, d>>
    /\ \/ name = "event" /\ Announces(w)
       \/ name = "body" /\ Retains(w)
       \/ name = "path" /\ Places(w)

LEMMA RecordOpens ==
    ASSUME NEW Texts, NEW States, NEW w, OneWriter(w), FileInv(Texts, States, w),
           slot[w].todo # <<>>, Name(slot[w]) \in Recording \cup {"audit"},
           slot'[w].req = slot[w].req, slot'[w].todo = Tail(slot[w].todo),
           NEW name \in {"event", "body", "path"}, NEW d, slot[w].todo[1] # <<name, d>>,
           <<name, d>> \in lost => <<name, d>> \in lost'
    PROVE  Opens(w, name, d)
<1> DEFINE x == slot[w]
           y == slot'[w]
           q == Tail(x.todo)
<1>1. SlotOK(Texts, States, disk, x) /\ x.todo \in Seq(Stage) /\ Name(x) \in NamesOf(x.req.kind)
  BY StageParts, SlotParts
<1>2. x.req.kind \in Plans => Name(x) \in Recording
  BY <1>1 DEF NamesOf, Plans, Recording, History
<1>3. x.req.kind \in Plans /\ q # <<>> => q[1][1] \in Recording
  BY <1>1, <1>2, RecordsNext
<1>4. StagedIn(x.todo, name, d) => StagedIn(q, name, d)
  BY <1>1, TailStaged
<1> HIDE DEF q
<1>5. Committed(x) => Committed(y)
  BY <1>3 DEF Committed, Name, q
<1>6. Staged(x, name, d) => Staged(y, name, d)
  BY <1>4 DEF Staged, q
<1> QED BY <1>5, <1>6 DEF Opens, Open

LEMMA BrokenOpen ==
    ASSUME NEW Texts, NEW States, NEW w, OneWriter(w), FileInv(Texts, States, w), PlanInv(w),
           NEW name \in {"event", "body", "path"}, NEW d, Committed(slot[w]), Staged(slot[w], name, d)
    PROVE  <<name, d>> \in Broken(w)
<1> DEFINE x == slot[w]
<1>1. PICK i \in 1..Len(x.todo) : x.todo[i] = <<name, d>>
  BY DEF Staged, StagedIn
<1>2. x.todo # <<>>
  <2>1. PICK q : q = x.todo
    OBVIOUS
  <2>2. Len(<<>>) = 0
    OBVIOUS
  <2>3. q # <<>>
    BY <1>1, <2>1, <2>2
  <2> QED BY <2>1, <2>3
<1>3. Name(x) \in Recording /\ x.wrote
  BY <1>2 DEF Committed, PlanInv, Fulfilled
<1>4. Formed(x.req.kind, x.req.doc, x.todo) /\ Len(x.todo) \in Nat /\ Len(x.todo) > 0 /\ x.todo \in Seq(Stage)
  BY <1>2, StageParts, SlotParts DEF SlotOK
<1>5. ASSUME NEW j \in 1..Len(x.todo) PROVE x.todo[j][1] # "keep"
  <2>1. CASE j = 1
    BY <1>3, <2>1 DEF Recording, History, Name
  <2>2. CASE j # 1
    <3>1. 1 \in 1..Len(x.todo) /\ 1 < j
      BY <1>4, <2>2
    <3>2. x.todo[j][1] \in Recording \cup {"audit"}
      BY <1>3, <1>4, <3>1 DEF Formed, Name
    <3> QED BY <3>2 DEF Recording, History
  <2> QED BY <2>1, <2>2
<1>6. ToSet(x.todo) = {x.todo[j] : j \in 1..Len(x.todo)}
  BY <1>4 DEF ToSet
<1>7. ~\E e \in ToSet(x.todo) : e[1] = "keep"
  BY <1>5, <1>6
<1>8. <<name, d>> \in ToSet(x.todo) /\ name \in Recorded
  BY <1>1, <1>6 DEF Recorded
<1> QED BY <1>3, <1>7, <1>8 DEF Broken

\* ... and the others stay open.
LEMMA StepOpens ==
    ASSUME NEW Texts, NEW States, NEW w, OneWriter(w), FileInv(Texts, States, w), PlanInv(w), Did(w),
           NEW name \in {"event", "body", "path"}, NEW d
    PROVE  Opens(w, name, d) \/ Closes(w, name, d)
<1> DEFINE x == slot[w]
           y == slot'[w]
<1>1. CASE Reaches(w)
  <2>1. x.todo # <<>> /\ y.req = x.req /\ Follows(x.req.kind, x.todo, y.todo) /\ SameBut(lost, lost', "canonical")
    BY <1>1 DEF Reaches, Held
  <2>2. Committed(x) => Committed(y)
    BY <2>1 DEF Follows, Committed, Name
  <2>3. Staged(x, name, d) => Staged(y, name, d)
    BY <2>1 DEF Follows, Staged, Passing
  <2>4. <<name, d>> \in lost => <<name, d>> \in lost'
    BY <2>1 DEF SameBut
  <2> QED BY <2>2, <2>3, <2>4 DEF Opens, Open
<1>2. CASE Keeps(w)
  <2>1. ~Committed(x) /\ lost \subseteq lost'
    BY <1>2 DEF Keeps, Committed, Recording, History
  <2> QED BY <2>1 DEF Opens, Open
<1>3. CASE Counts(w)
  <2>1. /\ x.todo # <<>> /\ Name(x) = "number" /\ y.req = x.req /\ y.todo = Tail(x.todo) /\ lost' = lost
    BY <1>3 DEF Counts
  <2>2. x.todo[1] # <<name, d>> /\ Name(x) \in Recording
    BY <2>1 DEF Name, Recording
  <2> QED BY <2>1, <2>2, RecordOpens
<1>4. CASE Announces(w) \/ Retains(w) \/ Places(w)
  <2>1. /\ x.todo # <<>> /\ y.req = x.req /\ y.todo = Tail(x.todo)
        /\ Name(x) \in Recording \cup {"audit"}
    BY <1>4 DEF Announces, Retains, Places, Goes, Recording, History
  <2>2. \A e : e \in lost => e \in lost' \/ e = <<Name(x), x.todo[1][2]>>
    BY <1>4 DEF Announces, Retains, Places
  <2>3. x.todo[1] = <<Name(x), x.todo[1][2]>>
    <3>1. x.todo[1] \in Stage
      BY <2>1, StageParts, SlotParts
    <3> QED BY <3>1 DEF Stage, Name
  <2>4. CASE x.todo[1] # <<name, d>>
    <3>1. <<name, d>> \in lost => <<name, d>> \in lost'
      BY <2>2, <2>3, <2>4
    <3> QED BY <2>1, <2>4, <3>1, RecordOpens
  <2>5. CASE x.todo[1] = <<name, d>>
    <3>1. Name(x) = name
      BY <2>5 DEF Name
    <3>2. \/ name = "event" /\ Announces(w)
          \/ name = "body" /\ Retains(w)
          \/ name = "path" /\ Places(w)
      <4>1. Announces(w) => Name(x) \in {"event", "audit"}
        BY DEF Announces
      <4>2. Retains(w) => Name(x) = "body"
        BY DEF Retains
      <4>3. Places(w) => Name(x) = "path"
        BY DEF Places
      <4>4. Announces(w) => name = "event"
        BY <3>1, <4>1
      <4>5. Retains(w) => name = "body"
        BY <3>1, <4>2, Zenon
      <4>6. Places(w) => name = "path"
        BY <3>1, <4>3, Zenon
      <4> QED BY <1>4, <4>4, <4>5, <4>6, Zenon
    <3> QED BY <2>1, <2>5, <3>2 DEF Closes
  <2> QED BY <2>4, <2>5
<1>5. CASE Clears(w) \/ TakesBack(w) \/ Undoes(w)
  <2>1. x.req.kind = "purge" /\ lost' = lost
    BY <1>5 DEF Clears, TakesBack, Undoes
  <2> QED BY <2>1 DEF Opens, Open, Committed, Plans
<1>6. CASE Stops(w)
  <2>1. lost \cup Broken(w) \subseteq lost'
    BY <1>6 DEF Stops
  <2>2. Committed(x) /\ Staged(x, name, d) => <<name, d>> \in Broken(w)
    BY BrokenOpen
  <2> QED BY <2>1, <2>2 DEF Opens, Open
<1>7. CASE Answers(w)
  <2>1. x.todo = <<>> /\ lost' = lost
    BY <1>7 DEF Answers
  <2>2. ~StagedIn(<<>>, name, d)
    <3>1. Len(<<>>) = 0
      OBVIOUS
    <3> QED BY <3>1 DEF StagedIn
  <2>3. ~Staged(x, name, d)
    BY <2>1, <2>2 DEF Staged
  <2> QED BY <2>1, <2>3 DEF Opens, Open
<1>8. CASE Thinks(w)
  BY <1>8 DEF Thinks, Uncommitted, Opens, Open
<1>9. CASE Elsewhere(w)
  BY <1>9 DEF Elsewhere, Opens, Open
<1> QED BY <1>1, <1>2, <1>3, <1>4, <1>5, <1>6, <1>7, <1>8, <1>9 DEF Did, Passes, Considers

-----------------------------------------------------------------------------
(* What a client that asks for changes has got.                            *)

\* What d shows, unless a change after c tells or is still to tell of another.
Unmissed(files, gone, x, snap, c, d) ==
    \/ Open(gone, x, "event", d)
    \/ \E i \in DOMAIN files["events"] : files["events"][i].doc = d /\ files["events"][i].seq > c
    \/ View(files["snapshot"], d) = View(snap, d)

LeftToRead(todo) ==
    \/ todo = <<>>
    \/ todo[1][1] = "changed" /\ Len(todo) = 1
    \/ todo[1][1] = "delta" /\ Len(todo) = 2 /\ todo[2][1] = "changed"
    \/ todo[1][1] = "since" /\ Len(todo) = 3 /\ todo[2][1] = "delta" /\ todo[3][1] = "changed"

\* What an answer shows of d once its last file is read.
Told(y, d) == IF y.snap # Nothing /\ d \in y.result THEN y.snap ELSE y.req.target.snap

Answering(files, gone, seen, x, y) ==
    y.req.kind = "changes" =>
      /\ LeftToRead(y.todo) /\ y.req.target \in seen
      /\ y.todo # <<>> /\ Name(y) \in {"since", "delta"} => y.snap = Nothing
      /\ files["events"] # Torn /\ (y.todo = <<>> \/ Name(y) # "since") => y.number <= Number(files["events"])
      /\ files["events"] # Torn /\ files["snapshot"] # Torn =>
           \A d \in Docs :
             /\ y.todo # <<>> /\ Name(y) = "changed" =>
                  y.snap # Nothing /\ Unmissed(files, gone, x, y.snap, y.number, d)
             /\ y.todo = <<>> => Unmissed(files, gone, x, Told(y, d), y.number, d)

ChangesInv(w) ==
    /\ disk["events"] # Torn /\ disk["snapshot"] # Torn =>
         \A v \in past : \A d \in Docs : Unmissed(disk, lost, slot[w], v.snap, v.cursor, d)
    /\ \A s \in Slots : Answering(disk, lost, past, slot[w], slot[s])

-----------------------------------------------------------------------------
(* Files keep what they tell.                                              *)

\* Each file has one kind of step that writes it.
LEMMA FilesMoved ==
    ASSUME NEW w, Did(w)
    PROVE  /\ Announces(w) \/ Spared("events")
           /\ Keeps(w) \/ Spared("snapshot")
           /\ Places(w) \/ Spared("paths")
           /\ Retains(w) \/ (Reaches(w) /\ Thins(w)) \/ Clears(w) \/ TakesBack(w) \/ Spared("bodyRevs")
<1> DEFINE P == /\ Announces(w) \/ Spared("events")
                /\ Keeps(w) \/ Spared("snapshot")
                /\ Places(w) \/ Spared("paths")
                /\ Retains(w) \/ (Reaches(w) /\ Thins(w)) \/ Clears(w) \/ TakesBack(w) \/ Spared("bodyRevs")
<1>1. "events" \in Files /\ "snapshot" \in Files /\ "paths" \in Files /\ "bodyRevs" \in Files
  BY DEF Files
<1>2. ASSUME NEW f \in Files, disk'[f] = disk[f] PROVE Spared(f)
  BY <1>2 DEF Spared
<1>3. CASE Reaches(w)
  <2>1. /\ disk'["events"] = disk["events"] /\ disk'["snapshot"] = disk["snapshot"]
        /\ disk'["paths"] = disk["paths"]
    BY <1>3 DEF Reaches, Recorders
  <2>2. CASE Passes(w)
    <3>1. disk'["bodyRevs"] = disk["bodyRevs"]
      BY <2>2 DEF Passes
    <3> QED BY <1>1, <1>2, <2>1, <3>1
  <2>3. CASE Thins(w)
    BY <1>1, <1>2, <1>3, <2>1, <2>3
  <2>4. CASE ~Passes(w) /\ ~Thins(w)
    <3>1. \A f \in Files : disk'[f] = disk[f] \/ Keeps(w) \/ Announces(w) \/ Retains(w) \/ Places(w)
                           \/ Clears(w) \/ TakesBack(w) \/ Spared(f)
      BY <2>4 DEF Did, Counts, Stops, Undoes, Answers, Considers, Thinks, Elsewhere
    <3>2. disk'["bodyRevs"] = disk["bodyRevs"] \/ Retains(w) \/ Clears(w) \/ TakesBack(w) \/ Spared("bodyRevs")
      BY <1>1, <3>1 DEF Keeps, Announces, Places, Writes, Files
    <3> QED BY <1>1, <1>2, <2>1, <3>2
  <2> QED BY <2>2, <2>3, <2>4
<1>4. CASE Keeps(w)
  <2>1. \A f \in Files \ {"snapshot"} : disk'[f] = disk[f]
    BY <1>4 DEF Keeps, Writes
  <2> QED BY <1>1, <1>2, <1>4, <2>1
<1>5. CASE Announces(w)
  <2>1. \A f \in Files \ {"events"} : disk'[f] = disk[f]
    BY <1>5 DEF Announces, Writes
  <2> QED BY <1>1, <1>2, <1>5, <2>1
<1>6. CASE Retains(w) \/ Clears(w) \/ TakesBack(w)
  <2>1. \A f \in Files \ {"bodyRevs"} : disk'[f] = disk[f]
    BY <1>6 DEF Retains, Clears, TakesBack, Writes
  <2> QED BY <1>1, <1>2, <1>6, <2>1
<1>7. CASE Places(w)
  <2>1. \A f \in Files \ {"paths"} : disk'[f] = disk[f]
    BY <1>7 DEF Places, Writes
  <2> QED BY <1>1, <1>2, <1>7, <2>1
<1>8. CASE Stops(w) \/ Undoes(w)
  BY <1>1, <1>8 DEF Stops, Undoes
<1>9. CASE Counts(w) \/ Answers(w) \/ Considers(w) \/ Thinks(w) \/ Elsewhere(w)
  <2>1. disk' = disk
    BY <1>9 DEF Counts, Answers, Considers, Thinks, Elsewhere
  <2> QED BY <1>1, <1>2, <2>1
<1> QED BY <1>3, <1>4, <1>5, <1>6, <1>7, <1>8, <1>9 DEF Did, Passes

LEMMA EventsGrow ==
    ASSUME NEW Texts, NEW States, NEW w, OneWriter(w), FileInv(Texts, States, w), FileInv(Texts, States, w)',
           PlanInv(w), Did(w), disk'["events"] # Torn
    PROVE  /\ disk["events"] # Torn /\ disk["events"] \in Seq(Event) /\ disk'["events"] \in Seq(Event)
           /\ Number(disk["events"]) \in Nat /\ Number(disk'["events"]) \in Nat
           /\ Number(disk["events"]) <= Number(disk'["events"])
           /\ \A i \in DOMAIN disk["events"] :
                 i \in DOMAIN disk'["events"] /\ disk'["events"][i] = disk["events"][i]
<1>1. disk["events"] # Torn
  BY FilesMoved DEF Spared, Announces
<1>2. disk["events"] \in Seq(Event) /\ disk'["events"] \in Seq(Event)
  BY <1>1 DEF FileInv, DiskOK, Files, Shaped
<1>3. Number(disk["events"]) \in Nat /\ Number(disk'["events"]) \in Nat
  BY <1>2, NumberIs
<1>4. CASE Spared("events")
  BY <1>1, <1>2, <1>3, <1>4 DEF Spared
<1>5. CASE Announces(w)
  <2>1. Number(disk'["events"]) = Number(disk["events"]) + 1
    BY <1>5, EventPlan
  <2>2. PICK e : disk'["events"] = Append(disk["events"], e)
    BY <1>5 DEF Announces, Writes
  <2>3. PICK p : p = disk["events"]
    OBVIOUS
  <2>4. PICK q : q = disk'["events"]
    OBVIOUS
  <2>5. \A i \in DOMAIN p : i \in DOMAIN q /\ q[i] = p[i]
    BY <1>2, <2>2, <2>3, <2>4
  <2> QED BY <1>1, <1>2, <1>3, <2>1, <2>3, <2>4, <2>5
<1> QED BY <1>4, <1>5, FilesMoved

\* Whatever a client misses is told or still to be told after the step too.
LEMMA UnmissedStays ==
    ASSUME NEW Texts, NEW States, NEW w, OneWriter(w), FileInv(Texts, States, w), FileInv(Texts, States, w)',
           PlanInv(w), Did(w), disk'["events"] # Torn, disk'["snapshot"] # Torn,
           NEW snap, NEW c \in Nat, c <= Number(disk["events"]), NEW d \in Docs,
           disk["snapshot"] # Torn => Unmissed(disk, lost, slot[w], snap, c, d)
    PROVE  disk["snapshot"] # Torn /\ Unmissed(disk', lost', slot'[w], snap, c, d)
<1> DEFINE x == slot[w]
           y == slot'[w]
<1>1. /\ disk["events"] # Torn /\ Number(disk["events"]) \in Nat
      /\ \A i \in DOMAIN disk["events"] : i \in DOMAIN disk'["events"] /\ disk'["events"][i] = disk["events"][i]
  BY EventsGrow
<1>2. CASE Keeps(w)
  <2>1. /\ x.todo # <<>> /\ Name(x) = "keep" /\ x.req.kind \in Plans /\ disk'["snapshot"] = x.snap
        /\ y.todo = Tail(x.todo)
    BY <1>2 DEF Keeps, Writes, Goes
  <2>2. Committed(y)
    BY <1>2, KeepPlan
  <2>3. SlotOK(Texts, States, disk, x)
    BY StageParts
  <2>4. disk["snapshot"] # Torn /\ x.old = disk["snapshot"]
    BY <2>1, <2>3 DEF SlotOK, Due, Kept, Planning
  <2>5. Changes(x, d)
    BY <2>1 DEF PlanInv, Foreseen, Planning
  <2>6. Staged(x, "event", d) => Staged(y, "event", d)
    <3>1. x.todo \in Seq(Stage)
      BY <2>1, <2>3, SlotParts
    <3>2. \A name, e : name # x.todo[1][1] => (StagedIn(x.todo, name, e) <=> StagedIn(Tail(x.todo), name, e))
      BY <2>1, <3>1, TailStaged
    <3>3. "event" # x.todo[1][1]
      BY <2>1 DEF Name
    <3> QED BY <2>1, <3>2, <3>3 DEF Staged
  <2>7. Opens(w, "event", d)
    <3>1. ~Announces(w)
      BY <2>1 DEF Announces
    <3> QED BY <3>1, StepOpens DEF Closes
  <2>8. Unmissed(disk, lost, x, snap, c, d)
    BY <2>4
  <2>9. CASE Open(lost, x, "event", d)
    BY <2>4, <2>7, <2>9 DEF Opens, Unmissed
  <2>10. CASE \E i \in DOMAIN disk["events"] : disk["events"][i].doc = d /\ disk["events"][i].seq > c
    BY <1>1, <2>4, <2>10 DEF Unmissed
  <2>11. CASE View(disk["snapshot"], d) = View(snap, d)
    <3>1. View(x.snap, d) # View(x.old, d) => Staged(y, "event", d)
      BY <2>5, <2>6 DEF Changes
    <3>2. View(x.snap, d) = View(x.old, d) => View(disk'["snapshot"], d) = View(snap, d)
      BY <2>1, <2>4, <2>11
    <3> QED BY <2>2, <2>4, <3>1, <3>2 DEF Unmissed, Open
  <2> QED BY <2>8, <2>9, <2>10, <2>11 DEF Unmissed
<1>3. CASE ~Keeps(w)
  <2>1. disk'["snapshot"] = disk["snapshot"]
    BY <1>3, FilesMoved DEF Spared
  <2>2. Unmissed(disk, lost, x, snap, c, d)
    BY <2>1
  <2>3. Opens(w, "event", d) \/ (Announces(w) /\ x.todo[1] = <<"event", d>>)
    BY StepOpens DEF Closes
  <2>4. CASE Opens(w, "event", d)
    BY <1>1, <2>1, <2>2, <2>4 DEF Opens, Unmissed
  <2>5. CASE Announces(w) /\ x.todo[1] = <<"event", d>>
    <3>1. PICK e : e = [seq |-> x.number, doc |-> x.todo[1][2], kind |-> x.req.kind]
      OBVIOUS
    <3>2. disk'["events"] = Append(disk["events"], e)
      BY <2>5, <3>1 DEF Announces, Writes
    <3>3. e.doc = d /\ e.seq = x.number
      BY <2>5, <3>1
    <3>4. x.number = Number(disk["events"]) + 1
      BY <2>5, EventPlan
    <3>5. e.seq > c
      BY <1>1, <3>3, <3>4
    <3>6. PICK p : p = disk["events"]
      OBVIOUS
    <3>7. PICK q : q = Append(p, e)
      OBVIOUS
    <3>8. p \in Seq(Event)
      BY <3>6, EventsGrow
    <3>9. Len(p) + 1 \in DOMAIN q /\ q[Len(p) + 1] = e
      BY <3>7, <3>8
    <3> QED BY <2>1, <2>2, <3>2, <3>3, <3>5, <3>6, <3>7, <3>9 DEF Unmissed
  <2> QED BY <2>3, <2>4, <2>5
<1> QED BY <1>2, <1>3

LEMMA PastGrows ==
    ASSUME NEW w, Did(w)
    PROVE  \/ past' = past
           \/ /\ Answers(w) /\ disk["events"] # Torn /\ disk["snapshot"] # Torn
              /\ past' = past \cup {[cursor |-> Current, snap |-> disk["snapshot"], lost |-> lost]}
BY DEF Did, Passes, Reaches, Keeps, Counts, Announces, Retains, Places, Clears, TakesBack, Stops, Undoes, Answers,
       Considers, Thinks, Elsewhere

LEMMA PastUnmissed ==
    ASSUME NEW Texts, NEW States, NEW w, OneWriter(w), FileInv(Texts, States, w), FileInv(Texts, States, w)',
           PlanInv(w), Did(w), ChangesInv(w), disk'["events"] # Torn, disk'["snapshot"] # Torn,
           NEW v \in past', NEW d \in Docs
    PROVE  Unmissed(disk', lost', slot'[w], v.snap, v.cursor, d)
<1>1. CASE v \in past
  <2>1. disk["events"] # Torn
    BY EventsGrow
  <2>2. v.cursor \in Nat /\ v.cursor <= Number(disk["events"])
    BY <1>1, <2>1 DEF PlanInv, Seen
  <2>3. disk["snapshot"] # Torn => Unmissed(disk, lost, slot[w], v.snap, v.cursor, d)
    BY <1>1, <2>1 DEF ChangesInv
  <2> QED BY <2>2, <2>3, UnmissedStays
<1>2. CASE v \notin past
  <2>1. v = [cursor |-> Current, snap |-> disk["snapshot"], lost |-> lost] /\ disk' = disk
    BY <1>2, PastGrows DEF Answers
  <2> QED BY <2>1 DEF Unmissed
<1> QED BY <1>1, <1>2

LEMMA ReadsOn ==
    ASSUME NEW q \in Seq(Stage), LeftToRead(q), q # <<>>
    PROVE  /\ LeftToRead(Tail(q))
           /\ q[1][1] = "since" => Tail(q) # <<>> /\ Tail(q)[1][1] = "delta"
           /\ q[1][1] = "delta" => Tail(q) # <<>> /\ Tail(q)[1][1] = "changed"
           /\ q[1][1] = "changed" => Tail(q) = <<>>
<1>1. PICK p : p = Tail(q)
  OBVIOUS
<1>2. /\ p \in Seq(Stage) /\ Len(q) \in Nat /\ Len(p) = Len(q) - 1
      /\ \A i \in 1..(Len(q) - 1) : p[i] = q[i + 1]
  BY <1>1, TailParts
<1>3. Len(<<>>) = 0
  OBVIOUS
<1>4. CASE q[1][1] = "changed" /\ Len(q) = 1
  <2>1. p = <<>>
    BY <1>2, <1>4
  <2> QED BY <1>1, <1>4, <2>1 DEF LeftToRead
<1>5. CASE q[1][1] = "delta" /\ Len(q) = 2 /\ q[2][1] = "changed"
  <2>1. 1 \in 1..(2 - 1) /\ 1 + 1 = 2
    OBVIOUS
  <2>2. Len(p) = 1 /\ p[1] = q[2]
    BY <1>2, <1>5, <2>1
  <2>3. p # <<>>
    <3>1. Len(p) # 0
      BY <2>2
    <3> QED BY <1>3, <3>1, Zenon
  <2> QED BY <1>1, <1>5, <2>2, <2>3 DEF LeftToRead
<1>6. CASE q[1][1] = "since" /\ Len(q) = 3 /\ q[2][1] = "delta" /\ q[3][1] = "changed"
  <2>1. 1 \in 1..(3 - 1) /\ 1 + 1 = 2 /\ 2 \in 1..(3 - 1) /\ 2 + 1 = 3
    OBVIOUS
  <2>2. Len(p) = 2 /\ p[1] = q[2] /\ p[2] = q[3]
    BY <1>2, <1>6, <2>1
  <2>3. p # <<>>
    <3>1. Len(p) # 0
      BY <2>2
    <3> QED BY <1>3, <3>1, Zenon
  <2> QED BY <1>1, <1>6, <2>2, <2>3 DEF LeftToRead
<1> QED BY <1>4, <1>5, <1>6 DEF LeftToRead

LEMMA ReadsFirst ==
    ASSUME NEW doc
    PROVE  LET q == Stages("changes", doc)
           IN  LeftToRead(q) /\ q # <<>> /\ q[1][1] = "since"
<1>1. PICK p : p = StagesOf("changes")
  OBVIOUS
<1>2. Len(p) = 3 /\ p[1] = "since" /\ p[2] = "delta" /\ p[3] = "changed"
  BY <1>1 DEF StagesOf
<1>3. PICK q : q = Stages("changes", doc)
  OBVIOUS
<1>4. Len(q) = Len(p) /\ \A i \in 1..Len(p) : q[i] = <<p[i], doc>>
  BY <1>1, <1>3, StagesAre DEF Kinds
<1>5. 1 \in 1..3 /\ 2 \in 1..3 /\ 3 \in 1..3 /\ Len(<<>>) = 0
  OBVIOUS
<1>6. Len(q) = 3 /\ q[1][1] = "since" /\ q[2][1] = "delta" /\ q[3][1] = "changed"
  BY <1>2, <1>4, <1>5
<1>7. q # <<>>
  BY <1>5, <1>6
<1> QED BY <1>3, <1>6, <1>7 DEF LeftToRead

\* An answer misses nothing before the step and nothing after it.
LEMMA AnsweringStays ==
    ASSUME NEW Texts, NEW States, ~Snapshot(Texts, Nothing), NEW w, OneWriter(w),
           FileInv(Texts, States, w), FileInv(Texts, States, w)', PlanInv(w), Did(w), ChangesInv(w),
           NEW s \in Slots, Served(s)
    PROVE  Answering(disk', lost', past', slot'[w], slot'[s])
<1> DEFINE x == slot[s]
           y == slot'[s]
<1> SUFFICES ASSUME y.req.kind = "changes"
             PROVE  Answering(disk', lost', past', slot'[w], y)
  BY DEF Answering
<1>1. SlotOK(Texts, States, disk, x) /\ x.number \in Nat
  BY SlotsAre DEF SlotOK
<1>2. Answering(disk, lost, past, slot[w], x)
  BY DEF ChangesInv
<1>3. past \subseteq past'
  BY PastGrows
<1>4. ASSUME disk'["events"] # Torn, x.number <= Number(disk["events"])
      PROVE  disk["events"] # Torn /\ x.number <= Number(disk'["events"])
  <2>1. /\ disk["events"] # Torn /\ Number(disk["events"]) \in Nat /\ Number(disk'["events"]) \in Nat
        /\ Number(disk["events"]) <= Number(disk'["events"])
    BY <1>4, EventsGrow
  <2> QED BY <1>1, <1>4, <2>1
<1>5. CASE y = x
  <2>1. x.req.kind = "changes"
    BY <1>5
  <2>2. LeftToRead(x.todo) /\ x.req.target \in past'
        /\ (x.todo # <<>> /\ Name(x) \in {"since", "delta"} => x.snap = Nothing)
    BY <1>2, <1>3, <2>1 DEF Answering
  <2>3. disk'["events"] # Torn => disk["events"] # Torn
    BY EventsGrow
  <2>4. disk'["events"] # Torn /\ (x.todo = <<>> \/ Name(x) # "since") =>
          x.number <= Number(disk["events"]) /\ x.number <= Number(disk'["events"])
    BY <1>2, <1>4, <2>1, <2>3 DEF Answering
  <2>5. ASSUME disk'["events"] # Torn, disk'["snapshot"] # Torn, NEW d \in Docs
        PROVE  /\ x.todo # <<>> /\ Name(x) = "changed" =>
                    x.snap # Nothing /\ Unmissed(disk', lost', slot'[w], x.snap, x.number, d)
               /\ x.todo = <<>> => Unmissed(disk', lost', slot'[w], Told(x, d), x.number, d)
    <3>1. CASE x.todo # <<>> /\ Name(x) = "changed"
      <4>1. x.number <= Number(disk["events"])
        BY <2>4, <2>5, <3>1
      <4>2. disk["snapshot"] # Torn => x.snap # Nothing /\ Unmissed(disk, lost, slot[w], x.snap, x.number, d)
        BY <1>2, <2>1, <2>3, <2>5, <3>1 DEF Answering
      <4>3. disk["snapshot"] # Torn /\ Unmissed(disk', lost', slot'[w], x.snap, x.number, d)
        BY <1>1, <2>5, <4>1, <4>2, UnmissedStays
      <4> QED BY <3>1, <4>2, <4>3
    <3>2. CASE x.todo = <<>>
      <4>1. x.number <= Number(disk["events"])
        BY <2>4, <2>5, <3>2
      <4>2. disk["snapshot"] # Torn => Unmissed(disk, lost, slot[w], Told(x, d), x.number, d)
        BY <1>2, <2>1, <2>3, <2>5, <3>2 DEF Answering
      <4>3. Unmissed(disk', lost', slot'[w], Told(x, d), x.number, d)
        BY <1>1, <2>5, <4>1, <4>2, UnmissedStays
      <4> QED BY <3>2, <4>3
    <3> QED BY <3>1, <3>2
  <2> QED BY <1>5, <2>2, <2>4, <2>5 DEF Answering
<1>6. CASE Begins(s)
  <2>1. LeftToRead(y.todo) /\ y.todo # <<>> /\ Name(y) = "since" /\ y.snap = Nothing /\ y.req.target \in past'
    BY <1>3, <1>6, ReadsFirst DEF Begins, Name
  <2> QED BY <2>1 DEF Answering
<1>7. CASE Sinces(s)
  <2> DEFINE current == Number(disk["events"])
             v == x.req.target
  <2>1. /\ x.todo # <<>> /\ Name(x) = "since" /\ x.req.kind = "changes" /\ disk["events"] # Torn
        /\ y.req = x.req /\ y.number = current /\ y.snap = x.snap
        /\ y.todo = IF current <= v.cursor THEN <<>> ELSE Tail(x.todo)
        /\ disk' = disk /\ past' = past /\ lost' = lost
    BY <1>7 DEF Sinces, Stays
  <2>2. LeftToRead(x.todo) /\ v \in past /\ x.snap = Nothing
    BY <1>2, <2>1 DEF Answering
  <2>3. current \in Nat /\ v.cursor \in Nat /\ v.cursor <= current
    <3>1. v.cursor \in Nat /\ v.cursor <= current
      BY <2>1, <2>2 DEF PlanInv, Seen
    <3> QED BY <2>1, <3>1, EventsGrow
  <2>4. CASE current <= v.cursor
    <3>1. y.todo = <<>> /\ v.cursor = current
      BY <2>1, <2>3, <2>4
    <3>2. ASSUME disk'["events"] # Torn, disk'["snapshot"] # Torn, NEW d \in Docs
          PROVE  Unmissed(disk', lost', slot'[w], Told(y, d), y.number, d)
      <4>1. Unmissed(disk', lost', slot'[w], v.snap, v.cursor, d)
        BY <2>1, <2>2, <3>2, PastUnmissed
      <4>2. Told(y, d) = v.snap
        BY <2>1, <2>2 DEF Told
      <4> QED BY <2>1, <3>1, <4>1, <4>2
    <3>3. disk'["events"] # Torn => y.number <= Number(disk'["events"])
      BY <2>1, <2>3
    <3>4. LeftToRead(y.todo)
      BY <3>1 DEF LeftToRead
    <3> QED BY <2>1, <2>2, <3>1, <3>2, <3>3, <3>4 DEF Answering
  <2>5. CASE ~(current <= v.cursor)
    <3>1. y.todo = Tail(x.todo)
      BY <2>1, <2>5
    <3>2. LeftToRead(y.todo) /\ y.todo # <<>> /\ Name(y) = "delta"
      <4>1. x.todo \in Seq(Stage)
        BY <1>1, <2>1, SlotParts
      <4> QED BY <2>1, <2>2, <3>1, <4>1, ReadsOn DEF Name
    <3>3. disk'["events"] # Torn => y.number <= Number(disk'["events"])
      BY <2>1, <2>3
    <3> QED BY <2>1, <2>2, <3>2, <3>3 DEF Answering
  <2> QED BY <2>4, <2>5
<1>8. CASE Deltas(s)
  <2>1. /\ x.todo # <<>> /\ Name(x) = "delta" /\ x.req.kind = "changes" /\ disk["snapshot"] # Torn
        /\ y.req = x.req /\ y.number = x.number /\ y.snap = disk["snapshot"] /\ y.todo = Tail(x.todo)
        /\ disk' = disk /\ past' = past /\ lost' = lost
    BY <1>8 DEF Deltas, Stays
  <2>2. LeftToRead(x.todo) /\ x.req.target \in past
        /\ (disk["events"] # Torn => x.number <= Number(disk["events"]))
    BY <1>2, <2>1 DEF Answering
  <2>3. LeftToRead(y.todo) /\ y.todo # <<>> /\ Name(y) = "changed"
    <3>1. x.todo \in Seq(Stage)
      BY <1>1, <2>1, SlotParts
    <3> QED BY <2>1, <2>2, <3>1, ReadsOn DEF Name
  <2>4. y.snap # Nothing
    <3>1. Snapshot(Texts, disk["snapshot"])
      BY <2>1 DEF FileInv, DiskOK, Files, Shaped
    <3> QED BY <2>1, <3>1
  <2>5. \A d \in Docs : Unmissed(disk', lost', slot'[w], y.snap, y.number, d)
    BY <2>1 DEF Unmissed
  <2> QED BY <2>1, <2>2, <2>3, <2>4, <2>5 DEF Answering
<1>9. CASE Tallies(s)
  <2> DEFINE v == x.req.target
  <2>1. /\ x.todo # <<>> /\ Name(x) = "changed" /\ x.req.kind = "changes" /\ disk["events"] # Torn
        /\ y.req = x.req /\ y.number = x.number /\ y.snap = x.snap /\ y.todo = Tail(x.todo)
        /\ y.result = ChangedSince(disk["events"], v.cursor)
        /\ disk' = disk /\ past' = past /\ lost' = lost
    BY <1>9 DEF Tallies, Stays
  <2>2. /\ LeftToRead(x.todo) /\ v \in past /\ x.number <= Number(disk["events"])
        /\ disk["snapshot"] # Torn => \A d \in Docs : x.snap # Nothing /\ Unmissed(disk, lost, slot[w], x.snap, x.number, d)
    BY <1>2, <2>1 DEF Answering
  <2>3. y.todo = <<>>
    <3>1. x.todo \in Seq(Stage)
      BY <1>1, <2>1, SlotParts
    <3> QED BY <2>1, <2>2, <3>1, ReadsOn DEF Name
  <2>4. ASSUME disk'["events"] # Torn, disk'["snapshot"] # Torn, NEW d \in Docs
        PROVE  Unmissed(disk', lost', slot'[w], Told(y, d), y.number, d)
    <3>1. x.snap # Nothing /\ Unmissed(disk, lost, slot[w], x.snap, x.number, d)
      BY <2>1, <2>2, <2>4
    <3>2. CASE d \in y.result
      <4>1. Unmissed(disk', lost', slot'[w], x.snap, x.number, d)
        BY <1>1, <2>2, <2>4, <3>1, UnmissedStays
      <4>2. Told(y, d) = x.snap
        BY <2>1, <3>1, <3>2 DEF Told
      <4> QED BY <2>1, <4>1, <4>2
    <3>3. CASE d \notin y.result
      <4>1. Unmissed(disk', lost', slot'[w], v.snap, v.cursor, d)
        BY <2>1, <2>2, <2>4, PastUnmissed
      <4>2. ~\E i \in DOMAIN disk["events"] : disk["events"][i].doc = d /\ disk["events"][i].seq > v.cursor
        BY <2>1, <3>3 DEF ChangedSince, ToSet
      <4>3. Told(y, d) = v.snap
        BY <2>1, <3>3 DEF Told
      <4> QED BY <2>1, <4>1, <4>2, <4>3 DEF Unmissed
    <3> QED BY <3>2, <3>3
  <2>5. LeftToRead(y.todo)
    BY <2>3 DEF LeftToRead
  <2>6. y.req.target \in past' /\ (disk'["events"] # Torn => y.number <= Number(disk'["events"]))
    BY <2>1, <2>2
  <2> QED BY <2>3, <2>4, <2>5, <2>6 DEF Answering
<1> QED BY <1>5, <1>6, <1>7, <1>8, <1>9 DEF Served

LEMMA ChangesStep ==
    ASSUME NEW Texts, NEW States, ~Snapshot(Texts, Nothing), Closed(Texts, States), NEW w, OneWriter(w),
           FileInv(Texts, States, w), FileInv(Texts, States, w)', PlanInv(w), Clients(w), ChangesInv(w), [Next]_vars
    PROVE  ChangesInv(w)'
<1>1. Did(w) /\ \A s \in Slots : Served(s)
  BY NextPlan
<1>2. \A s \in Slots : Answering(disk', lost', past', slot'[w], slot'[s])
  BY <1>1, AnsweringStays
<1>3. disk'["events"] # Torn /\ disk'["snapshot"] # Torn =>
        \A v \in past' : \A d \in Docs : Unmissed(disk', lost', slot'[w], v.snap, v.cursor, d)
  BY <1>1, PastUnmissed
<1> QED BY <1>2, <1>3 DEF ChangesInv

LEMMA ChangesInit ==
    ASSUME NEW w, OneWriter(w), Init
    PROVE  ChangesInv(w)
<1>1. past = {[cursor |-> 0, snap |-> disk["snapshot"], lost |-> {}]} /\ slot = [s \in Slots |-> Idle]
  BY DEF Init
<1>2. \A v \in past : v.snap = disk["snapshot"]
  BY <1>1
<1>3. \A s \in Slots : Answering(disk, lost, past, slot[w], slot[s])
  BY <1>1, IdleOK DEF Answering
<1> QED BY <1>2, <1>3 DEF ChangesInv, Unmissed

LEMMA PlansAlways ==
    ASSUME NEW Texts, NEW States, Closed(Texts, States), NEW w, OneWriter(w)
    PROVE  Spec => [](FileInv(Texts, States, w) /\ PlanInv(w) /\ Clients(w))
<1>1. Init => PlanInv(w) /\ Clients(w)
  BY PlanInit
<1>2. FileInv(Texts, States, w) /\ FileInv(Texts, States, w)' /\ PlanInv(w) /\ Clients(w) /\ [Next]_vars =>
        PlanInv(w)' /\ Clients(w)'
  BY NextPlan
<1>3. Spec => []FileInv(Texts, States, w)
  BY FileInvAlways
<1> QED BY <1>1, <1>2, <1>3, PTL DEF Spec

\* One slot writes and any number of others answer clients, the server may be
\* killed and files cut short at any time: a client that applies an answer to
\* the snapshot it has misses no change that is not numbered above the answer's
\* cursor, being written, or broken off before its event (file_changes_since
\* and file_workspace_delta, file_store.rs, which read the cursor first).
THEOREM AnswersStayComplete ==
    ASSUME NEW Texts, NEW States, Closed(Texts, States), ~Snapshot(Texts, Nothing), NEW w, OneWriter(w)
    PROVE  Spec => []ChangesComplete
<1>1. ChangesInv(w) => ChangesComplete
  <2> SUFFICES ASSUME ChangesInv(w), NEW s \in Slots, slot[s].req.kind = "changes", slot[s].todo = <<>>,
                      disk["snapshot"] # Torn, disk["events"] # Torn, NEW d \in Docs
               PROVE  \/ <<"event", d>> \in lost
                      \/ \E t \in Writers : \E e \in ToSet(slot[t].todo) : e[2] = d
                      \/ \E e \in ToSet(disk["events"]) : e.doc = d /\ e.seq > slot[s].number
                      \/ View(disk["snapshot"], d) =
                           IF slot[s].snap # Nothing /\ d \in slot[s].result THEN View(slot[s].snap, d)
                           ELSE View(slot[s].req.target.snap, d)
    BY DEF ChangesComplete, Whole
  <2> DEFINE y == slot[s]
  <2>1. Unmissed(disk, lost, slot[w], Told(y, d), y.number, d)
    BY DEF ChangesInv, Answering
  <2>2. CASE Open(lost, slot[w], "event", d)
    <3>1. CASE Staged(slot[w], "event", d) /\ Committed(slot[w])
      <4>1. PICK i \in 1..Len(slot[w].todo) : slot[w].todo[i] = <<"event", d>>
        BY <3>1 DEF Staged, StagedIn
      <4>2. slot[w].req.kind \notin {"none", "changes"}
        BY <3>1 DEF Committed, Plans
      <4>3. w \in Writers
        BY <4>2, IdleOK DEF Writers, OneWriter
      <4>4. <<"event", d>> \in ToSet(slot[w].todo)
        BY <4>1 DEF ToSet
      <4> QED BY <4>3, <4>4
    <3> QED BY <2>2, <3>1 DEF Open
  <2>3. CASE \E i \in DOMAIN disk["events"] : disk["events"][i].doc = d /\ disk["events"][i].seq > y.number
    BY <2>3 DEF ToSet
  <2>4. CASE View(disk["snapshot"], d) = View(Told(y, d), d)
    BY <2>4 DEF Told
  <2> QED BY <2>1, <2>2, <2>3, <2>4 DEF Unmissed
<1>2. Init => ChangesInv(w)
  BY ChangesInit
<1>3. FileInv(Texts, States, w) /\ FileInv(Texts, States, w)' /\ PlanInv(w) /\ Clients(w) /\ ChangesInv(w)
      /\ [Next]_vars => ChangesInv(w)'
  BY ChangesStep
<1>4. Spec => [](FileInv(Texts, States, w) /\ PlanInv(w) /\ Clients(w))
  BY PlansAlways
<1> QED BY <1>1, <1>2, <1>3, <1>4, PTL DEF Spec

-----------------------------------------------------------------------------
(* What the history shows.                                                 *)

Blanked(gone, d) == {<<"audit", d>>, <<"rollback", d>>} \cap gone # {}

\* The retained rows, as they would be if a purge at work were taken back.
InPurge(x) == x.req.kind = "purge" /\ x.todo # <<>> /\ Name(x) # "erase"
RowsNow(files, x) == IF InPurge(x) THEN x.result ELSE files["bodyRevs"]
Readable(files, x) == InPurge(x) \/ files["bodyRevs"] # Torn

Effaced(rows, events, gone, d, c) ==
    \/ Blanked(gone, d)
    \/ \E i \in DOMAIN events : /\ events[i].kind = "purge" /\ events[i].doc = d
                                /\ \A r \in BodyAt(rows, d, c) : r.seq < events[i].seq

Tells(rows, events, gone, d, c, body) ==
    Shown(HistoryText(rows, d, c)) = Shown(body) \/ Effaced(rows, events, gone, d, c)

Present(files, gone, x) ==
    files["snapshot"] # Torn /\ files["events"] # Torn =>
      \A d \in Docs :
         /\ files["paths"] # Torn =>
              Open(gone, x, "path", d)
              \/ HistoryPath(files["paths"], d, Number(files["events"])) = Spot(files["snapshot"], d)
         /\ Readable(files, x) /\ d \in files["snapshot"].live =>
              \/ Open(gone, x, "body", d)
              \/ Tells(RowsNow(files, x), files["events"], gone, d, Number(files["events"]),
                       files["snapshot"].bodies[d])

Remembered(files, gone, seen, x) ==
    \A v \in seen : \A d \in Docs :
       /\ files["paths"] # Torn /\ <<"path", d>> \notin v.lost =>
            HistoryPath(files["paths"], d, v.cursor) = Spot(v.snap, d)
       /\ files["events"] # Torn /\ Readable(files, x) /\ d \in v.snap.live /\ <<"body", d>> \notin v.lost =>
            Tells(RowsNow(files, x), files["events"], gone, d, v.cursor, v.snap.bodies[d])

\* A rewind keeps the snapshot of its target.
Rewinding(files, gone, seen, x) ==
    x.req.kind = "rewind" /\ (Committed(x) \/ Name(x) = "keep") =>
      \A v \in seen : \A d \in Docs :
         v.cursor = x.req.target /\ files["events"] # Torn /\ files["bodyRevs"] # Torn /\ <<"path", d>> \notin v.lost =>
           /\ d \in x.snap.live <=> d \in v.snap.live
           /\ d \in v.snap.live => x.snap.path[d] = v.snap.path[d]
           /\ <<"body", d>> \notin v.lost =>
                \/ Shown(x.snap.bodies[d]) = Shown(v.snap.bodies[d])
                \/ Effaced(files["bodyRevs"], files["events"], gone, d, v.cursor)

HistoryInv(w) ==
    /\ Present(disk, lost, slot[w]) /\ Remembered(disk, lost, past, slot[w])
    /\ Rewinding(disk, lost, past, slot[w])

\* No compaction drops a row.
ThinsNothing ==
    \A s \in Slots : Has(s, "compact") =>
       Len(Compacted(slot[s].copy, Doc(s), slot[s].result)) = Len(slot[s].copy)


-----------------------------------------------------------------------------
(* What rows tell at a cursor.                                             *)

\* The rows up to two cursors tell the same of d.
SameAt(rows, c, rows2, c2, d) ==
    /\ Upto(rows2, d, c2) = Upto(rows, d, c)
    /\ \A k \in Upto(rows, d, c) :
          rows2[k].seq = rows[k].seq /\ rows2[k].replayed.text = rows[k].replayed.text

\* ... and are the same rows.
Unmoved(rows, c, rows2, c2, d) ==
    Upto(rows2, d, c2) = Upto(rows, d, c) /\ \A k \in Upto(rows, d, c) : rows2[k] = rows[k]

LastOf(S) == {k \in S : \A j \in S : j <= k}

LEMMA BodyAtIs ==
    ASSUME NEW rows, NEW d, NEW c
    PROVE  BodyAt(rows, d, c) = {rows[k] : k \in LastOf(Upto(rows, d, c))}
BY DEF BodyAt, LastOf

LEMMA LastIsOne ==
    ASSUME NEW S, S \subseteq Nat, NEW m \in LastOf(S)
    PROVE  LastOf(S) = {m}
<1>1. \A k \in LastOf(S) : k <= m /\ m <= k /\ k \in Nat /\ m \in Nat
  BY DEF LastOf
<1>2. \A k \in LastOf(S) : k = m
  <2> SUFFICES ASSUME NEW k \in LastOf(S) PROVE k = m
    OBVIOUS
  <2>1. k <= m /\ m <= k /\ k \in Nat /\ m \in Nat
    BY <1>1
  <2> QED BY <2>1
<1> QED BY <1>2

LEMMA SameTells ==
    ASSUME NEW rows, NEW c, NEW rows2, NEW c2, NEW d, DOMAIN rows \subseteq Nat, SameAt(rows, c, rows2, c2, d)
    PROVE  /\ HistoryText(rows2, d, c2) = HistoryText(rows, d, c)
           /\ \A n : (\A r \in BodyAt(rows, d, c) : r.seq < n) => \A r \in BodyAt(rows2, d, c2) : r.seq < n
<1> DEFINE S == Upto(rows, d, c)
           K == LastOf(S)
<1>1. S \subseteq Nat
  BY DEF Upto
<1>2. BodyAt(rows, d, c) = {rows[k] : k \in K} /\ BodyAt(rows2, d, c2) = {rows2[k] : k \in K}
  BY BodyAtIs DEF SameAt
<1>3. CASE K = {}
  <2>1. BodyAt(rows, d, c) = {} /\ BodyAt(rows2, d, c2) = {}
    BY <1>2, <1>3
  <2> QED BY <2>1 DEF HistoryText
<1>4. CASE K # {}
  <2>1. PICK m \in K : TRUE
    BY <1>4
  <2>2. K = {m}
    BY <1>1, <2>1, LastIsOne
  <2>3. m \in S
    BY <2>1 DEF LastOf
  <2>4. rows2[m].seq = rows[m].seq /\ rows2[m].replayed.text = rows[m].replayed.text
    BY <2>3 DEF SameAt
  <2> HIDE DEF K, S
  <2>5. BodyAt(rows, d, c) = {rows[m]} /\ BodyAt(rows2, d, c2) = {rows2[m]}
    BY <1>2, <2>2
  <2>6. HistoryText(rows, d, c) = rows[m].replayed.text
    BY <2>5 DEF HistoryText
  <2>7. HistoryText(rows2, d, c2) = rows2[m].replayed.text
    BY <2>5 DEF HistoryText
  <2> QED BY <2>4, <2>5, <2>6, <2>7
<1> QED BY <1>3, <1>4

\* What rows tell is told after them as well, and what is gone stays gone.
LEMMA TellsStays ==
    ASSUME NEW rows, NEW rows2, NEW c, NEW c2, NEW d, DOMAIN rows \subseteq Nat, SameAt(rows, c, rows2, c2, d),
           NEW events, NEW events2, \A i \in DOMAIN events : i \in DOMAIN events2 /\ events2[i] = events[i],
           NEW gone, NEW gone2, Blanked(gone, d) => Effaced(rows2, events2, gone2, d, c2),
           NEW body, NEW body2, Shown(body2) = Shown(body)
    PROVE  /\ Effaced(rows, events, gone, d, c) => Effaced(rows2, events2, gone2, d, c2)
           /\ Tells(rows, events, gone, d, c, body) => Tells(rows2, events2, gone2, d, c2, body2)
<1>1. /\ HistoryText(rows2, d, c2) = HistoryText(rows, d, c)
      /\ \A n : (\A r \in BodyAt(rows, d, c) : r.seq < n) => \A r \in BodyAt(rows2, d, c2) : r.seq < n
  BY SameTells
<1>2. Effaced(rows, events, gone, d, c) => Effaced(rows2, events2, gone2, d, c2)
  BY <1>1 DEF Effaced
<1> QED BY <1>1, <1>2 DEF Tells

LEMMA UptoAppended ==
    ASSUME NEW S, NEW rows \in Seq(S), NEW row, NEW rows2, rows2 = Append(rows, row), NEW d, NEW c,
           row.doc # d \/ ~(row.seq <= c)
    PROVE  Unmoved(rows, c, rows2, c, d)
<1>1. /\ DOMAIN rows = 1..Len(rows) /\ Len(rows) \in Nat /\ DOMAIN rows2 = 1..(Len(rows) + 1)
      /\ rows2[Len(rows) + 1] = row /\ \A k \in 1..Len(rows) : rows2[k] = rows[k]
  OBVIOUS
<1>2. \A k \in 1..(Len(rows) + 1) : k \in 1..Len(rows) \/ k = Len(rows) + 1
  BY <1>1
<1>3. \A k \in 1..Len(rows) : k \in 1..(Len(rows) + 1)
  BY <1>1
<1> HIDE DEF Upto
<1>4. Upto(rows2, d, c) \subseteq Upto(rows, d, c)
  BY <1>1, <1>2 DEF Upto
<1>5. Upto(rows, d, c) \subseteq Upto(rows2, d, c)
  BY <1>1, <1>3 DEF Upto
<1>6. \A k \in Upto(rows, d, c) : k \in 1..Len(rows)
  BY <1>1 DEF Upto
<1> QED BY <1>1, <1>4, <1>5, <1>6 DEF Unmoved

LEMMA SameAppended ==
    ASSUME NEW S, NEW rows \in Seq(S), NEW row, NEW rows2, rows2 = Append(rows, row), NEW d, NEW c,
           row.doc # d \/ ~(row.seq <= c)
    PROVE  SameAt(rows, c, rows2, c, d)
<1>1. Unmoved(rows, c, rows2, c, d)
  BY UptoAppended
<1> QED BY <1>1 DEF Unmoved, SameAt

LEMMA UptoLater ==
    ASSUME NEW rows, NEW n \in Nat, \A i \in DOMAIN rows : rows[i].seq \in Nat /\ rows[i].seq <= n,
           NEW c \in Nat, n <= c, NEW d
    PROVE  Upto(rows, d, c) = Upto(rows, d, n)
<1>1. \A i \in DOMAIN rows : rows[i].seq <= n /\ rows[i].seq <= c
  OBVIOUS
<1> QED BY <1>1 DEF Upto

LEMMA SameCleared ==
    ASSUME NEW rows, NEW before, NEW S, rows \in Seq(S), before \in Seq(S), NEW doc, Cleared(rows, before, doc),
           NEW d, d # doc, NEW c
    PROVE  SameAt(before, c, rows, c, d)
<1>1. DOMAIN rows = 1..Len(before) /\ DOMAIN before = 1..Len(before)
  BY DEF Cleared
<1>2. \A i \in 1..Len(before) : /\ rows[i].seq = before[i].seq /\ rows[i].doc = before[i].doc
                                /\ rows[i].doc = d => rows[i] = before[i]
  BY DEF Cleared
<1>3. Upto(rows, d, c) = Upto(before, d, c)
  BY <1>1, <1>2 DEF Upto
<1>4. \A k \in Upto(before, d, c) : rows[k] = before[k]
  BY <1>1, <1>2 DEF Upto
<1> QED BY <1>3, <1>4 DEF SameAt

LEMMA SamePath ==
    ASSUME NEW rows, NEW rows2, NEW d, NEW c, NEW c2, Unmoved(rows, c, rows2, c2, d)
    PROVE  HistoryPath(rows2, d, c2) = HistoryPath(rows, d, c)
<1> DEFINE S == Upto(rows, d, c)
           after(j, k) == rows[j].seq < rows[k].seq \/ (rows[j].seq = rows[k].seq /\ k <= j)
           after2(j, k) == rows2[j].seq < rows2[k].seq \/ (rows2[j].seq = rows2[k].seq /\ k <= j)
           K == {i \in S : \A j \in S : after(j, i)}
           K2 == {i \in S : \A j \in S : after2(j, i)}
<1>1. PathAt(rows, d, c) = {rows[k] : k \in K}
  BY DEF PathAt
<1>a. S = Upto(rows2, d, c2) /\ \A k \in S : rows2[k] = rows[k]
  BY DEF Unmoved
<1>2. PathAt(rows2, d, c2) = {rows2[k] : k \in K2}
  BY <1>a DEF PathAt
<1>3. \A i \in S, j \in S : after(j, i) <=> after2(j, i)
  BY <1>a
<1>4. K = K2
  <2> HIDE DEF after, after2, S
  <2> QED BY <1>3
<1>5. \A k \in K : rows2[k] = rows[k]
  BY <1>a
<1> HIDE DEF K, K2
<1>6. PathAt(rows2, d, c2) = PathAt(rows, d, c)
  BY <1>1, <1>2, <1>4, <1>5
<1> QED BY <1>6 DEF HistoryPath

\* A row with a number above the others is the one that counts.
LEMMA PathAppended ==
    ASSUME NEW S, NEW rows \in Seq(S), NEW row, NEW rows2, rows2 = Append(rows, row), NEW d, row.doc = d,
           NEW c, row.seq <= c, row.seq \in Nat, \A i \in DOMAIN rows : rows[i].seq \in Nat /\ rows[i].seq < row.seq
    PROVE  HistoryPath(rows2, d, c) = IF row.live THEN {row.path} ELSE {}
<1> DEFINE n == Len(rows) + 1
           T == Upto(rows2, d, c)
           after(j, k) == rows2[j].seq < rows2[k].seq \/ (rows2[j].seq = rows2[k].seq /\ k <= j)
           K == {i \in T : \A j \in T : after(j, i)}
<1>1. /\ DOMAIN rows = 1..Len(rows) /\ Len(rows) \in Nat /\ DOMAIN rows2 = 1..n
      /\ rows2[n] = row /\ \A k \in 1..Len(rows) : rows2[k] = rows[k]
  OBVIOUS
<1>2. n \in T
  BY <1>1 DEF Upto
<1>3. ASSUME NEW k \in T, k # n PROVE rows2[k].seq \in Nat /\ rows2[k].seq < row.seq
  <2>1. k \in 1..Len(rows)
    BY <1>1, <1>3 DEF Upto
  <2> QED BY <1>1, <2>1
<1>4. n \in K
  <2>1. \A j \in T : after(j, n)
    <3> SUFFICES ASSUME NEW j \in T PROVE after(j, n)
      OBVIOUS
    <3>1. CASE j = n
      BY <1>1, <3>1
    <3>2. CASE j # n
      BY <1>1, <1>3, <3>2
    <3> QED BY <3>1, <3>2
  <2> QED BY <1>2, <2>1
<1>5. ASSUME NEW k \in K PROVE k = n
  <2>1. k \in T /\ after(n, k)
    BY <1>2
  <2>2. k # n => rows2[k].seq \in Nat /\ rows2[k].seq < row.seq
    BY <1>3, <2>1
  <2>3. rows2[n].seq = row.seq
    BY <1>1
  <2>4. k # n => rows2[n].seq < rows2[k].seq \/ rows2[n].seq = rows2[k].seq
    BY <2>1
  <2> DEFINE e == rows2[n].seq
             g == rows2[k].seq
  <2>5. k # n => g \in Nat /\ g < row.seq /\ e = row.seq /\ (e < g \/ e = g)
    BY <2>2, <2>3, <2>4
  <2> HIDE DEF e, g, K, n
  <2> QED BY <2>5
<1>6. PathAt(rows2, d, c) = {rows2[k] : k \in K}
  BY DEF PathAt
<1> HIDE DEF K, n
<1>7. PathAt(rows2, d, c) = {row}
  BY <1>1, <1>4, <1>5, <1>6
<1> QED BY <1>7 DEF HistoryPath

LEMMA TextAppended ==
    ASSUME NEW S, NEW rows \in Seq(S), NEW row, NEW rows2, rows2 = Append(rows, row), NEW d, row.doc = d,
           NEW c, row.seq <= c
    PROVE  HistoryText(rows2, d, c) = row.replayed.text
<1> DEFINE n == Len(rows) + 1
           T == Upto(rows2, d, c)
<1>1. Len(rows) \in Nat /\ DOMAIN rows2 = 1..n /\ rows2[n] = row
  OBVIOUS
<1>2. n \in LastOf(T)
  <2>1. n \in T
    BY <1>1 DEF Upto
  <2>2. \A j \in T : j <= n
    BY <1>1 DEF Upto
  <2> QED BY <2>1, <2>2 DEF LastOf
<1>3. T \subseteq Nat
  BY <1>1 DEF Upto
<1>4. LastOf(T) = {n}
  BY <1>2, <1>3, LastIsOne
<1>5. BodyAt(rows2, d, c) = {rows2[k] : k \in LastOf(T)}
  BY BodyAtIs
<1> HIDE DEF n, T
<1>6. BodyAt(rows2, d, c) = {row}
  BY <1>1, <1>4, <1>5
<1> QED BY <1>6 DEF HistoryText

\* A compaction that drops no row leaves every text as it was.
LEMMA SameCompacted ==
    ASSUME NEW S, NEW rows \in Seq(S), NEW doc, NEW policy, NEW rows2, rows2 = Compacted(rows, doc, policy),
           Len(rows2) = Len(rows), \A i \in 1..Len(rows) : \E Texts, States : rows[i] \in BodyRow(Texts, States), NEW d, NEW c
    PROVE  SameAt(rows, c, rows2, c, d)
<1> DEFINE older == Cardinality({i \in DOMAIN rows : rows[i].doc = doc}) - policy.revisions
           kept == {i \in DOMAIN rows : \/ rows[i].doc # doc \/ Index(rows, i) >= older
                                         \/ Index(rows, i) % policy.frequency = 0}
           row(i) == IF rows[i].doc = doc THEN AsCheckpoint(rows[i]) ELSE rows[i]
           n == Cardinality(kept)
           after == [k \in 1..n |-> row(NthOf(kept, k))]
<1>1. CASE rows2 = rows
  BY <1>1 DEF SameAt
<1>2. CASE rows2 = after
  <2>1. DOMAIN rows = 1..Len(rows) /\ Len(rows) \in Nat /\ kept \subseteq 1..Len(rows)
    OBVIOUS
  <2> HIDE DEF older, kept
  <2>2. IsFiniteSet(1..Len(rows)) /\ Cardinality(1..Len(rows)) = Len(rows)
    <3>1. PICK m \in Nat : m = Len(rows)
      BY <2>1
    <3>2. IsFiniteSet(1..m) /\ Cardinality(1..m) = m
      BY FS_Interval
    <3> QED BY <3>1, <3>2
  <2>3. IsFiniteSet(kept) /\ n \in Nat
    BY <2>1, <2>2, FS_Subset, FS_CardinalityType
  <2>4. n = Len(rows)
    <3>1. Len(after) = n /\ DOMAIN after = 1..n
      BY <2>3
    <3> QED BY <1>2, <3>1
  <2>5. kept = 1..Len(rows)
    BY <2>1, <2>2, <2>3, <2>4, FS_Subset
  <2>6. ASSUME NEW k \in 1..Len(rows) PROVE NthOf(kept, k) = k
    <3>1. kept \subseteq Nat /\ k \in kept
      BY <2>1, <2>5
    <3>2. NthOf(kept, RankIn(kept, k)) = k
      BY <2>3, <3>1, NthReached
    <3>3. {j \in kept : j <= k} = 1..k
      BY <2>1, <2>5
    <3>4. Cardinality(1..k) = k
      BY <2>1, FS_Interval
    <3>5. RankIn(kept, k) = k
      BY <3>3, <3>4 DEF RankIn
    <3> QED BY <3>2, <3>5
  <2>7. DOMAIN rows2 = 1..Len(rows) /\ \A k \in 1..Len(rows) : rows2[k] = row(k)
    BY <1>2, <2>4, <2>6
  <2>8. ASSUME NEW k \in 1..Len(rows)
        PROVE  rows2[k].seq = rows[k].seq /\ rows2[k].doc = rows[k].doc /\ rows2[k].replayed.text = rows[k].replayed.text
    <3>1. PICK Texts, States : rows[k] \in BodyRow(Texts, States)
      OBVIOUS
    <3>2. PICK r : r = rows[k]
      OBVIOUS
    <3>3. AsCheckpoint(r).seq = r.seq /\ AsCheckpoint(r).doc = r.doc /\ AsCheckpoint(r).replayed.text = r.replayed.text
      BY <3>1, <3>2 DEF BodyRow, AsCheckpoint, Checkpoint
    <3> QED BY <2>7, <3>2, <3>3
  <2>9. Upto(rows2, d, c) = Upto(rows, d, c)
    BY <2>1, <2>7, <2>8 DEF Upto
  <2>10. \A k \in Upto(rows, d, c) : k \in 1..Len(rows)
    BY <2>1 DEF Upto
  <2> QED BY <2>8, <2>9, <2>10 DEF SameAt
<1>3. rows2 = IF older <= 0 THEN rows ELSE after
  BY DEF Compacted
<1> QED BY <1>1, <1>2, <1>3

-----------------------------------------------------------------------------
(* What a step does to the retained rows.                                  *)

\* The event that says d was purged is written.
Wiped(w, d) == Announces(w) /\ slot[w].req.kind = "purge" /\ slot[w].todo[1][2] = d

RowsGo(w, d) ==
    LET rows == RowsNow(disk, slot[w])  rows2 == RowsNow(disk', slot'[w])
    IN  \/ Blanked(lost', d) \/ Wiped(w, d)
        \/ /\ Readable(disk, slot[w])
           /\ \/ \A c : SameAt(rows, c, rows2, c, d)
              \/ /\ Retains(w) /\ slot[w].todo[1][2] = d
                 /\ \A c : ~(slot[w].number <= c) => SameAt(rows, c, rows2, c, d)

LEMMA RowsAre ==
    ASSUME NEW Texts, NEW States, NEW w, OneWriter(w), FileInv(Texts, States, w), Readable(disk, slot[w])
    PROVE  /\ RowsNow(disk, slot[w]) \in Seq(BodyRow(Texts, States))
           /\ disk["events"] # Torn => Covered(RowsNow(disk, slot[w]), disk["events"])
<1> DEFINE x == slot[w]
<1>1. CASE InPurge(x)
  <2>1. SlotOK(Texts, States, disk, x)
    BY StageParts
  <2>2. x.result \in Seq(BodyRow(Texts, States)) /\ (disk["events"] # Torn => Covered(x.result, disk["events"]))
    BY <1>1, <2>1 DEF InPurge, SlotOK, Due, Worked, Numbered
  <2> QED BY <1>1, <2>2 DEF RowsNow
<1>2. CASE ~InPurge(x)
  <2>1. disk["bodyRevs"] # Torn
    BY <1>2 DEF Readable
  <2>2. disk["bodyRevs"] \in Seq(BodyRow(Texts, States))
    BY <2>1 DEF FileInv, DiskOK, Files, Shaped
  <2>3. disk["events"] # Torn => Covered(disk["bodyRevs"], disk["events"])
    BY <2>1 DEF FileInv, NumbersOK
  <2> QED BY <1>2, <2>2, <2>3 DEF RowsNow
<1> QED BY <1>1, <1>2

LEMMA SameItself ==
    ASSUME NEW rows, NEW c, NEW d
    PROVE  SameAt(rows, c, rows, c, d)
BY DEF SameAt

\* A purge that has cleared its rows has its event or its taking back before it.
LEMMA PurgeLeft ==
    ASSUME NEW Texts, NEW States, NEW w, OneWriter(w), FileInv(Texts, States, w), PlanInv(w), InPurge(slot[w])
    PROVE  LET x == slot[w]
           IN  /\ \E name \in {"audit", "rollback"} : StagedIn(x.todo, name, x.req.doc)
               /\ ~HasKeep(x.todo) /\ \A d : ~StagedIn(x.todo, "erase", d)
               /\ x.wrote /\ (disk["bodyRevs"] # Torn => Cleared(disk["bodyRevs"], x.result, x.req.doc))
               /\ x.req.doc \in Docs
<1> DEFINE x == slot[w]
<1>1. x.req.kind = "purge" /\ x.todo # <<>> /\ Name(x) # "erase"
  BY DEF InPurge
<1>2. LeftOfPurge(x.todo) /\ x.wrote /\ (disk["bodyRevs"] # Torn => Cleared(disk["bodyRevs"], x.result, x.req.doc))
  BY <1>1 DEF PlanInv, Purges
<1>3. Formed("purge", x.req.doc, x.todo) /\ x.req.doc \in Docs
  BY <1>1, StageParts DEF SlotOK, Request
<1> HIDE DEF x
<1>4. PICK q : q = x.todo
  OBVIOUS
<1>5. q \in Seq(Stage) /\ \A i \in 1..Len(q) : q[i] \in Stage /\ q[i][2] = x.req.doc
  BY <1>3, <1>4 DEF Formed
<1>6. \A i \in 1..Len(q) : q[i] = <<q[i][1], x.req.doc>>
  BY <1>5 DEF Stage
<1>7. /\ \E i \in 1..Len(q) : q[i][1] \in {"audit", "rollback"}
      /\ \A i \in 1..Len(q) : q[i][1] \in {"locate", "number", "audit", "rollback"}
  <2>1. 1 \in 1..1 /\ 2 \in 1..2 /\ 3 \in 1..3
    OBVIOUS
  <2>2. CASE q[1][1] = "locate"
    <3>1. Len(q) = 3 /\ q[2][1] = "number" /\ q[3][1] = "audit"
      BY <1>2, <1>4, <2>2 DEF LeftOfPurge
    <3>2. \A i \in 1..3 : i = 1 \/ i = 2 \/ i = 3
      OBVIOUS
    <3> QED BY <2>1, <2>2, <3>1, <3>2
  <2>3. CASE q[1][1] = "number"
    <3>1. Len(q) = 2 /\ q[2][1] = "audit"
      BY <1>2, <1>4, <2>3 DEF LeftOfPurge
    <3>2. \A i \in 1..2 : i = 1 \/ i = 2
      OBVIOUS
    <3> QED BY <2>1, <2>3, <3>1, <3>2
  <2>4. CASE q[1][1] \in {"audit", "rollback"}
    <3>1. Len(q) = 1
      BY <1>2, <1>4, <2>4 DEF LeftOfPurge
    <3>2. \A i \in 1..1 : i = 1
      OBVIOUS
    <3> QED BY <2>1, <2>4, <3>1, <3>2
  <2>5. q[1][1] \in NamesOf("purge")
    <3>1. 1 \in 1..Len(q)
      BY <1>1, <1>4, <1>5
    <3> QED BY <1>3, <1>4, <3>1 DEF Formed
  <2> QED BY <1>1, <1>4, <2>2, <2>3, <2>4, <2>5 DEF NamesOf, Purging, Name
<1>8. \E name \in {"audit", "rollback"} : StagedIn(q, name, x.req.doc)
  BY <1>6, <1>7 DEF StagedIn
<1>9. ~HasKeep(q) /\ \A d : ~StagedIn(q, "erase", d)
  BY <1>7 DEF HasKeep, StagedIn
<1> QED BY <1>2, <1>3, <1>4, <1>8, <1>9 DEF x

LEMMA PurgePasses ==
    ASSUME NEW Texts, NEW States, NEW w, OneWriter(w), FileInv(Texts, States, w), FileInv(Texts, States, w)',
           PlanInv(w), Reaches(w)
    PROVE  /\ InPurge(slot[w]) <=> InPurge(slot'[w])
           /\ InPurge(slot[w]) => slot'[w].result = slot[w].result
<1> DEFINE x == slot[w]
           y == slot'[w]
<1>1. /\ x.todo # <<>> /\ y.req = x.req /\ (y.result = x.result \/ Name(x) \in {"entry", "policy"})
      /\ Follows(x.req.kind, x.todo, y.todo)
      /\ y.todo # <<>> /\ x.req.kind = "purge" /\ LeftOfPurge(x.todo) => (Name(x) = "erase" => Name(y) = "erase")
  BY DEF Reaches, Held
<1>2. ASSUME InPurge(x) PROVE InPurge(y) /\ y.result = x.result
  <2>1. x.req.kind = "purge" /\ Name(x) # "erase"
    BY <1>2 DEF InPurge
  <2>2. /\ \E name \in {"audit", "rollback"} : StagedIn(x.todo, name, x.req.doc)
        /\ \A d : ~StagedIn(x.todo, "erase", d)
    BY <1>2, PurgeLeft
  <2>3. /\ \E name \in {"audit", "rollback"} : StagedIn(y.todo, name, x.req.doc)
        /\ \A d : ~StagedIn(y.todo, "erase", d)
    BY <1>1, <2>2 DEF Follows, Passing
  <2>4. y.todo # <<>>
    <3>1. Len(<<>>) = 0
      OBVIOUS
    <3>2. \A name, d : ~StagedIn(<<>>, name, d)
      BY <3>1 DEF StagedIn
    <3> QED BY <2>3, <3>2
  <2>5. Name(x) \notin {"entry", "policy"}
    <3>1. Name(x) \in NamesOf("purge")
      BY <1>1, <2>1, StageParts, SlotParts
    <3> QED BY <3>1 DEF NamesOf, Purging
  <2>6. Name(y) # "erase"
    <3> SUFFICES ASSUME Name(y) = "erase" PROVE FALSE
      OBVIOUS
    <3>1. y.todo[1] \in Stage /\ Len(y.todo) \in Nat /\ Len(y.todo) > 0
      BY <2>4, SlotNext, SlotParts
    <3>2. y.todo[1] = <<"erase", y.todo[1][2]>> /\ 1 \in 1..Len(y.todo)
      BY <3>1 DEF Name, Stage
    <3> QED BY <2>3, <3>2 DEF StagedIn
  <2> QED BY <1>1, <2>1, <2>4, <2>5, <2>6 DEF InPurge
<1>3. ASSUME InPurge(y), ~InPurge(x) PROVE FALSE
  <2>1. x.req.kind = "purge" /\ Name(x) = "erase" /\ y.todo # <<>> /\ Name(y) # "erase"
    BY <1>1, <1>3 DEF InPurge
  <2>2. LeftOfPurge(x.todo)
    BY <1>1, <2>1 DEF PlanInv, Purges
  <2> QED BY <1>1, <2>1, <2>2
<1> QED BY <1>2, <1>3

LEMMA GoneStays ==
    ASSUME NEW Texts, NEW States, NEW w, OneWriter(w), FileInv(Texts, States, w), Did(w), NEW d, Blanked(lost, d)
    PROVE  Blanked(lost', d) \/ Wiped(w, d)
<1> DEFINE x == slot[w]
<1>1. \A gone : Blanked(gone, d) <=> <<"audit", d>> \in gone \/ <<"rollback", d>> \in gone
  BY DEF Blanked
<1>2. CASE Reaches(w)
  <2>1. SameBut(lost, lost', "canonical")
    BY <1>2 DEF Reaches
  <2> QED BY <1>1, <2>1 DEF SameBut
<1>3. CASE Announces(w)
  <2>1. /\ x.todo # <<>> /\ Name(x) \in {"event", "audit"} /\ lost' = lost \ {<<Name(x), x.todo[1][2]>>}
    BY <1>3 DEF Announces
  <2>2. Name(x) \in NamesOf(x.req.kind) /\ x.req.kind \in Kinds
    BY <2>1, StageParts, SlotParts
  <2>3. Name(x) = "audit" => x.req.kind = "purge"
    BY <2>2 DEF NamesOf, Kinds, Recording, History
  <2>4. CASE Name(x) = "audit" /\ x.todo[1][2] = d
    BY <1>3, <2>3, <2>4 DEF Wiped
  <2>5. CASE ~(Name(x) = "audit" /\ x.todo[1][2] = d)
    <3>1. <<"rollback", d>> # <<Name(x), x.todo[1][2]>> /\ <<"audit", d>> # <<Name(x), x.todo[1][2]>>
      BY <2>1, <2>5
    <3> QED BY <1>1, <2>1, <3>1
  <2> QED BY <2>4, <2>5
<1>4. CASE Retains(w) \/ Places(w)
  <2>1. \A n : <<n, d>> \in lost /\ n \notin {"body", "path"} => <<n, d>> \in lost'
    BY <1>4 DEF Retains, Places
  <2> QED BY <1>1, <2>1
<1>5. CASE lost \subseteq lost'
  BY <1>1, <1>5
<1>6. Reaches(w) \/ Announces(w) \/ Retains(w) \/ Places(w) \/ lost \subseteq lost'
  BY DEF Did, Passes, Keeps, Counts, Clears, TakesBack, Stops, Undoes, Answers, Considers, Thinks, Elsewhere
<1> QED BY <1>2, <1>3, <1>4, <1>5, <1>6

LEMMA LastLeft ==
    ASSUME NEW S, NEW p \in Seq(S), Len(p) = 1
    PROVE  Tail(p) = <<>>
<1>1. Len(<<>>) = 0
  OBVIOUS
<1>2. p # <<>>
  BY <1>1
<1>3. PICK q : q = Tail(p)
  OBVIOUS
<1>4. q \in Seq(S) /\ Len(q) = 0
  BY <1>2, <1>3, TailParts
<1>5. q = <<>>
  BY <1>4
<1> QED BY <1>3, <1>5

LEMMA AuditLast ==
    ASSUME NEW Texts, NEW States, NEW w, OneWriter(w), FileInv(Texts, States, w), PlanInv(w),
           Announces(w), slot[w].req.kind = "purge"
    PROVE  slot'[w].todo = <<>> /\ InPurge(slot[w]) /\ ~InPurge(slot'[w]) /\ disk'["bodyRevs"] = disk["bodyRevs"]
<1> DEFINE x == slot[w]
           y == slot'[w]
<1>1. /\ x.todo # <<>> /\ Name(x) \in {"event", "audit"} /\ y.req = x.req /\ y.todo = Tail(x.todo)
      /\ disk'["bodyRevs"] = disk["bodyRevs"]
  BY DEF Announces, Goes, Writes, Files
<1>2. SlotOK(Texts, States, disk, x)
  BY StageParts
<1>3. Name(x) \in NamesOf("purge")
  BY <1>1, <1>2, SlotParts
<1>4. Name(x) = "audit"
  BY <1>1, <1>3 DEF NamesOf, Purging
<1>5. LeftOfPurge(x.todo)
  BY <1>1 DEF PlanInv, Purges
<1>6. Len(x.todo) = 1 /\ x.todo \in Seq(Stage)
  BY <1>1, <1>2, <1>4, <1>5, SlotParts DEF LeftOfPurge, Name
<1>7. PICK p : p = x.todo
  OBVIOUS
<1>8. Tail(p) = <<>>
  BY <1>6, <1>7, LastLeft
<1> QED BY <1>1, <1>4, <1>7, <1>8 DEF InPurge

LEMMA RowsUnchanged ==
    ASSUME NEW w, NEW d, RowsNow(disk', slot'[w]) = RowsNow(disk, slot[w]), Readable(disk, slot[w])
    PROVE  RowsGo(w, d)
BY SameItself DEF RowsGo

LEMMA RowsStep ==
    ASSUME NEW Texts, NEW States, NEW w, OneWriter(w), FileInv(Texts, States, w), FileInv(Texts, States, w)',
           PlanInv(w), Did(w), ThinsNothing, Readable(disk', slot'[w]), NEW d \in Docs
    PROVE  RowsGo(w, d)
<1> DEFINE x == slot[w]
           y == slot'[w]
           rows == RowsNow(disk, x)
           rows2 == RowsNow(disk', y)
<1>a. w \in Slots /\ SlotOK(Texts, States, disk, x)
  BY StageParts
<1>b. x.todo # <<>> => Name(x) \in NamesOf(x.req.kind) /\ (x.req.kind # "rewind" => x.todo[1][2] = x.req.doc)
  BY <1>a, SlotParts
<1>1. CASE Passes(w)
  <2>1. (InPurge(x) <=> InPurge(y)) /\ (InPurge(x) => y.result = x.result)
    BY <1>1, PurgePasses DEF Passes
  <2>2. disk'["bodyRevs"] = disk["bodyRevs"]
    BY <1>1 DEF Passes
  <2>3. rows2 = rows /\ Readable(disk, x)
    BY <2>1, <2>2 DEF RowsNow, Readable
  <2> QED BY <2>3, RowsUnchanged
<1>2. CASE Reaches(w) /\ Thins(w)
  <2>1. /\ x.todo # <<>> /\ Name(x) = "compact" /\ disk["bodyRevs"] # Torn /\ Has(w, "compact")
        /\ Doc(w) = x.todo[1][2] /\ x.copy = disk["bodyRevs"]
        /\ disk'["bodyRevs"] = Compacted(disk["bodyRevs"], x.todo[1][2], x.result)
    BY <1>2 DEF Thins
  <2>2. ~InPurge(x)
    BY <1>b, <2>1 DEF InPurge, NamesOf, Purging
  <2>3. ~InPurge(y)
    BY <1>2, <2>2, PurgePasses
  <2>4. Len(disk'["bodyRevs"]) = Len(disk["bodyRevs"])
    BY <1>a, <2>1 DEF ThinsNothing
  <2>5. rows = disk["bodyRevs"] /\ rows2 = disk'["bodyRevs"] /\ Readable(disk, x)
    BY <2>1, <2>2, <2>3 DEF RowsNow, Readable
  <2>6. rows \in Seq(BodyRow(Texts, States))
    BY <2>5, RowsAre
  <2> HIDE DEF rows, rows2
  <2>7. \A i \in 1..Len(rows) : \E T, S : rows[i] \in BodyRow(T, S)
    <3>1. \A i \in 1..Len(rows) : rows[i] \in BodyRow(Texts, States)
      BY <2>6, ElementOfSeq
    <3> QED BY <3>1
  <2>8. rows2 = Compacted(rows, x.todo[1][2], x.result) /\ Len(rows2) = Len(rows)
    BY <2>1, <2>4, <2>5
  <2>9. \A c : SameAt(rows, c, rows2, c, d)
    BY <2>6, <2>7, <2>8, SameCompacted
  <2> QED BY <2>5, <2>9 DEF RowsGo, rows, rows2
<1>3. CASE Keeps(w) \/ Places(w) \/ (Announces(w) /\ x.req.kind # "purge")
  <2>1. y.req = x.req /\ x.req.kind # "purge"
    <3>1. CASE Places(w)
      <4>1. x.todo # <<>> /\ Name(x) = "path"
        BY <3>1 DEF Places
      <4> QED BY <1>b, <3>1, <4>1 DEF NamesOf, Purging, Places, Goes
    <3> QED BY <1>3, <3>1 DEF Keeps, Announces, Goes, Plans
  <2>2. disk'["bodyRevs"] = disk["bodyRevs"]
    BY <1>3 DEF Keeps, Places, Announces, Writes, Files
  <2>3. rows2 = rows /\ Readable(disk, x)
    BY <2>1, <2>2 DEF RowsNow, Readable, InPurge
  <2> QED BY <2>3, RowsUnchanged
<1>4. CASE Counts(w)
  <2>1. /\ x.todo # <<>> /\ Name(x) = "number" /\ y.req = x.req /\ y.todo = Tail(x.todo) /\ y.result = x.result
        /\ disk' = disk
    BY <1>4 DEF Counts
  <2>2. CASE x.req.kind # "purge"
    <3>1. rows2 = rows /\ Readable(disk, x)
      BY <2>1, <2>2 DEF RowsNow, Readable, InPurge
    <3> QED BY <3>1, RowsUnchanged
  <2>3. CASE x.req.kind = "purge"
    <3>1. InPurge(x)
      BY <2>1, <2>3 DEF InPurge
    <3>2. LeftOfPurge(x.todo)
      BY <2>1, <2>3 DEF PlanInv, Purges
    <3>3. Len(x.todo) = 2 /\ x.todo[2][1] = "audit" /\ x.todo \in Seq(Stage)
      BY <1>a, <2>1, <3>2, SlotParts DEF LeftOfPurge, Name
    <3>4. y.todo # <<>> /\ Name(y) = "audit"
      <4>1. PICK p : p = x.todo
        OBVIOUS
      <4>2. PICK q : q = Tail(p)
        OBVIOUS
      <4>3. Len(q) = Len(p) - 1 /\ \A i \in 1..(Len(p) - 1) : q[i] = p[i + 1]
        BY <2>1, <3>3, <4>1, <4>2, TailParts
      <4>4. Len(q) # 0 /\ q[1][1] = "audit"
        <5>1. 1 \in 1..(2 - 1) /\ 1 + 1 = 2
          OBVIOUS
        <5> QED BY <3>3, <4>1, <4>3, <5>1
      <4>5. Len(<<>>) = 0
        OBVIOUS
      <4>6. q # <<>>
        BY <4>4, <4>5, Zenon
      <4> QED BY <2>1, <4>1, <4>2, <4>4, <4>6 DEF Name
    <3>5. InPurge(y)
      BY <2>1, <2>3, <3>4 DEF InPurge
    <3>6. rows2 = rows /\ Readable(disk, x)
      BY <2>1, <3>1, <3>5 DEF RowsNow, Readable
    <3> QED BY <3>6, RowsUnchanged
  <2> QED BY <2>2, <2>3
<1>5. CASE Announces(w) /\ x.req.kind = "purge"
  <2>1. x.todo # <<>> /\ y.req = x.req /\ InPurge(x) /\ ~InPurge(y) /\ disk'["bodyRevs"] = disk["bodyRevs"]
    BY <1>5, AuditLast DEF Announces, Goes
  <2>2. disk["bodyRevs"] # Torn /\ rows2 = disk["bodyRevs"] /\ rows = x.result /\ Readable(disk, x)
    BY <2>1 DEF Readable, RowsNow
  <2>3. x.todo[1][2] = x.req.doc
    BY <1>5, <1>b, <2>1
  <2>4. CASE d = x.req.doc
    BY <1>5, <2>3, <2>4 DEF RowsGo, Wiped
  <2>5. CASE d # x.req.doc
    <3>1. Cleared(rows2, rows, x.req.doc)
      BY <2>1, <2>2, PurgeLeft
    <3>2. rows \in Seq(BodyRow(Texts, States)) /\ rows2 \in Seq(BodyRow(Texts, States))
      <4>1. rows \in Seq(BodyRow(Texts, States))
        BY <2>2, RowsAre
      <4>2. disk["bodyRevs"] \in Seq(BodyRow(Texts, States))
        BY <2>2 DEF FileInv, DiskOK, Files, Shaped
      <4> QED BY <2>2, <4>1, <4>2
    <3> HIDE DEF rows, rows2
    <3>3. \A c : SameAt(rows, c, rows2, c, d)
      BY <2>5, <3>1, <3>2, SameCleared
    <3> QED BY <2>2, <3>3 DEF RowsGo, rows, rows2
  <2> QED BY <2>4, <2>5
<1>6. CASE Retains(w)
  <2>1. /\ x.todo # <<>> /\ Name(x) = "body" /\ y.req = x.req /\ disk["bodyRevs"] # Torn
        /\ disk'["bodyRevs"] = Append(disk["bodyRevs"], Revision(w, disk["bodyRevs"])) /\ Doc(w) = x.todo[1][2]
    BY <1>6 DEF Retains, Goes, Writes
  <2>2. x.req.kind # "purge"
    BY <1>b, <2>1 DEF NamesOf, Purging
  <2>3. rows = disk["bodyRevs"] /\ rows2 = disk'["bodyRevs"] /\ Readable(disk, x)
    BY <2>1, <2>2 DEF RowsNow, Readable, InPurge
  <2>4. rows \in Seq(BodyRow(Texts, States))
    BY <2>3, RowsAre
  <2>5. PICK row : row = Revision(w, disk["bodyRevs"])
    OBVIOUS
  <2>6. row.seq = x.number /\ row.doc = x.todo[1][2]
    BY <2>1, <2>5 DEF Revision
  <2> HIDE DEF rows, rows2
  <2>7. rows2 = Append(rows, row)
    BY <2>1, <2>3, <2>5
  <2>8. ASSUME NEW c, row.doc # d \/ ~(row.seq <= c) PROVE SameAt(rows, c, rows2, c, d)
    <3>1. PICK p, q, S : p = rows /\ q = rows2 /\ S = BodyRow(Texts, States)
      OBVIOUS
    <3>2. p \in Seq(S) /\ q = Append(p, row)
      BY <2>4, <2>7, <3>1
    <3>3. SameAt(p, c, q, c, d)
      BY <2>8, <3>2, SameAppended
    <3> QED BY <3>1, <3>3
  <2>9. CASE x.todo[1][2] = d
    <3>1. \A c : ~(x.number <= c) => SameAt(rows, c, rows2, c, d)
      BY <2>6, <2>8
    <3> QED BY <1>6, <2>3, <2>9, <3>1 DEF RowsGo, rows, rows2
  <2>10. CASE x.todo[1][2] # d
    <3>1. \A c : SameAt(rows, c, rows2, c, d)
      BY <2>6, <2>8, <2>10
    <3> QED BY <2>3, <3>1 DEF RowsGo, rows, rows2
  <2> QED BY <2>9, <2>10
<1>7. CASE Clears(w)
  <2>1. /\ x.todo # <<>> /\ Name(x) = "erase" /\ x.req.kind = "purge" /\ disk["bodyRevs"] # Torn
        /\ y.req = x.req /\ y.result = disk["bodyRevs"]
    BY <1>7 DEF Clears
  <2>2. y.todo # <<>> /\ Name(y) = "locate"
    BY <1>7, ClearPlan
  <2>3. rows2 = rows /\ Readable(disk, x)
    BY <2>1, <2>2 DEF RowsNow, Readable, InPurge
  <2> QED BY <2>3, RowsUnchanged
<1>8. CASE TakesBack(w)
  <2>1. /\ x.todo # <<>> /\ Name(x) = "rollback" /\ x.req.kind = "purge"
        /\ y.todo = Tail(x.todo) /\ disk'["bodyRevs"] = x.result
    BY <1>8 DEF TakesBack, Writes
  <2>2. InPurge(x) /\ LeftOfPurge(x.todo)
    BY <2>1 DEF InPurge, PlanInv, Purges
  <2>3. y.todo = <<>>
    BY <1>8, TakeBackPlan
  <2>4. rows2 = rows /\ Readable(disk, x)
    BY <2>1, <2>2, <2>3 DEF RowsNow, Readable, InPurge
  <2> QED BY <2>4, RowsUnchanged
<1>9. CASE Stops(w)
  <2>1. y.todo = <<>> /\ Spared("bodyRevs") /\ Broken(w) \subseteq lost'
    BY <1>9 DEF Stops, Files
  <2>2. ~InPurge(y) /\ disk["bodyRevs"] # Torn /\ disk'["bodyRevs"] = disk["bodyRevs"]
    BY <2>1 DEF InPurge, Readable, Spared
  <2>3. rows2 = disk["bodyRevs"] /\ Readable(disk, x)
    BY <2>2 DEF RowsNow, Readable
  <2>4. CASE ~InPurge(x)
    <3>1. rows2 = rows
      BY <2>3, <2>4 DEF RowsNow
    <3> QED BY <2>3, <3>1, RowsUnchanged
  <2>5. CASE InPurge(x)
    <3>1. /\ \E name \in {"audit", "rollback"} : StagedIn(x.todo, name, x.req.doc)
          /\ ~HasKeep(x.todo) /\ x.wrote
          /\ Cleared(rows2, x.result, x.req.doc)
      BY <2>2, <2>3, <2>5, PurgeLeft
    <3>2. CASE d = x.req.doc
      <4>1. PICK name \in {"audit", "rollback"}, i \in 1..Len(x.todo) : x.todo[i] = <<name, d>>
        BY <3>1, <3>2 DEF StagedIn
      <4>2. x.todo \in Seq(Stage)
        BY <1>a DEF SlotOK, Formed
      <4>3. ToSet(x.todo) = {x.todo[j] : j \in 1..Len(x.todo)}
        BY <4>2 DEF ToSet
      <4>4. ~\E e \in ToSet(x.todo) : e[1] = "keep"
        BY <3>1, <4>3 DEF HasKeep
      <4>5. <<name, d>> \in ToSet(x.todo) /\ name \in Recorded
        BY <4>1, <4>3 DEF Recorded
      <4>6. <<name, d>> \in Broken(w)
        BY <3>1, <4>4, <4>5 DEF Broken
      <4>7. Blanked(lost', d)
        BY <2>1, <4>1, <4>6 DEF Blanked
      <4> QED BY <4>7 DEF RowsGo
    <3>3. CASE d # x.req.doc
      <4>1. rows = x.result
        BY <2>5 DEF RowsNow
      <4>2. rows \in Seq(BodyRow(Texts, States)) /\ rows2 \in Seq(BodyRow(Texts, States))
        <5>1. rows \in Seq(BodyRow(Texts, States))
          BY <2>3, RowsAre
        <5>2. disk["bodyRevs"] \in Seq(BodyRow(Texts, States))
          BY <2>2 DEF FileInv, DiskOK, Files, Shaped
        <5> QED BY <2>3, <5>1, <5>2
      <4> HIDE DEF rows, rows2
      <4>3. \A c : SameAt(rows, c, rows2, c, d)
        BY <3>1, <3>3, <4>1, <4>2, SameCleared
      <4> QED BY <2>3, <4>3 DEF RowsGo, rows, rows2
    <3> QED BY <3>2, <3>3
  <2> QED BY <2>4, <2>5
<1>10. CASE Undoes(w)
  <2>1. x.todo # <<>> /\ Name(x) = "audit" /\ x.req.kind = "purge" /\ y.req = x.req /\ y.result = x.result
    BY <1>10 DEF Undoes
  <2>2. y.todo # <<>> /\ Name(y) = "rollback"
    BY <1>10, UndoPlan
  <2>3. rows2 = rows /\ Readable(disk, x)
    BY <2>1, <2>2 DEF RowsNow, Readable, InPurge
  <2> QED BY <2>3, RowsUnchanged
<1>11. CASE Answers(w) \/ Thinks(w) \/ Elsewhere(w)
  <2>1. disk' = disk
    BY <1>11 DEF Answers, Thinks, Elsewhere
  <2>2. CASE y = x
    <3>1. rows2 = rows /\ Readable(disk, x)
      BY <2>1, <2>2
    <3> QED BY <3>1, RowsUnchanged
  <2>3. CASE ~InPurge(x) /\ ~InPurge(y)
    <3>1. rows2 = rows /\ Readable(disk, x)
      BY <2>1, <2>3 DEF RowsNow, Readable
    <3> QED BY <3>1, RowsUnchanged
  <2> QED BY <1>11, <2>2, <2>3 DEF Answers, Thinks, Elsewhere, Uncommitted, InPurge
<1> QED BY <1>1, <1>2, <1>3, <1>4, <1>5, <1>6, <1>7, <1>8, <1>9, <1>10, <1>11 DEF Did, Considers

\* The rows of files that do not parse apart, all numbers are those of events.
LEMMA RowsBelow ==
    ASSUME NEW events \in Seq(Event), Rising(events), NEW S, NEW rows \in Seq(S), Covered(rows, events)
    PROVE  \A i \in DOMAIN rows : rows[i].seq \in Nat /\ rows[i].seq <= Number(events)
<1>1. \A n, d : Row(events, n, d) => n \in Nat /\ n <= Number(events)
  BY NumbersBelow
<1> QED BY <1>1 DEF Covered

LEMMA EventsAre ==
    ASSUME NEW Texts, NEW States, NEW w, OneWriter(w), FileInv(Texts, States, w), disk["events"] # Torn
    PROVE  disk["events"] \in Seq(Event) /\ Rising(disk["events"]) /\ Number(disk["events"]) \in Nat
<1>1. disk["events"] \in Seq(Event)
  BY DEF FileInv, DiskOK, Files, Shaped
<1> QED BY <1>1, NumberIs DEF FileInv, NumbersOK

LEMMA WipedEffaces ==
    ASSUME NEW Texts, NEW States, NEW w, OneWriter(w), FileInv(Texts, States, w), FileInv(Texts, States, w)',
           PlanInv(w), NEW d, Wiped(w, d), Readable(disk', slot'[w]), NEW c
    PROVE  Effaced(RowsNow(disk', slot'[w]), disk'["events"], lost', d, c)
<1> DEFINE x == slot[w]
           y == slot'[w]
           events == disk["events"]
           e == [seq |-> x.number, doc |-> d, kind |-> x.req.kind]
<1>1. Announces(w) /\ x.req.kind = "purge" /\ x.todo[1][2] = d
  BY DEF Wiped
<1>2. events # Torn /\ disk'["events"] = Append(events, e)
  BY <1>1 DEF Announces, Writes
<1>3. events \in Seq(Event) /\ Rising(events) /\ Number(events) \in Nat
  BY <1>2, EventsAre
<1>4. x.number = Number(events) + 1
  BY <1>1, EventPlan
<1>5. ~InPurge(y) /\ disk'["bodyRevs"] = disk["bodyRevs"]
  BY <1>1, AuditLast
<1>6. disk["bodyRevs"] # Torn
  BY <1>5 DEF Readable
<1>7. disk["bodyRevs"] \in Seq(BodyRow(Texts, States)) /\ Covered(disk["bodyRevs"], events)
  BY <1>2, <1>6 DEF FileInv, DiskOK, Files, Shaped, NumbersOK
<1>8. PICK rows, S : rows = disk["bodyRevs"] /\ S = BodyRow(Texts, States)
  OBVIOUS
<1>9. \A i \in DOMAIN rows : rows[i].seq \in Nat /\ rows[i].seq <= Number(events)
  BY <1>3, <1>7, <1>8, RowsBelow
<1>10. \A r \in BodyAt(rows, d, c) : r.seq < x.number
  <2>1. \A k \in LastOf(Upto(rows, d, c)) : k \in DOMAIN rows
    BY DEF LastOf, Upto
  <2>2. \A k \in LastOf(Upto(rows, d, c)) : rows[k].seq < x.number
    BY <1>3, <1>4, <1>9, <2>1
  <2> QED BY <2>2, BodyAtIs
<1>11. PICK ev, f, n : ev = disk'["events"] /\ f = e /\ n = Len(events) + 1
  OBVIOUS
<1>12. n \in DOMAIN ev /\ ev[n] = f
  BY <1>2, <1>3, <1>11
<1>13. f.kind = "purge" /\ f.doc = d /\ f.seq = x.number
  BY <1>1, <1>11
<1>14. Effaced(rows, ev, lost', d, c)
  BY <1>10, <1>12, <1>13 DEF Effaced
<1> QED BY <1>5, <1>8, <1>11, <1>14 DEF RowsNow

\* What the rows tell of d at a cursor is told after the step, at c2, or gone.
CarriesOn(w, d, c, c2) ==
    LET rows == RowsNow(disk, slot[w])  rows2 == RowsNow(disk', slot'[w])
    IN  \/ Effaced(rows2, disk'["events"], lost', d, c2)
        \/ /\ Readable(disk, slot[w])
           /\ Effaced(rows, disk["events"], lost, d, c) => Effaced(rows2, disk'["events"], lost', d, c2)
           /\ \A body, body2 : Shown(body2) = Shown(body) /\ Tells(rows, disk["events"], lost, d, c, body) =>
                Tells(rows2, disk'["events"], lost', d, c2, body2)

LEMMA RowsTell ==
    ASSUME NEW Texts, NEW States, NEW w, OneWriter(w), FileInv(Texts, States, w), FileInv(Texts, States, w)',
           PlanInv(w), Did(w), ThinsNothing, Readable(disk', slot'[w]), disk'["events"] # Torn, NEW d \in Docs,
           NEW c, NEW c2, Readable(disk, slot[w]) => Upto(RowsNow(disk, slot[w]), d, c2) = Upto(RowsNow(disk, slot[w]), d, c),
           ~(Retains(w) /\ slot[w].todo[1][2] = d /\ slot[w].number <= c2)
    PROVE  CarriesOn(w, d, c, c2)
<1> DEFINE x == slot[w]
           y == slot'[w]
           rows == RowsNow(disk, x)
           rows2 == RowsNow(disk', y)
           events == disk["events"]
           events2 == disk'["events"]
<1>1. RowsGo(w, d)
  BY RowsStep
<1>2. CASE Blanked(lost', d)
  BY <1>2 DEF Effaced, CarriesOn
<1>3. CASE Wiped(w, d)
  <2>1. Effaced(rows2, events2, lost', d, c2)
    BY <1>3, WipedEffaces
  <2> QED BY <2>1 DEF CarriesOn
<1>4. CASE ~Blanked(lost', d) /\ ~Wiped(w, d)
  <2>1. Readable(disk, x) /\ SameAt(rows, c2, rows2, c2, d)
    BY <1>1, <1>4 DEF RowsGo
  <2>2. SameAt(rows, c, rows2, c2, d)
    BY <2>1 DEF SameAt
  <2>3. rows \in Seq(BodyRow(Texts, States))
    BY <2>1, RowsAre
  <2>4. \A i \in DOMAIN events : i \in DOMAIN events2 /\ events2[i] = events[i]
    BY EventsGrow
  <2>5. ~Blanked(lost, d)
    BY <1>4, GoneStays
  <2> HIDE DEF rows, rows2, events, events2
  <2>6. DOMAIN rows \subseteq Nat
    <3>1. PICK S : S = BodyRow(Texts, States)
      OBVIOUS
    <3>2. rows \in Seq(S)
      BY <2>3, <3>1
    <3>3. DOMAIN rows = 1..Len(rows)
      BY <3>2
    <3> QED BY <3>3
  <2>7. ASSUME NEW body, NEW body2, Shown(body2) = Shown(body)
        PROVE  /\ Effaced(rows, events, lost, d, c) => Effaced(rows2, events2, lost', d, c2)
               /\ Tells(rows, events, lost, d, c, body) => Tells(rows2, events2, lost', d, c2, body2)
    <3>1. PICK gone2 : gone2 = lost'
      OBVIOUS
    <3>2. /\ Effaced(rows, events, lost, d, c) => Effaced(rows2, events2, gone2, d, c2)
          /\ Tells(rows, events, lost, d, c, body) => Tells(rows2, events2, gone2, d, c2, body2)
      BY <2>2, <2>4, <2>5, <2>6, <2>7, TellsStays
    <3> QED BY <3>1, <3>2
  <2>8. Effaced(rows, events, lost, d, c) => Effaced(rows2, events2, lost', d, c2)
    BY <2>7
  <2> QED BY <2>1, <2>7, <2>8 DEF CarriesOn, rows, rows2, events, events2
<1> QED BY <1>2, <1>3, <1>4

\* The paths up to a cursor stay, but for those of the document placed there.
LEMMA PathsStay ==
    ASSUME NEW Texts, NEW States, NEW w, OneWriter(w), FileInv(Texts, States, w),
           Did(w), disk'["paths"] # Torn, NEW d, NEW c,
           ~(Places(w) /\ slot[w].todo[1][2] = d /\ slot[w].number <= c)
    PROVE  disk["paths"] # Torn /\ HistoryPath(disk'["paths"], d, c) = HistoryPath(disk["paths"], d, c)
<1> DEFINE x == slot[w]
<1>1. CASE Places(w)
  <2>1. disk["paths"] # Torn /\ disk'["paths"] = Append(disk["paths"], PathOf(x, x.todo[1][2]))
    BY <1>1 DEF Places, Writes
  <2>2. disk["paths"] \in Seq(PathRow)
    BY <2>1 DEF FileInv, DiskOK, Files, Shaped
  <2>3. PICK p, q, row, S : p = disk["paths"] /\ q = disk'["paths"] /\ row = PathOf(x, x.todo[1][2]) /\ S = PathRow
    OBVIOUS
  <2>4. row.doc = x.todo[1][2] /\ row.seq = x.number
    BY <2>3 DEF PathOf
  <2>5. p \in Seq(S) /\ q = Append(p, row) /\ (row.doc # d \/ ~(row.seq <= c))
    BY <1>1, <2>1, <2>2, <2>3, <2>4
  <2>6. Unmoved(p, c, q, c, d)
    BY <2>5, UptoAppended
  <2>7. HistoryPath(q, d, c) = HistoryPath(p, d, c)
    BY <2>6, SamePath
  <2> QED BY <2>1, <2>3, <2>7
<1>2. CASE ~Places(w)
  BY <1>2, FilesMoved DEF Spared
<1> QED BY <1>1, <1>2

\* An event does not change what is told at its number.
LEMMA NumberStays ==
    ASSUME NEW Texts, NEW States, NEW w, OneWriter(w), FileInv(Texts, States, w), FileInv(Texts, States, w)',
           PlanInv(w), Did(w), disk'["events"] # Torn, NEW d
    PROVE  /\ disk["paths"] # Torn =>
                HistoryPath(disk["paths"], d, Number(disk'["events"])) = HistoryPath(disk["paths"], d, Number(disk["events"]))
           /\ Readable(disk, slot[w]) =>
                Upto(RowsNow(disk, slot[w]), d, Number(disk'["events"])) = Upto(RowsNow(disk, slot[w]), d, Number(disk["events"]))
<1>1. /\ disk["events"] # Torn /\ Number(disk["events"]) \in Nat /\ Number(disk'["events"]) \in Nat
      /\ Number(disk["events"]) <= Number(disk'["events"])
  BY EventsGrow
<1>2. disk["events"] \in Seq(Event) /\ Rising(disk["events"])
  BY <1>1, EventsAre
<1>3. PICK n, m, events : n = Number(disk["events"]) /\ m = Number(disk'["events"]) /\ events = disk["events"]
  OBVIOUS
<1>4. n \in Nat /\ m \in Nat /\ n <= m /\ n = Number(events)
  BY <1>1, <1>3
<1>5. ASSUME NEW S, NEW rows \in Seq(S), Covered(rows, events) PROVE Upto(rows, d, m) = Upto(rows, d, n)
  <2>1. \A i \in DOMAIN rows : rows[i].seq \in Nat /\ rows[i].seq <= n
    BY <1>2, <1>3, <1>5, RowsBelow
  <2> QED BY <1>4, <2>1, UptoLater
<1>6. ASSUME disk["paths"] # Torn PROVE HistoryPath(disk["paths"], d, m) = HistoryPath(disk["paths"], d, n)
  <2>1. disk["paths"] \in Seq(PathRow) /\ Covered(disk["paths"], disk["events"])
    BY <1>1, <1>6 DEF FileInv, DiskOK, Files, Shaped, NumbersOK
  <2>2. PICK rows : rows = disk["paths"]
    OBVIOUS
  <2>3. Upto(rows, d, m) = Upto(rows, d, n)
    BY <1>3, <1>5, <2>1, <2>2
  <2>4. Unmoved(rows, n, rows, m, d)
    BY <2>3 DEF Unmoved
  <2> QED BY <2>2, <2>4, SamePath
<1>7. ASSUME Readable(disk, slot[w]) PROVE Upto(RowsNow(disk, slot[w]), d, m) = Upto(RowsNow(disk, slot[w]), d, n)
  <2>1. /\ RowsNow(disk, slot[w]) \in Seq(BodyRow(Texts, States)) /\ Covered(RowsNow(disk, slot[w]), disk["events"])
    BY <1>1, <1>7, RowsAre
  <2>2. PICK rows : rows = RowsNow(disk, slot[w])
    OBVIOUS
  <2>3. Upto(rows, d, m) = Upto(rows, d, n)
    BY <1>3, <1>5, <2>1, <2>2
  <2> QED BY <2>2, <2>3
<1> QED BY <1>3, <1>6, <1>7

\* The number a row gets is that of the last event or one before it.
LEMMA RowNumber ==
    ASSUME NEW Texts, NEW States, NEW w, OneWriter(w), FileInv(Texts, States, w),
           disk["events"] # Torn, slot[w].todo # <<>>, Name(slot[w]) \in History
    PROVE  slot[w].number \in Nat /\ slot[w].number <= Number(disk["events"])
<1>1. SlotOK(Texts, States, disk, slot[w])
  BY StageParts
<1>2. Row(disk["events"], slot[w].number, slot[w].todo[1][2])
  BY <1>1 DEF SlotOK, Due, Numbered
<1>3. disk["events"] \in Seq(Event) /\ Rising(disk["events"])
  BY EventsAre
<1> QED BY <1>2, <1>3, NumbersBelow

\* What a request that records has kept.
LEMMA RecordKept ==
    ASSUME NEW Texts, NEW States, NEW w, OneWriter(w), FileInv(Texts, States, w), PlanInv(w),
           slot[w].todo # <<>>, Name(slot[w]) \in {"body", "path"}, disk["snapshot"] # Torn
    PROVE  slot[w].req.kind \in Plans /\ Committed(slot[w]) /\ disk["snapshot"] = slot[w].snap
<1> DEFINE x == slot[w]
<1>1. SlotOK(Texts, States, disk, x) /\ Name(x) \in NamesOf(x.req.kind) /\ x.req.kind \in Kinds \cup {"none"}
  <2>1. SlotOK(Texts, States, disk, x)
    BY StageParts
  <2> QED BY <2>1, SlotParts DEF SlotOK, Request
<1>2. x.req.kind \in Plans
  BY <1>1 DEF NamesOf, Kinds, Plans, Purging
<1>3. Committed(x)
  BY <1>2 DEF Committed, Recording, History
<1> QED BY <1>2, <1>3 DEF PlanInv, Fulfilled

LEMMA PresentPath ==
    ASSUME NEW Texts, NEW States, NEW w, OneWriter(w), FileInv(Texts, States, w), FileInv(Texts, States, w)',
           PlanInv(w), Did(w), Present(disk, lost, slot[w]),
           disk'["events"] # Torn, disk'["snapshot"] # Torn, disk'["paths"] # Torn, NEW d \in Docs
    PROVE  Open(lost', slot'[w], "path", d)
           \/ HistoryPath(disk'["paths"], d, Number(disk'["events"])) = Spot(disk'["snapshot"], d)
<1> DEFINE x == slot[w]
           y == slot'[w]
           c == Number(disk["events"])
           c2 == Number(disk'["events"])
<1>1. disk["events"] # Torn /\ c \in Nat /\ c2 \in Nat
  BY EventsGrow
<1>2. SlotOK(Texts, States, disk, x)
  BY StageParts
<1>3. CASE Places(w) /\ x.todo[1][2] = d
  <2>1. /\ x.todo # <<>> /\ Name(x) = "path" /\ disk["paths"] # Torn /\ disk'["paths"] = Append(disk["paths"], PathOf(x, d))
        /\ disk'["snapshot"] = disk["snapshot"] /\ disk'["events"] = disk["events"]
    BY <1>3 DEF Places, Writes, Files
  <2>2. Name(x) \in History
    BY <2>1 DEF History
  <2>3. x.number \in Nat /\ x.number <= c
    BY <1>1, <2>1, <2>2, RowNumber
  <2>4. disk["snapshot"] = x.snap
    BY <2>1, RecordKept
  <2>5. \A i \in DOMAIN disk["paths"] : disk["paths"][i].seq < x.number
    BY <2>1, <2>2 DEF PlanInv, Fulfilled
  <2>6. disk["paths"] \in Seq(PathRow) /\ Covered(disk["paths"], disk["events"])
    BY <1>1, <2>1 DEF FileInv, DiskOK, Files, Shaped, NumbersOK
  <2>7. disk["events"] \in Seq(Event) /\ Rising(disk["events"])
    BY <1>1, EventsAre
  <2>8. PICK p, q, row, S : p = disk["paths"] /\ q = disk'["paths"] /\ row = PathOf(x, d) /\ S = PathRow
    OBVIOUS
  <2>9. \A i \in DOMAIN p : p[i].seq \in Nat
    BY <2>6, <2>7, <2>8, RowsBelow
  <2>10. row.seq = x.number /\ row.doc = d /\ row.path = x.snap.path[d] /\ row.live = (d \in x.snap.live)
    BY <2>8 DEF PathOf
  <2>11. p \in Seq(S) /\ q = Append(p, row) /\ row.seq \in Nat /\ row.seq <= c
         /\ \A i \in DOMAIN p : p[i].seq \in Nat /\ p[i].seq < row.seq
    BY <2>1, <2>3, <2>5, <2>6, <2>8, <2>9, <2>10
  <2> HIDE DEF c
  <2>12. HistoryPath(q, d, c) = IF row.live THEN {row.path} ELSE {}
    BY <2>10, <2>11, PathAppended
  <2>13. Spot(x.snap, d) = IF row.live THEN {row.path} ELSE {}
    BY <2>10 DEF Spot
  <2> QED BY <2>1, <2>4, <2>8, <2>12, <2>13 DEF c
<1>4. CASE ~(Places(w) /\ x.todo[1][2] = d)
  <2>1. disk["paths"] # Torn /\ HistoryPath(disk'["paths"], d, c2) = HistoryPath(disk["paths"], d, c2)
    BY <1>4, PathsStay
  <2>2. HistoryPath(disk["paths"], d, c2) = HistoryPath(disk["paths"], d, c)
    BY <2>1, NumberStays
  <2>3. CASE Keeps(w)
    <3>1. /\ x.todo # <<>> /\ Name(x) = "keep" /\ x.req.kind \in Plans /\ y.req = x.req /\ y.todo = Tail(x.todo)
          /\ disk'["snapshot"] = x.snap /\ lost \subseteq lost'
      BY <2>3 DEF Keeps, Goes, Writes
    <3>2. disk["snapshot"] # Torn /\ x.old = disk["snapshot"]
      BY <1>2, <3>1 DEF SlotOK, Due, Kept, Planning
    <3>3. Open(lost, x, "path", d) \/ HistoryPath(disk["paths"], d, c) = Spot(x.old, d)
      BY <1>1, <2>1, <3>2 DEF Present
    <3>4. Open(lost, x, "path", d) => Open(lost', y, "path", d)
      BY <3>1 DEF Open, Committed, Recording, History
    <3>5. Changes(x, d)
      BY <3>1 DEF PlanInv, Foreseen, Planning
    <3>6. Committed(y)
      BY <2>3, KeepPlan
    <3>7. Staged(x, "path", d) => Staged(y, "path", d)
      <4>1. x.todo \in Seq(Stage)
        BY <1>2 DEF SlotOK, Formed
      <4> QED BY <3>1, <4>1, TailStaged DEF Staged, Name
    <3> QED BY <2>1, <2>2, <3>1, <3>3, <3>4, <3>5, <3>6, <3>7 DEF Changes, Open
  <2>4. CASE ~Keeps(w)
    <3>1. disk'["snapshot"] = disk["snapshot"]
      BY <2>4, FilesMoved DEF Spared
    <3>2. Open(lost, x, "path", d) \/ HistoryPath(disk["paths"], d, c) = Spot(disk["snapshot"], d)
      BY <1>1, <2>1, <3>1 DEF Present
    <3>3. Opens(w, "path", d)
      <4>1. Opens(w, "path", d) \/ Closes(w, "path", d)
        BY StepOpens
      <4>2. ~Closes(w, "path", d)
        BY <1>4 DEF Closes
      <4> QED BY <4>1, <4>2
    <3> QED BY <2>1, <2>2, <3>1, <3>2, <3>3 DEF Opens
  <2> QED BY <2>3, <2>4
<1> QED BY <1>3, <1>4

LEMMA ShownTwice ==
    ASSUME NEW body
    PROVE  Shown(Shown(body)) = Shown(body)
BY DEF Shown

\* A revision reads as the text its request kept, unless the history blurs it.
LEMMA RevisionTells ==
    ASSUME NEW Texts, NEW States, NEW w, OneWriter(w), FileInv(Texts, States, w), PlanInv(w),
           slot[w].todo # <<>>, Name(slot[w]) = "body", NEW rows, NEW d, slot[w].todo[1][2] = d, Doc(w) = d,
           ~Blurred(slot[w], rows, d)
    PROVE  Shown(Revision(w, rows).replayed.text) = Shown(slot[w].snap.bodies[d])
<1> DEFINE x == slot[w]
           edit == x.req.edit
<1>1. SlotOK(Texts, States, disk, x) /\ Name(x) \in NamesOf(x.req.kind) /\ x.req.kind \in Kinds \cup {"none"}
      /\ (x.req.kind # "rewind" => x.todo[1][2] = x.req.doc)
  <2>1. SlotOK(Texts, States, disk, x)
    BY StageParts
  <2> QED BY <2>1, SlotParts DEF SlotOK, Request
<1>2. CASE x.req.kind = "rewind"
  <2>1. Revision(w, rows).replayed.text = Shown(x.snap.bodies[d])
    BY <1>2 DEF Revision, Checkpoint
  <2> QED BY <2>1, ShownTwice
<1>3. CASE x.req.kind # "rewind"
  <2>1. x.req.kind \in Texting /\ d = x.req.doc
    BY <1>1, <1>3 DEF NamesOf, Kinds, Texting, Purging
  <2>2. Texted(x) /\ (x.req.kind # "update" => x.result.onto = NoState)
    BY <1>1, <2>1 DEF SlotOK, Due, Worked, PlanInv, Fulfilled
  <2>3. Revision(w, rows).replayed = ReplayedState(w, rows)
    BY <1>3 DEF Revision
  <2>4. CASE x.result.onto = NoState
    <3>1. ReplayedState(w, rows).text = x.result.own
      BY <2>4 DEF ReplayedState, Checkpoint
    <3>2. x.result.own = x.snap.bodies[d]
      BY <2>1, <2>2, <2>4 DEF Texted
    <3> QED BY <2>3, <3>1, <3>2
  <2>5. CASE x.result.onto # NoState
    <3>1. x.result.onto = HeldState(rows, d)
      BY <2>2, <2>5 DEF Blurred
    <3>2. ReplayedState(w, rows) = ApplyUpdate(x.result.onto, edit.actor, edit.base, edit.text)
      BY <2>5, <3>1 DEF ReplayedState
    <3>3. ReplayedState(w, rows) = x.result.state
      BY <2>2, <2>5, <3>2 DEF Texted
    <3>4. x.result.state.text = x.snap.bodies[d]
      BY <2>1, <2>2 DEF Texted
    <3> QED BY <2>3, <3>3, <3>4
  <2> QED BY <2>4, <2>5
<1> QED BY <1>2, <1>3

\* The text a snapshot is about to have is told, or has a row to be written.
LEMMA KeepTells ==
    ASSUME NEW Texts, NEW States, NEW w, OneWriter(w), FileInv(Texts, States, w), PlanInv(w), Keeps(w),
           NEW d \in Docs, d \in slot[w].snap.live
    PROVE  \/ Open(lost', slot'[w], "body", d)
           \/ d \in slot[w].old.live /\ Shown(slot[w].snap.bodies[d]) = Shown(slot[w].old.bodies[d])
<1> DEFINE x == slot[w]
           y == slot'[w]
<1>1. /\ x.todo # <<>> /\ Name(x) = "keep" /\ x.req.kind \in Plans /\ y.req = x.req /\ y.todo = Tail(x.todo)
      /\ lost' = lost \cup LeftBehind(w) \cup Unretained(w)
  BY DEF Keeps, Goes
<1>2. Changes(x, d)
  BY <1>1 DEF PlanInv, Foreseen, Planning
<1>3. Staged(x, "body", d) => Open(lost', y, "body", d)
  <2>1. x.todo \in Seq(Stage)
    BY StageParts DEF SlotOK, Formed
  <2>2. Staged(x, "body", d) => Staged(y, "body", d)
    BY <1>1, <2>1, TailStaged DEF Staged, Name
  <2>3. Committed(y)
    BY KeepPlan
  <2> QED BY <2>2, <2>3 DEF Open
<1>4. CASE d \in x.old.live
  BY <1>2, <1>3, <1>4 DEF Changes
<1>5. CASE d \notin x.old.live /\ x.req.kind # "rewind"
  BY <1>2, <1>3, <1>5 DEF Changes
<1>6. CASE d \notin x.old.live /\ x.req.kind = "rewind"
  <2>1. CASE Shown(x.snap.bodies[d]) # Shown(x.old.bodies[d])
    BY <1>2, <1>3, <2>1 DEF Changes
  <2>2. CASE Shown(x.snap.bodies[d]) = Shown(x.old.bodies[d])
    <3>1. <<"body", d>> \in Unretained(w)
      BY <1>6, <2>2 DEF Unretained, BodyChanged
    <3> QED BY <1>1, <3>1 DEF Open
  <2> QED BY <2>1, <2>2
<1> QED BY <1>4, <1>5, <1>6

LEMMA PresentBody ==
    ASSUME NEW Texts, NEW States, NEW w, OneWriter(w), FileInv(Texts, States, w), FileInv(Texts, States, w)',
           PlanInv(w), Did(w), ThinsNothing, Present(disk, lost, slot[w]),
           disk'["events"] # Torn, disk'["snapshot"] # Torn, Readable(disk', slot'[w]), NEW d \in Docs,
           d \in disk'["snapshot"].live
    PROVE  \/ Open(lost', slot'[w], "body", d)
           \/ Tells(RowsNow(disk', slot'[w]), disk'["events"], lost', d, Number(disk'["events"]), disk'["snapshot"].bodies[d])
<1> DEFINE x == slot[w]
           y == slot'[w]
           c == Number(disk["events"])
           c2 == Number(disk'["events"])
           rows == RowsNow(disk, x)
           rows2 == RowsNow(disk', y)
<1>1. disk["events"] # Torn /\ c \in Nat /\ c2 \in Nat
  BY EventsGrow
<1>2. SlotOK(Texts, States, disk, x)
  BY StageParts
<1>3. CASE Retains(w) /\ x.todo[1][2] = d
  <2>1. /\ x.todo # <<>> /\ Name(x) = "body" /\ disk["bodyRevs"] # Torn /\ Doc(w) = d /\ y.req = x.req
        /\ disk'["bodyRevs"] = Append(disk["bodyRevs"], Revision(w, disk["bodyRevs"]))
        /\ disk'["snapshot"] = disk["snapshot"] /\ disk'["events"] = disk["events"]
        /\ lost' = IF Blurred(x, disk["bodyRevs"], d) THEN lost \cup {<<"body", d>>} ELSE lost \ {<<"body", d>>}
    BY <1>3 DEF Retains, Goes, Writes, Files
  <2>2. CASE Blurred(x, disk["bodyRevs"], d)
    BY <2>1, <2>2 DEF Open
  <2>3. CASE ~Blurred(x, disk["bodyRevs"], d)
    <3>1. x.number \in Nat /\ x.number <= c
      BY <1>1, <2>1, RowNumber DEF History
    <3>2. disk["snapshot"] = x.snap /\ x.req.kind # "purge"
      BY <2>1, RecordKept DEF Plans
    <3>3. rows2 = disk'["bodyRevs"]
      BY <2>1, <3>2 DEF RowsNow, InPurge
    <3>4. disk["bodyRevs"] \in Seq(BodyRow(Texts, States))
      BY <2>1 DEF FileInv, DiskOK, Files, Shaped
    <3>5. PICK p, q, row, S : /\ p = disk["bodyRevs"] /\ q = disk'["bodyRevs"] /\ row = Revision(w, disk["bodyRevs"])
                              /\ S = BodyRow(Texts, States)
      OBVIOUS
    <3>6. row.seq = x.number /\ row.doc = d
      BY <2>1, <3>5 DEF Revision
    <3>7. p \in Seq(S) /\ q = Append(p, row) /\ row.seq <= c
      BY <2>1, <3>1, <3>4, <3>5, <3>6
    <3>8. HistoryText(q, d, c) = row.replayed.text
      BY <3>6, <3>7, TextAppended
    <3>9. Shown(row.replayed.text) = Shown(x.snap.bodies[d])
      BY <1>3, <2>1, <2>3, <3>5, RevisionTells
    <3>10. Shown(HistoryText(rows2, d, c2)) = Shown(disk'["snapshot"].bodies[d])
      BY <2>1, <3>2, <3>3, <3>5, <3>8, <3>9
    <3> QED BY <3>10 DEF Tells
  <2> QED BY <2>2, <2>3
<1>4. CASE ~(Retains(w) /\ x.todo[1][2] = d)
  <2>1. Readable(disk, x) => Upto(rows, d, c2) = Upto(rows, d, c)
    BY NumberStays
  <2>2. CarriesOn(w, d, c, c2)
    BY <1>4, <2>1, RowsTell
  <2>3. Opens(w, "body", d)
    <3>1. Opens(w, "body", d) \/ Closes(w, "body", d)
      BY StepOpens
    <3>2. ~Closes(w, "body", d)
      BY <1>4 DEF Closes
    <3> QED BY <3>1, <3>2
  <2>4. CASE Effaced(rows2, disk'["events"], lost', d, c2)
    BY <2>4 DEF Tells
  <2>5. CASE ~Effaced(rows2, disk'["events"], lost', d, c2)
    <3>1. /\ Readable(disk, x)
          /\ \A body, body2 : Shown(body2) = Shown(body) /\ Tells(rows, disk["events"], lost, d, c, body) =>
                Tells(rows2, disk'["events"], lost', d, c2, body2)
      BY <2>2, <2>5 DEF CarriesOn
    <3>2. CASE Keeps(w)
      <4>1. x.todo # <<>> /\ Name(x) = "keep" /\ x.req.kind \in Plans /\ disk'["snapshot"] = x.snap
        BY <3>2 DEF Keeps, Writes
      <4>2. disk["snapshot"] # Torn /\ x.old = disk["snapshot"]
        BY <1>2, <4>1 DEF SlotOK, Due, Kept, Planning
      <4>3. CASE Open(lost', y, "body", d)
        BY <4>3
      <4>4. CASE d \in x.old.live /\ Shown(x.snap.bodies[d]) = Shown(x.old.bodies[d])
        <5>1. Open(lost, x, "body", d) \/ Tells(rows, disk["events"], lost, d, c, x.old.bodies[d])
          BY <1>1, <3>1, <4>2, <4>4 DEF Present
        <5>2. CASE Open(lost, x, "body", d)
          BY <2>3, <5>2 DEF Opens
        <5>3. CASE Tells(rows, disk["events"], lost, d, c, x.old.bodies[d])
          BY <3>1, <4>1, <4>4, <5>3
        <5> QED BY <5>1, <5>2, <5>3
      <4> QED BY <3>2, <4>1, <4>3, <4>4, KeepTells
    <3>3. CASE ~Keeps(w)
      <4>1. disk'["snapshot"] = disk["snapshot"]
        BY <3>3, FilesMoved DEF Spared
      <4>2. Open(lost, x, "body", d) \/ Tells(rows, disk["events"], lost, d, c, disk["snapshot"].bodies[d])
        BY <1>1, <3>1, <4>1 DEF Present
      <4>3. CASE Open(lost, x, "body", d)
        BY <2>3, <4>3 DEF Opens
      <4>4. CASE Tells(rows, disk["events"], lost, d, c, disk["snapshot"].bodies[d])
        BY <3>1, <4>1, <4>4
      <4> QED BY <4>2, <4>3, <4>4
    <3> QED BY <3>2, <3>3
  <2> QED BY <2>4, <2>5
<1> QED BY <1>3, <1>4

LEMMA PresentStep ==
    ASSUME NEW Texts, NEW States, NEW w, OneWriter(w), FileInv(Texts, States, w), FileInv(Texts, States, w)',
           PlanInv(w), Did(w), ThinsNothing, Present(disk, lost, slot[w])
    PROVE  Present(disk', lost', slot'[w])
BY PresentPath, PresentBody DEF Present

\* Rows are numbered above the snapshots of the past.
LEMMA RowsAfter ==
    ASSUME NEW w, PlanInv(w), NEW v \in past
    PROVE  /\ v.cursor \in Nat
           /\ Retains(w) \/ Places(w) => ~(slot[w].number <= v.cursor) \/ slot[w].number \notin Nat
<1> DEFINE n == slot[w].number
           c == v.cursor
<1>1. c \in Nat
  BY DEF PlanInv, Seen
<1>2. ASSUME Retains(w) \/ Places(w) PROVE c < n
  <2>1. slot[w].todo # <<>> /\ Name(slot[w]) \in {"body", "path"}
    BY <1>2 DEF Retains, Places
  <2> QED BY <2>1 DEF PlanInv, Seen, History
<1> HIDE DEF n, c
<1>3. c < n /\ n \in Nat => ~(n <= c)
  BY <1>1
<1> QED BY <1>1, <1>2, <1>3 DEF n, c

LEMMA NothingLeft ==
    ASSUME NEW gone, NEW x, x.todo = <<>>, NEW name, NEW d, Open(gone, x, name, d)
    PROVE  <<name, d>> \in gone
<1>1. Len(<<>>) = 0
  OBVIOUS
<1>2. ~StagedIn(<<>>, name, d)
  BY <1>1 DEF StagedIn
<1>3. ~Staged(x, name, d)
  BY <1>2 DEF Staged
<1> QED BY <1>3 DEF Open

LEMMA RememberedStep ==
    ASSUME NEW Texts, NEW States, NEW w, OneWriter(w), FileInv(Texts, States, w), FileInv(Texts, States, w)',
           PlanInv(w), Did(w), ThinsNothing, Present(disk, lost, slot[w]), Remembered(disk, lost, past, slot[w])
    PROVE  Remembered(disk', lost', past', slot'[w])
<1> DEFINE x == slot[w]
           y == slot'[w]
<1>a. x.number \in Nat
  BY StageParts DEF SlotOK
<1>1. ASSUME NEW v \in past, NEW d \in Docs, disk'["paths"] # Torn, <<"path", d>> \notin v.lost
      PROVE  HistoryPath(disk'["paths"], d, v.cursor) = Spot(v.snap, d)
  <2>1. ~(Places(w) /\ x.todo[1][2] = d /\ x.number <= v.cursor)
    BY <1>a, RowsAfter
  <2>2. disk["paths"] # Torn /\ HistoryPath(disk'["paths"], d, v.cursor) = HistoryPath(disk["paths"], d, v.cursor)
    BY <1>1, <2>1, PathsStay
  <2> QED BY <1>1, <2>2 DEF Remembered
<1>2. ASSUME NEW v \in past, NEW d \in Docs, disk'["events"] # Torn, Readable(disk', y), d \in v.snap.live,
             <<"body", d>> \notin v.lost
      PROVE  Tells(RowsNow(disk', y), disk'["events"], lost', d, v.cursor, v.snap.bodies[d])
  <2>1. ~(Retains(w) /\ x.todo[1][2] = d /\ x.number <= v.cursor)
    BY <1>a, RowsAfter
  <2>2. CarriesOn(w, d, v.cursor, v.cursor)
    BY <1>2, <2>1, RowsTell
  <2>3. disk["events"] # Torn
    BY <1>2, EventsGrow
  <2>4. Readable(disk, x) => Tells(RowsNow(disk, x), disk["events"], lost, d, v.cursor, v.snap.bodies[d])
    BY <1>2, <2>3 DEF Remembered
  <2> QED BY <2>2, <2>4 DEF CarriesOn, Tells
<1>3. CASE past' = past
  BY <1>1, <1>2, <1>3 DEF Remembered
<1>4. CASE past' # past
  <2>1. /\ Answers(w) /\ disk["events"] # Torn /\ disk["snapshot"] # Torn
        /\ past' = past \cup {[cursor |-> Current, snap |-> disk["snapshot"], lost |-> lost]}
    BY <1>4, PastGrows
  <2>2. x.todo = <<>> /\ y.todo = <<>> /\ disk' = disk /\ lost' = lost
    BY <2>1 DEF Answers
  <2>3. Current = Number(disk["events"])
    BY <2>1 DEF Current
  <2>4. ~InPurge(x) /\ ~InPurge(y)
    BY <2>2 DEF InPurge
  <2>5. PICK u : u = [cursor |-> Current, snap |-> disk["snapshot"], lost |-> lost]
    OBVIOUS
  <2>6. u.cursor = Number(disk["events"]) /\ u.snap = disk["snapshot"] /\ u.lost = lost
    BY <2>3, <2>5
  <2>7. ASSUME NEW d \in Docs, disk'["paths"] # Torn, <<"path", d>> \notin u.lost
        PROVE  HistoryPath(disk'["paths"], d, u.cursor) = Spot(u.snap, d)
    <3>1. ~Open(lost, x, "path", d)
      BY <2>2, <2>6, <2>7, NothingLeft
    <3>2. HistoryPath(disk["paths"], d, Number(disk["events"])) = Spot(disk["snapshot"], d)
      BY <2>1, <2>2, <2>7, <3>1 DEF Present
    <3> QED BY <2>2, <2>6, <3>2
  <2>8. ASSUME NEW d \in Docs, Readable(disk', y), d \in u.snap.live, <<"body", d>> \notin u.lost
        PROVE  Tells(RowsNow(disk', y), disk'["events"], lost', d, u.cursor, u.snap.bodies[d])
    <3>1. ~Open(lost, x, "body", d)
      BY <2>2, <2>6, <2>8, NothingLeft
    <3>2. Readable(disk, x) /\ RowsNow(disk', y) = RowsNow(disk, x)
      BY <2>2, <2>4, <2>8 DEF Readable, RowsNow
    <3>3. Tells(RowsNow(disk, x), disk["events"], lost, d, Number(disk["events"]), disk["snapshot"].bodies[d])
      BY <2>1, <2>6, <2>8, <3>1, <3>2 DEF Present
    <3> QED BY <2>2, <2>6, <3>2, <3>3
  <2>9. \A v \in past' : v \in past \/ v = u
    BY <2>1, <2>5
  <2> QED BY <1>1, <1>2, <2>7, <2>8, <2>9 DEF Remembered
<1> QED BY <1>3, <1>4

\* What d is in the snapshot a rewind goes back to.
Returned(files, gone, v, snap, d) ==
    /\ d \in snap.live <=> d \in v.snap.live
    /\ d \in v.snap.live => snap.path[d] = v.snap.path[d]
    /\ <<"body", d>> \notin v.lost =>
         \/ Shown(snap.bodies[d]) = Shown(v.snap.bodies[d])
         \/ Effaced(files["bodyRevs"], files["events"], gone, d, v.cursor)

LEMMA ReconstructsReturned ==
    ASSUME NEW Texts, NEW States, NEW w, OneWriter(w), FileInv(Texts, States, w), PlanInv(w),
           Remembered(disk, lost, past, slot[w]), Reconstructs(w),
           NEW v \in past, v.cursor = slot[w].req.target, disk["events"] # Torn, NEW d \in Docs, <<"path", d>> \notin v.lost
    PROVE  Returned(disk, lost, v, slot'[w].snap, d)
<1> DEFINE x == slot[w]
           c == v.cursor
           paths == disk["paths"]
           rows == disk["bodyRevs"]
<1>1. /\ x.req.kind = "rewind" /\ paths # Torn /\ rows # Torn
      /\ slot'[w].snap = Rewound(x.old, paths, rows, c)
  BY DEF Reconstructs
<1>2. HistoryPath(paths, d, c) = Spot(v.snap, d)
  BY <1>1 DEF Remembered
<1>3. Readable(disk, x) /\ RowsNow(disk, x) = rows
  BY <1>1 DEF Readable, RowsNow, InPurge
<1>4. d \in v.snap.live /\ <<"body", d>> \notin v.lost => Tells(rows, disk["events"], lost, d, c, v.snap.bodies[d])
  BY <1>3 DEF Remembered
<1>5. Bare(v.snap)
  BY DEF PlanInv, Seen
<1>6. PICK snap : snap = slot'[w].snap
  OBVIOUS
<1>7. /\ snap.live = There(paths, c)
      /\ snap.path[d] = IF HistoryPath(paths, d, c) = {} THEN x.old.path[d] ELSE CHOOSE p \in HistoryPath(paths, d, c) : TRUE
      /\ snap.bodies[d] = IF d \in There(paths, c) THEN HistoryText(rows, d, c) ELSE NoBody
  BY <1>1, <1>6 DEF Rewound, Placed
<1>8. d \in There(paths, c) <=> HistoryPath(paths, d, c) # {}
  BY DEF There
<1>9. Spot(v.snap, d) = IF d \in v.snap.live THEN {v.snap.path[d]} ELSE {}
  BY DEF Spot
<1> HIDE DEF c, paths, rows
<1>10. CASE d \in v.snap.live
  <2>1. HistoryPath(paths, d, c) = {v.snap.path[d]}
    BY <1>2, <1>9, <1>10
  <2>2. d \in snap.live /\ snap.path[d] = v.snap.path[d] /\ snap.bodies[d] = HistoryText(rows, d, c)
    BY <1>7, <1>8, <2>1
  <2>3. <<"body", d>> \notin v.lost => \/ Shown(snap.bodies[d]) = Shown(v.snap.bodies[d])
                                        \/ Effaced(rows, disk["events"], lost, d, c)
    BY <1>4, <1>10, <2>2 DEF Tells
  <2> QED BY <1>6, <1>10, <2>2, <2>3 DEF Returned, c, rows
<1>11. CASE d \notin v.snap.live
  <2>1. d \notin snap.live /\ snap.bodies[d] = NoBody
    BY <1>2, <1>7, <1>8, <1>9, <1>11
  <2>2. v.snap.bodies[d] = NoBody
    BY <1>5, <1>11 DEF Bare
  <2> QED BY <1>6, <1>11, <2>1, <2>2 DEF Returned
<1> QED BY <1>10, <1>11

\* A rewind that keeps or has kept its snapshot did so before the step.
LEMMA RewindOn ==
    ASSUME NEW Texts, NEW States, NEW w, OneWriter(w), FileInv(Texts, States, w), FileInv(Texts, States, w)',
           PlanInv(w), Did(w), ~(Thinks(w) /\ Reconstructs(w)),
           slot'[w].req.kind = "rewind", Committed(slot'[w]) \/ Name(slot'[w]) = "keep"
    PROVE  /\ slot[w].req = slot'[w].req /\ slot[w].snap = slot'[w].snap
           /\ Committed(slot[w]) \/ Name(slot[w]) = "keep"
<1> DEFINE x == slot[w]
           y == slot'[w]
<1>1. SlotOK(Texts, States, disk, x)
  BY StageParts
<1>2. CASE Reaches(w)
  <2>1. x.todo # <<>> /\ y.req = x.req /\ y.snap = x.snap /\ Follows(x.req.kind, x.todo, y.todo)
    BY <1>2 DEF Reaches, Held
  <2>2. CASE Name(x) \in Recording
    BY <2>1, <2>2 DEF Committed, Plans
  <2>3. CASE Name(x) \notin Recording /\ Name(x) # "keep"
    <3>1. Name(x) \in NamesOf("rewind")
      BY <1>1, <2>1, SlotParts
    <3>2. Name(x) \in Planning /\ Name(x) \in {"check", "snapshot", "history"}
      BY <2>3, <3>1 DEF NamesOf, Planning
    <3>3. HasKeep(x.todo) /\ Own(x)
      BY <2>1, <3>2 DEF PlanInv, Foreseen, Plans
    <3>4. HasKeep(y.todo)
      BY <2>1, <3>3 DEF Follows
    <3>5. Formed("rewind", y.req.doc, y.todo)
      BY SlotNext DEF SlotOK
    <3>6. /\ y.todo # <<>> /\ Name(y) \notin Recording
          /\ \A name \in Planning \ {"keep"} : \A e : StagedIn(y.todo, name, e) => Name(y) # "keep"
      BY <3>4, <3>5, KeptLater DEF Name
    <3>7. Name(y) = "keep"
      BY <3>6 DEF Committed
    <3>8. Name(x) \notin {"check", "snapshot"}
      BY <2>1, <3>6, <3>7 DEF Follows, Name, Plans, Planning
    <3>9. Name(x) = "history"
      BY <3>2, <3>8
    <3>10. \E e : StagedIn(x.todo, "history", e)
      <4>1. x.todo[1] \in Stage /\ Len(x.todo) \in Nat /\ Len(x.todo) > 0
        BY <1>1, <2>1, SlotParts
      <4>2. x.todo[1] = <<"history", x.todo[1][2]>> /\ 1 \in 1..Len(x.todo)
        BY <3>9, <4>1 DEF Name, Stage
      <4> QED BY <4>2 DEF StagedIn
    <3>11. \E e : StagedIn(y.todo, "history", e)
      BY <2>1, <3>10 DEF Follows, Passing
    <3> QED BY <3>6, <3>7, <3>11 DEF Planning
  <2> QED BY <2>1, <2>2, <2>3
<1>3. CASE Keeps(w)
  BY <1>3 DEF Keeps, Goes
<1>4. CASE Counts(w) \/ Announces(w) \/ Retains(w) \/ Places(w)
  <2>1. x.todo # <<>> /\ y.req = x.req /\ y.snap = x.snap /\ Name(x) \in Recording \cup {"audit"}
    BY <1>4 DEF Counts, Announces, Retains, Places, Goes, Recording, History
  <2>2. Name(x) \in NamesOf("rewind")
    BY <1>1, <2>1, SlotParts
  <2>3. Name(x) \in Recording
    BY <2>1, <2>2 DEF NamesOf, Recording, History
  <2> QED BY <2>1, <2>3 DEF Committed, Plans
<1>5. CASE Clears(w) \/ TakesBack(w) \/ Undoes(w) \/ Stops(w) \/ Answers(w)
  BY <1>5 DEF Clears, TakesBack, Undoes, Stops, Answers
<1>6. CASE Considers(w)
  BY <1>6 DEF Considers, Thinks, Uncommitted
<1>7. CASE Elsewhere(w)
  BY <1>7 DEF Elsewhere
<1> QED BY <1>2, <1>3, <1>4, <1>5, <1>6, <1>7 DEF Did, Passes

LEMMA RewindingStep ==
    ASSUME NEW Texts, NEW States, NEW w, OneWriter(w), FileInv(Texts, States, w), FileInv(Texts, States, w)',
           PlanInv(w), Did(w), ThinsNothing, Remembered(disk, lost, past, slot[w]), Rewinding(disk, lost, past, slot[w])
    PROVE  Rewinding(disk', lost', past', slot'[w])
<1> DEFINE x == slot[w]
           y == slot'[w]
<1> SUFFICES ASSUME y.req.kind = "rewind", Committed(y) \/ Name(y) = "keep", NEW v \in past', NEW d \in Docs,
                    v.cursor = y.req.target, disk'["events"] # Torn, disk'["bodyRevs"] # Torn, <<"path", d>> \notin v.lost
             PROVE  Returned(disk', lost', v, y.snap, d)
  BY DEF Rewinding, Returned
<1>1. v \in past
  <2>1. ~Answers(w)
    BY DEF Answers
  <2> QED BY <2>1, PastGrows
<1>2. CASE Thinks(w) /\ Reconstructs(w)
  <2>1. y.req = x.req /\ disk' = disk /\ lost' = lost
    BY <1>2 DEF Reconstructs, Thinks
  <2>2. Returned(disk, lost, v, y.snap, d)
    BY <1>1, <1>2, <2>1, ReconstructsReturned
  <2> QED BY <2>1, <2>2
<1>3. CASE ~(Thinks(w) /\ Reconstructs(w))
  <2>1. x.req = y.req /\ x.snap = y.snap /\ (Committed(x) \/ Name(x) = "keep")
    BY <1>3, RewindOn
  <2>2. Readable(disk', y) /\ RowsNow(disk', y) = disk'["bodyRevs"] /\ RowsNow(disk, x) = disk["bodyRevs"]
        /\ (Readable(disk, x) => disk["bodyRevs"] # Torn)
    BY <2>1 DEF Readable, RowsNow, InPurge
  <2>3. ~(Retains(w) /\ x.todo[1][2] = d /\ x.number <= v.cursor)
    <3>1. x.number \in Nat
      BY StageParts DEF SlotOK
    <3> QED BY <1>1, <3>1, RowsAfter
  <2>4. CarriesOn(w, d, v.cursor, v.cursor)
    BY <2>2, <2>3, RowsTell
  <2>5. disk["events"] # Torn
    BY EventsGrow
  <2>6. disk["bodyRevs"] # Torn
    BY <2>1, FilesMoved DEF Retains, Thins, Clears, TakesBack, Spared
  <2>7. Returned(disk, lost, v, x.snap, d)
    BY <1>1, <2>1, <2>5, <2>6 DEF Rewinding, Returned
  <2>8. Effaced(disk["bodyRevs"], disk["events"], lost, d, v.cursor) =>
          Effaced(disk'["bodyRevs"], disk'["events"], lost', d, v.cursor)
    BY <2>2, <2>4 DEF CarriesOn
  <2> QED BY <2>1, <2>7, <2>8 DEF Returned
<1> QED BY <1>2, <1>3

LEMMA HistoryInit ==
    ASSUME NEW w, OneWriter(w), Init
    PROVE  HistoryInv(w)
<1>1. /\ past = {[cursor |-> 0, snap |-> disk["snapshot"], lost |-> {}]} /\ slot[w] = Idle
      /\ disk["snapshot"].live = {} /\ disk["events"] = <<>> /\ disk["paths"] = <<>>
  BY DEF Init, OneWriter
<1>2. Idle.req.kind = "none"
  BY DEF Idle, NoRequest
<1>3. Number(disk["events"]) = 0
  BY <1>1 DEF Number
<1>4. \A v \in past : v.cursor = 0 /\ v.snap = disk["snapshot"]
  BY <1>1
<1>5. ASSUME NEW d PROVE HistoryPath(disk["paths"], d, 0) = {} /\ Spot(disk["snapshot"], d) = {}
  <2>1. Upto(<<>>, d, 0) = {}
    BY DEF Upto
  <2>2. PathAt(<<>>, d, 0) = {}
    BY <2>1 DEF PathAt
  <2> QED BY <1>1, <2>2 DEF HistoryPath, Spot
<1>6. Present(disk, lost, slot[w])
  BY <1>1, <1>3, <1>5 DEF Present
<1>7. Remembered(disk, lost, past, slot[w])
  BY <1>1, <1>4, <1>5 DEF Remembered
<1>8. Rewinding(disk, lost, past, slot[w])
  BY <1>1, <1>2 DEF Rewinding
<1> QED BY <1>6, <1>7, <1>8 DEF HistoryInv

LEMMA HistoryStep ==
    ASSUME NEW Texts, NEW States, Closed(Texts, States), NEW w, OneWriter(w),
           FileInv(Texts, States, w), FileInv(Texts, States, w)', PlanInv(w), Clients(w), ThinsNothing, HistoryInv(w), [Next]_vars
    PROVE  HistoryInv(w)'
<1>1. Did(w)
  BY NextPlan
<1>2. Present(disk', lost', slot'[w])
  BY <1>1, PresentStep DEF HistoryInv
<1>3. Remembered(disk', lost', past', slot'[w])
  BY <1>1, RememberedStep DEF HistoryInv
<1>4. Rewinding(disk', lost', past', slot'[w])
  BY <1>1, RewindingStep DEF HistoryInv
<1> QED BY <1>2, <1>3, <1>4 DEF HistoryInv

LEMMA HistoryAlways ==
    ASSUME NEW Texts, NEW States, Closed(Texts, States), NEW w, OneWriter(w)
    PROVE  Spec /\ []ThinsNothing => [](FileInv(Texts, States, w) /\ PlanInv(w) /\ HistoryInv(w))
<1>1. Init => HistoryInv(w)
  BY HistoryInit
<1>2. /\ FileInv(Texts, States, w) /\ FileInv(Texts, States, w)' /\ PlanInv(w) /\ Clients(w)
      /\ ThinsNothing /\ HistoryInv(w) /\ [Next]_vars
      => HistoryInv(w)'
  BY HistoryStep
<1>3. Spec => [](FileInv(Texts, States, w) /\ PlanInv(w) /\ Clients(w))
  BY PlansAlways
<1> QED BY <1>1, <1>2, <1>3, PTL DEF Spec

LEMMA EffacedPurged ==
    ASSUME NEW d, NEW c, Effaced(disk["bodyRevs"], disk["events"], lost, d, c)
    PROVE  Purged(d, c)
<1>1. CASE Blanked(lost, d)
  BY <1>1 DEF Blanked, Purged
<1>2. CASE \E i \in DOMAIN disk["events"] :
             /\ disk["events"][i].kind = "purge" /\ disk["events"][i].doc = d
             /\ \A r \in BodyAt(disk["bodyRevs"], d, c) : r.seq < disk["events"][i].seq
  <2>1. PICK i \in DOMAIN disk["events"] :
             /\ disk["events"][i].kind = "purge" /\ disk["events"][i].doc = d
             /\ \A r \in BodyAt(disk["bodyRevs"], d, c) : r.seq < disk["events"][i].seq
    BY <1>2
  <2>2. disk["events"][i] \in ToSet(disk["events"])
    BY DEF ToSet
  <2> QED BY <2>1, <2>2 DEF Purged
<1> QED BY <1>1, <1>2 DEF Effaced

\* Whatever crashes, refused writes and files cut short there were, while
\* compaction drops no row: the history shows every finished request's
\* snapshot again, paths and texts, except for rows whose request broke off and
\* texts that an event says were purged
\* (file_reconstruct_workspace_at_cursor, history_workspace.rs).
THEOREM HistoryIsRemembered ==
    ASSUME NEW Texts, NEW States, Closed(Texts, States), NEW w, OneWriter(w)
    PROVE  Spec /\ []ThinsNothing => []HistoryRemembers
<1>1. FileInv(Texts, States, w) /\ PlanInv(w) /\ HistoryInv(w) => HistoryRemembers
  <2> SUFFICES ASSUME FileInv(Texts, States, w), HistoryInv(w), Writers = {}, disk["paths"] # Torn,
                      disk["bodyRevs"] # Torn, disk["events"] # Torn, NEW v \in past, NEW d \in Docs
               PROVE  /\ <<"path", d>> \notin v.lost =>
                           HistoryPath(disk["paths"], d, v.cursor) = {v.snap.path[x] : x \in {d} \cap v.snap.live}
                      /\ d \in v.snap.live /\ <<"body", d>> \notin v.lost =>
                           \/ Shown(HistoryText(disk["bodyRevs"], d, v.cursor)) = Shown(v.snap.bodies[d])
                           \/ Purged(d, v.cursor)
    BY DEF HistoryRemembers, Whole
  <2>1. <<"path", d>> \notin v.lost => HistoryPath(disk["paths"], d, v.cursor) = Spot(v.snap, d)
    BY DEF HistoryInv, Remembered
  <2>2. ~InPurge(slot[w])
    <3>1. slot[w] = Idle \/ slot[w].req.kind = "changes"
      BY DEF Writers, OneWriter
    <3> QED BY <3>1, IdleOK DEF InPurge, Idle, NoRequest
  <2>3. Readable(disk, slot[w]) /\ RowsNow(disk, slot[w]) = disk["bodyRevs"]
    BY <2>2 DEF Readable, RowsNow
  <2>4. d \in v.snap.live /\ <<"body", d>> \notin v.lost =>
          Tells(disk["bodyRevs"], disk["events"], lost, d, v.cursor, v.snap.bodies[d])
    BY <2>3 DEF HistoryInv, Remembered
  <2> QED BY <2>1, <2>4, EffacedPurged DEF Spot, Tells
<1>2. Spec /\ []ThinsNothing => [](FileInv(Texts, States, w) /\ PlanInv(w) /\ HistoryInv(w))
  BY HistoryAlways
<1> QED BY <1>1, <1>2, PTL

\* Under the same conditions a rewind that runs to its end, whatever the
\* restarts before it, shows the snapshot of its target again, but for what the
\* history did not have or a purge took from it
\* (build_restored_live_workspace_snapshot and its caller in file_store.rs).
THEOREM RewindsPutBack ==
    ASSUME NEW Texts, NEW States, Closed(Texts, States), NEW w, OneWriter(w)
    PROVE  Spec /\ []ThinsNothing => []RewindPutsBack
<1>1. FileInv(Texts, States, w) /\ PlanInv(w) /\ HistoryInv(w) => RewindPutsBack
  <2> SUFFICES ASSUME FileInv(Texts, States, w), PlanInv(w), HistoryInv(w), NEW s \in Slots, NEW v \in past,
                      slot[s].req.kind = "rewind", slot[s].todo = <<>>, slot[s].req.target = v.cursor,
                      disk["snapshot"] # Torn, disk["events"] # Torn, disk["bodyRevs"] # Torn, NEW d \in Docs
               PROVE  /\ <<"path", d>> \notin v.lost => (d \in disk["snapshot"].live <=> d \in v.snap.live)
                      /\ <<"path", d>> \notin v.lost /\ d \in v.snap.live => disk["snapshot"].path[d] = v.snap.path[d]
                      /\ {<<"path", d>>, <<"body", d>>} \cap v.lost = {} =>
                           Shown(disk["snapshot"].bodies[d]) = Shown(v.snap.bodies[d]) \/ Purged(d, v.cursor)
    BY DEF RewindPutsBack, Whole
  <2>1. s = w
    BY DEF FileInv, OthersRead
  <2>2. Committed(slot[w])
    BY <2>1 DEF Committed, Plans
  <2>3. disk["snapshot"] = slot[w].snap
    BY <2>2 DEF PlanInv, Fulfilled
  <2>4. <<"path", d>> \notin v.lost => Returned(disk, lost, v, disk["snapshot"], d)
    BY <2>1, <2>2, <2>3 DEF HistoryInv, Rewinding, Returned
  <2> QED BY <2>4, EffacedPurged DEF Returned
<1>2. Spec /\ []ThinsNothing => [](FileInv(Texts, States, w) /\ PlanInv(w) /\ HistoryInv(w))
  BY HistoryAlways
<1> QED BY <1>1, <1>2, PTL

-----------------------------------------------------------------------------
(* Policies that keep every revision.                                      *)

\* Every policy that can be set, and the default one, samples each revision.
SamplesEach ==
    /\ Chain \in [Paths -> Seq(Keys)]
    /\ \A p \in Policies \cup {DefaultPolicy} : p.frequency = 1

Each(policies) == \A k \in DOMAIN policies : policies[k].frequency = 1

Sampling(x) ==
    /\ x.req.kind = "policy" => x.req.target[2] = Nothing \/ x.req.target[2].frequency = 1
    /\ x.todo # <<>> /\ Name(x) = "policy" => x.result \in Paths
    /\ x.todo # <<>> /\ Name(x) = "compact" => x.result.frequency = 1

SampleInv(w) == Sampling(slot[w]) /\ (disk["policies"] # Torn => Each(disk["policies"]))

LEMMA EveryIndexSampled ==
    ASSUME NEW Texts, NEW States, NEW rows \in Seq(BodyRow(Texts, States)), NEW d, NEW policy, policy.frequency = 1
    PROVE  Len(Compacted(rows, d, policy)) = Len(rows)
<1> DEFINE older == Cardinality({i \in DOMAIN rows : rows[i].doc = d}) - policy.revisions
           kept == {i \in DOMAIN rows : \/ rows[i].doc # d \/ Index(rows, i) >= older
                                         \/ Index(rows, i) % policy.frequency = 0}
           row(i) == IF rows[i].doc = d THEN AsCheckpoint(rows[i]) ELSE rows[i]
           after == [n \in 1..Cardinality(kept) |-> row(NthOf(kept, n))]
<1>1. DOMAIN rows = 1..Len(rows) /\ Len(rows) \in Nat
  BY LenProperties
<1>2. \A i \in DOMAIN rows : Index(rows, i) % policy.frequency = 0
  <2> TAKE i \in DOMAIN rows
  <2> DEFINE before == {j \in 1..(i - 1) : rows[j].doc = rows[i].doc}
  <2>0. i - 1 \in Int /\ 1 \in Int /\ before \subseteq 1..(i - 1)
    BY <1>1
  <2> HIDE DEF before
  <2>1. IsFiniteSet(1..(i - 1))
    BY <2>0, FS_Interval
  <2>2. Cardinality(before) \in Nat
    BY <2>0, <2>1, FS_Subset, FS_CardinalityType
  <2>3. Index(rows, i) \in Nat
    BY <2>2 DEF Index, before
  <2> QED BY <2>3
<1>3. kept = 1..Len(rows)
  BY <1>1, <1>2
<1>4. Cardinality(kept) = Len(rows)
  <2>1. PICK n : n = Len(rows)
    OBVIOUS
  <2>2. n \in Nat /\ 1 \in Int /\ n \in Int
    BY <1>1, <2>1
  <2>3. Cardinality(1..n) = IF 1 > n THEN 0 ELSE n - 1 + 1
    BY <2>2, FS_Interval
  <2>4. Cardinality(1..n) = n
    BY <2>2, <2>3
  <2> QED BY <1>3, <2>1, <2>4
<1>5. Compacted(rows, d, policy) = IF older <= 0 THEN rows ELSE after
  BY DEF Compacted
<1> HIDE DEF older, kept, row
<1>6. Len(after) = Len(rows)
  BY <1>1, <1>4
<1> QED BY <1>5, <1>6

\* The stages of compaction come from one another.
LEMMA SamplingOn ==
    ASSUME NEW Texts, NEW States, NEW w, OneWriter(w), FileInv(Texts, States, w), Sampling(slot[w]),
           slot[w].todo # <<>>, slot'[w].req = slot[w].req, slot'[w].todo = Tail(slot[w].todo),
           Name(slot[w]) = "entry" => slot'[w].result \in Paths,
           Name(slot[w]) = "policy" => slot'[w].result.frequency = 1
    PROVE  Sampling(slot'[w])
<1> DEFINE x == slot[w]
           y == slot'[w]
<1>1. SlotOK(Texts, States, disk, x)
  BY StageParts
<1>2. y.todo # <<>> => y.todo[1] = x.todo[2] /\ Leads(x.req.kind, x.todo[1], x.todo[2])
  BY <1>1, TailFormed DEF SlotOK
<1>3. y.todo # <<>> => (Name(y) = "policy" => Name(x) = "entry") /\ (Name(y) = "compact" => Name(x) = "policy")
  BY <1>2 DEF Leads, Name
<1> QED BY <1>3 DEF Sampling

\* A request that is not at its records does not compact.
LEMMA SamplingNot ==
    ASSUME NEW Texts, NEW States, NEW w, OneWriter(w), FileInv(Texts, States, w)', Uncommitted(slot'[w]),
           slot'[w].req.kind = "policy" => slot'[w].req.target[2] = Nothing \/ slot'[w].req.target[2].frequency = 1
    PROVE  Sampling(slot'[w])
<1> DEFINE y == slot'[w]
<1>1. SlotOK(Texts, States, disk', y)
  BY SlotNext
<1> HIDE DEF y
<1>2. y.todo # <<>> => Name(y) \in NamesOf(y.req.kind) /\ y.req.kind \in Kinds
  BY <1>1, SlotParts
<1>3. y.todo # <<>> => Name(y) \notin {"policy", "compact"}
  BY <1>2 DEF Uncommitted, Committed, Recording, History, NamesOf, Kinds, Plans, Purging, y
<1> QED BY <1>3 DEF Sampling, y

LEMMA PolicySamples ==
    ASSUME SamplesEach, NEW policies, Each(policies), NEW p \in Paths
    PROVE  PolicyFor(p, policies).frequency = 1
<1> DEFINE set == {i \in DOMAIN Chain[p] : Chain[p][i] \in DOMAIN policies}
<1>1. Chain[p] \in Seq(Keys)
  BY DEF SamplesEach
<1>2. set \in SUBSET Nat
  BY <1>1, LenProperties
<1>3. CASE set = {}
  BY <1>3 DEF PolicyFor, SamplesEach
<1>4. CASE set # {}
  <2>1. \E i \in set : \A j \in set : i <= j
    BY <1>2, <1>4, LeastExists
  <2>2. Min(set) \in set
    BY <2>1 DEF Min
  <2> QED BY <1>4, <2>2 DEF PolicyFor, Each
<1> QED BY <1>3, <1>4

LEMMA FindsSampling ==
    ASSUME SamplesEach, NEW Texts, NEW States, NEW w, OneWriter(w), FileInv(Texts, States, w), SampleInv(w),
           FindPolicy(w) \/ FindEntry(w)
    PROVE  Sampling(slot'[w])
<1> DEFINE x == slot[w]
           y == slot'[w]
<1>1. w \in Slots /\ SlotOK(Texts, States, disk, x) /\ SlotShaped(x)
      /\ \A name : At(w, name) => x.todo # <<>> /\ Name(x) = name
  BY StageParts
<1>2. CASE FindPolicy(w)
  <2>1. x.todo # <<>> /\ Name(x) = "policy" /\ disk["policies"] # Torn
    BY <1>1, <1>2 DEF FindPolicy, Reads, FileOf
  <2>2. PICK c : c = WithResult(x, PolicyFor(x.result, disk.policies))
    OBVIOUS
  <2>3. Advance(w, c)
    BY <1>2, <2>2 DEF FindPolicy, WithResult
  <2>4. SlotShaped(c) /\ c.req = x.req /\ c.todo = x.todo /\ c.result = PolicyFor(x.result, disk.policies)
    BY <1>1, <2>2, ResultChanged
  <2>5. c.result.frequency = 1
    BY <2>1, <2>4, PolicySamples DEF SampleInv, Sampling
  <2>6. Goes(c, y)
    BY <1>1, <2>3, <2>4, Advanced
  <2> QED BY <2>1, <2>4, <2>5, <2>6, SamplingOn DEF Goes, SampleInv
<1>3. CASE FindEntry(w) /\ Doc(w) \in disk.snapshot.live
  <2>1. x.todo # <<>> /\ Name(x) = "entry" /\ disk["snapshot"] # Torn
    BY <1>1, <1>3 DEF FindEntry, Reads, FileOf
  <2>2. PICK c : c = WithResult(x, disk.snapshot.path[Doc(w)])
    OBVIOUS
  <2>3. Advance(w, c)
    BY <1>3, <2>2 DEF FindEntry, WithResult
  <2>4. SlotShaped(c) /\ c.req = x.req /\ c.todo = x.todo /\ c.result = disk.snapshot.path[Doc(w)]
    BY <1>1, <2>2, ResultChanged
  <2>5. Snapshot(Texts, disk["snapshot"])
    BY <2>1 DEF FileInv, DiskOK, Files, Shaped
  <2>6. c.result \in Paths
    BY <1>3, <2>4, <2>5 DEF Snapshot
  <2>7. Goes(c, y)
    BY <1>1, <2>3, <2>4, Advanced
  <2> QED BY <2>1, <2>4, <2>6, <2>7, SamplingOn DEF Goes, SampleInv
<1>4. CASE FindEntry(w) /\ Doc(w) \notin disk.snapshot.live
  <2> DEFINE p == x.todo
             skipped == SubSeq(p, 3, Len(p))
             c == [x EXCEPT !.todo = skipped]
  <2>1. p # <<>> /\ p[1][1] = "entry" /\ Formed(x.req.kind, x.req.doc, p)
    BY <1>1, <1>4 DEF FindEntry, Reads, Name, SlotOK
  <2>2. Advance(w, c)
    BY <1>4 DEF FindEntry
  <2> HIDE DEF skipped
  <2>3. SlotShaped(c) /\ c.req = x.req /\ c.todo = skipped
    BY <1>1 DEF SlotShaped, Fields
  <2> HIDE DEF c
  <2>4. y.req = x.req /\ y.todo = Tail(skipped)
    <3>1. Goes(c, y)
      BY <1>1, <2>2, <2>3, Advanced
    <3> QED BY <2>3, <3>1 DEF Goes
  <2>5. p \in Seq(Stage) /\ Len(p) \in Nat /\ Len(p) > 0
    BY <2>1, TailParts DEF Formed
  <2> HIDE DEF p
  <2>6. Len(p) > 2 /\ p[2][1] = "policy" /\ p[3][1] = "compact"
    <3>1. Len(p) # 1
      BY <2>1, <2>5 DEF Formed
    <3>2. Leads(x.req.kind, p[1], p[1 + 1])
      BY <2>1, <2>5, <3>1 DEF Formed
    <3>3. p[2][1] = "policy"
      BY <2>1, <3>2 DEF Leads
    <3>4. Len(p) # 2
      BY <2>1, <2>5, <3>3 DEF Formed
    <3>5. 2 \in 1..(Len(p) - 1) /\ 2 + 1 = 3 /\ Len(p) > 2
      <4>1. PICK n : n = Len(p)
        OBVIOUS
      <4>2. n \in Nat /\ n > 0 /\ n # 1 /\ n # 2
        BY <2>5, <3>1, <3>4, <4>1
      <4>3. n > 2 /\ 2 \in 1..(n - 1) /\ 2 + 1 = 3
        BY <4>2
      <4> QED BY <4>1, <4>3
    <3>6. Leads(x.req.kind, p[2], p[2 + 1])
      BY <2>1, <3>5 DEF Formed
    <3>7. p[3][1] = "compact"
      BY <3>3, <3>5, <3>6 DEF Leads
    <3> QED BY <3>3, <3>5, <3>7
  <2>7. skipped \in Seq(Stage) /\ Len(skipped) = Len(p) - 2 /\ \A i \in 1..(Len(p) - 2) : skipped[i] = p[i + 2]
    <3>1. /\ \A i \in 1..Len(p) : p[i] \in Stage
          /\ Len(SubSeq(p, 3, Len(p))) = Len(p) - 3 + 1
          /\ \A i \in 1..(Len(p) - 3 + 1) : SubSeq(p, 3, Len(p))[i] = p[3 + i - 1]
      BY <2>5, <2>6, ElementOfSeq, SubSeqProperties
    <3>2. SubSeq(p, 3, Len(p)) \in Seq(Stage)
      BY <2>5, <2>6, SubSeqProperties
    <3> QED BY <2>5, <2>6, <3>1, <3>2 DEF skipped
  <2>8. Tail(skipped) # <<>> => Len(p) > 3 /\ Tail(skipped)[1] = p[3 + 1]
    <3>1. skipped # <<>>
      BY <2>5, <2>6, <2>7
    <3>2. Tail(skipped) # <<>> => Len(skipped) > 1 /\ Tail(skipped)[1] = skipped[2]
      BY <2>7, <3>1, TailParts
    <3> QED BY <2>5, <2>7, <3>2
  <2>9. Tail(skipped) # <<>> => Tail(skipped)[1][1] \notin {"policy", "compact"}
    <3>1. Len(p) > 3 => Leads(x.req.kind, p[3], p[3 + 1])
      BY <2>1, <2>5 DEF Formed
    <3> QED BY <2>6, <2>8, <3>1 DEF Leads
  <2> QED BY <2>4, <2>9 DEF SampleInv, Sampling, Name
<1> QED BY <1>2, <1>3, <1>4

\* The first stages of a request are not those of a compaction.
LEMMA AsksSampling ==
    ASSUME SamplesEach, NEW Texts, NEW States, Closed(Texts, States), NEW w, OneWriter(w),
           FileInv(Texts, States, w), FileInv(Texts, States, w)', PlanInv(w),
           NEW kind \in Serves[w], NEW r \in Asked(kind), Ask(w, r)
    PROVE  Sampling(slot'[w]) /\ disk' = disk
<1> DEFINE y == slot'[w]
<1>1. y.req = r /\ r.kind = kind /\ Stays
  BY AskIs DEF OneWriter
<1>2. kind = "policy" => r.target[2] = Nothing \/ r.target[2].frequency = 1
  <2> SUFFICES ASSUME kind = "policy" PROVE r.target[2] = Nothing \/ r.target[2].frequency = 1
    OBVIOUS
  <2>1. PICK k \in Keys, p \in Policies \cup {Nothing} : r.target = <<k, p>>
    BY DEF Asked
  <2> QED BY <2>1 DEF SamplesEach
<1>3. Uncommitted(y)
  BY AskPlan DEF Considers, Thinks
<1> QED BY <1>1, <1>2, <1>3, SamplingNot DEF Stays

LEMMA AdvancesSampling ==
    ASSUME NEW Texts, NEW States, NEW w, OneWriter(w), FileInv(Texts, States, w), SampleInv(w),
           Check(w) \/ Fetch(w)
    PROVE  Sampling(slot'[w]) /\ disk' = disk
<1> DEFINE x == slot[w]
           y == slot'[w]
<1>1. w \in Slots /\ SlotOK(Texts, States, disk, x) /\ SlotShaped(x)
      /\ \A name : At(w, name) => x.todo # <<>> /\ Name(x) = name
  BY StageParts
<1>2. CASE Check(w)
  <2>1. x.todo # <<>> /\ Name(x) \notin {"entry", "policy"} /\ disk' = disk
    BY <1>1, <1>2 DEF Check, Reads
  <2>2. Advance(w, x)
    BY <1>2 DEF Check
  <2>3. Goes(x, y)
    BY <1>1, <2>2, Advanced
  <2> QED BY <2>1, <2>3, SamplingOn DEF Goes, SampleInv
<1>3. CASE Fetch(w)
  <2> DEFINE content == disk[FileOf[Head(x.todo)[1]]]
             c == [x EXCEPT !.copy = content]
  <2>1. slot' = [slot EXCEPT ![w] = c] /\ disk' = disk
    BY <1>3 DEF Fetch
  <2> HIDE DEF content
  <2>2. c.req = x.req /\ c.todo = x.todo /\ c.result = x.result
    BY <1>1 DEF SlotShaped, Fields
  <2> HIDE DEF c
  <2>3. y = c
    BY <1>1, <2>1, SlotNow
  <2> QED BY <2>1, <2>2, <2>3 DEF Sampling, SampleInv, Name
<1> QED BY <1>2, <1>3

\* A policy is set for one key; the others keep theirs.
LEMMA SetPolicies ==
    ASSUME SamplesEach, NEW rows, Each(rows), NEW k, NEW p, p = Nothing \/ p.frequency = 1
    PROVE  Each([x \in (DOMAIN rows \ {k}) \cup (IF p = Nothing THEN {} ELSE {k}) |-> IF x = k THEN p ELSE rows[x]])
BY DEF Each

LEMMA PutsSampling ==
    ASSUME SamplesEach, NEW Texts, NEW States, NEW w, OneWriter(w), FileInv(Texts, States, w), SampleInv(w),
           Bind(w) \/ SaveCanonical(w) \/ SavePolicies(w) \/ Compact(w)
    PROVE  Sampling(slot'[w]) /\ (disk'["policies"] # Torn => Each(disk'["policies"]))
<1> DEFINE x == slot[w]
           y == slot'[w]
<1>1. w \in Slots /\ SlotOK(Texts, States, disk, x) /\ SlotShaped(x)
      /\ \A name : At(w, name) => x.todo # <<>> /\ Name(x) = name
  BY StageParts
<1>2. ASSUME NEW name \in {"bind", "canonical", "policies", "compact"}, NEW content,
             Has(w, name), Put(w, name, content, x)
      PROVE  Sampling(y) /\ Stored(w, name, content, x)
  <2>1. name \in DOMAIN FileOf /\ name \in Copying \ {"history"}
    BY DEF FileOf, Copying
  <2>2. Stored(w, name, content, x)
    BY <1>1, <1>2, <2>1, PutDone
  <2> QED BY <2>2, SamplingOn DEF Stored, Goes, SampleInv
<1>3. CASE Bind(w)
  <2>1. Has(w, "bind") /\ Put(w, "bind", Mounts, x)
    BY <1>3 DEF Bind
  <2>2. Sampling(y) /\ Stored(w, "bind", Mounts, x)
    BY <1>2, <2>1
  <2> QED BY <2>2 DEF Stored, Writes, FileOf, Files, SampleInv
<1>4. CASE SaveCanonical(w)
  <2>1. PICK content : Has(w, "canonical") /\ Put(w, "canonical", content, x)
    BY <1>4 DEF SaveCanonical
  <2>2. Sampling(y) /\ Stored(w, "canonical", content, x)
    BY <1>2, <2>1
  <2> QED BY <2>2 DEF Stored, Writes, FileOf, Files, SampleInv
<1>5. CASE SavePolicies(w)
  <2> DEFINE k == x.req.target[1]
             p == x.req.target[2]
             rows == x.copy
             new == [z \in (DOMAIN rows \ {k}) \cup (IF p = Nothing THEN {} ELSE {k}) |->
                        IF z = k THEN p ELSE rows[z]]
  <2>1. Has(w, "policies") /\ Put(w, "policies", new, x)
    BY <1>5 DEF SavePolicies
  <2>2. x.req.kind = "policy"
    <3>1. x.todo # <<>> /\ Name(x) = "policies"
      BY <1>1, <2>1 DEF Has
    <3>2. Name(x) \in NamesOf(x.req.kind) /\ x.req.kind \in Kinds
      BY <1>1, <3>1, SlotParts
    <3> QED BY <3>1, <3>2 DEF NamesOf, Kinds, Recording, History, Purging
  <2>3. p = Nothing \/ p.frequency = 1
    BY <2>2 DEF SampleInv, Sampling
  <2> HIDE DEF new
  <2>4. Sampling(y) /\ Stored(w, "policies", new, x)
    BY <1>2, <2>1
  <2>5. disk["policies"] # Torn /\ rows = disk["policies"] /\ disk'["policies"] = new
    BY <2>1, <2>4 DEF Stored, Writes, FileOf
  <2>6. Each(rows)
    BY <2>5 DEF SampleInv
  <2> HIDE DEF k, p, rows
  <2>7. Each(new)
    BY <2>3, <2>6, SetPolicies DEF new
  <2> QED BY <2>4, <2>5, <2>7
<1>6. CASE Compact(w)
  <2>1. PICK rows : /\ Has(w, "compact")
                    /\ (Advance(w, x) /\ disk' = disk) \/ Put(w, "compact", rows, x)
    BY <1>6 DEF Compact
  <2>2. x.todo # <<>> /\ Name(x) = "compact"
    BY <1>1, <2>1 DEF Has
  <2>3. CASE Advance(w, x) /\ disk' = disk
    <3>1. Goes(x, y)
      BY <1>1, <2>3, Advanced
    <3> QED BY <2>2, <2>3, <3>1, SamplingOn DEF Goes, SampleInv
  <2>4. CASE Put(w, "compact", rows, x)
    <3>1. Sampling(y) /\ Stored(w, "compact", rows, x)
      BY <1>2, <2>1, <2>4
    <3> QED BY <3>1 DEF Stored, Writes, FileOf, Files, SampleInv
  <2> QED BY <2>1, <2>3, <2>4
<1> QED BY <1>3, <1>4, <1>5, <1>6

LEMMA WorkSampling ==
    ASSUME SamplesEach, NEW Texts, NEW States, Closed(Texts, States), NEW w, OneWriter(w), FileInv(Texts, States, w),
           FileInv(Texts, States, w)', PlanInv(w), SampleInv(w), Work(w)
    PROVE  SampleInv(w)'
<1> DEFINE x == slot[w]
           y == slot'[w]
<1>1. w \in Slots
  BY DEF OneWriter
<1>2. CASE FindPolicy(w) \/ FindEntry(w)
  <2>1. disk' = disk
    BY <1>2 DEF FindPolicy, FindEntry
  <2> QED BY <1>2, <2>1, FindsSampling DEF SampleInv
<1>3. CASE Check(w) \/ Fetch(w)
  BY <1>3, AdvancesSampling DEF SampleInv
<1>4. CASE Bind(w) \/ SaveCanonical(w) \/ SavePolicies(w) \/ Compact(w)
  BY <1>4, PutsSampling DEF SampleInv
<1>5. ASSUME Considers(w) \/ Thinks(w)
      PROVE  SampleInv(w)'
  <2>1. disk' = disk /\ Uncommitted(y)
    BY <1>5 DEF Considers, Thinks
  <2>2. y.req \in {x.req, NoRequest} /\ NoRequest.kind = "none"
    BY <1>1, WorkFrames DEF Frames, NoRequest
  <2>3. y.req.kind = "policy" => y.req.target[2] = Nothing \/ y.req.target[2].frequency = 1
    BY <2>2 DEF SampleInv, Sampling
  <2> QED BY <2>1, <2>3, SamplingNot DEF SampleInv
<1>6. ASSUME x.todo # <<>>, Name(x) \notin {"entry", "policy"}, y.req = x.req, y.todo = Tail(x.todo),
             disk'["policies"] = disk["policies"]
      PROVE  SampleInv(w)'
  <2>1. Sampling(y)
    BY <1>6, SamplingOn DEF SampleInv
  <2> QED BY <1>6, <2>1 DEF SampleInv
<1>7. CASE KeepSnapshot(w) \/ TakeNumber(w) \/ SaveEvent(w) \/ SaveRevision(w) \/ SavePath(w)
  <2>1. Keeps(w) \/ Counts(w) \/ Announces(w) \/ Retains(w) \/ Places(w)
    BY <1>7, KeepIs, NumberIsTaken, EventIsSaved, RevisionIsSaved, PathIsSaved
  <2> QED BY <1>6, <2>1 DEF Keeps, Counts, Announces, Retains, Places, Goes, Writes, Files
<1>8. CASE Erase(w) \/ RollBack(w)
  <2>1. Clears(w) \/ TakesBack(w)
    BY <1>8, EraseIs, RollBackIs
  <2> QED BY <1>6, <2>1 DEF Clears, TakesBack, Writes, Files
<1>9. CASE Fail(w) \/ FailToWrite(w) \/ Answer(w)
  <2>1. Stops(w) \/ Undoes(w) \/ Answers(w)
    BY <1>9, FailIs, AnswerIs
  <2>2. Spared("policies")
    BY <2>1 DEF Stops, Undoes, Answers, Spared, Files
  <2>3. Sampling(y)
    <3>1. CASE Stops(w) \/ Answers(w)
      BY <3>1 DEF Stops, Answers, Sampling
    <3>2. CASE Undoes(w)
      <4>1. y.req = x.req /\ Name(y) = "rollback"
        BY <3>2, UndoPlan DEF Undoes
      <4> QED BY <4>1 DEF SampleInv, Sampling
    <3> QED BY <2>1, <3>1, <3>2
  <2> QED BY <2>2, <2>3 DEF SampleInv, Spared
<1>10. CASE Refuse(w) \/ PlanCreate(w) \/ PlanDelete(w) \/ PlanMove(w) \/ PlanUpdate(w) \/ BeginRewind(w)
            \/ PlanRestore(w) \/ Merge(w) \/ LoadRevision(w) \/ PlanRewind(w)
  <2>1. Considers(w) \/ Thinks(w)
    BY <1>10, RefusePlan, CreatePlan, DeletePlan, MovePlan, UpdatePlan, RestorePlan, MergePlan, RevisionPlan, RewindPlan
  <2> QED BY <1>5, <2>1
<1>11. CASE ReadSince(w) \/ ReadDelta(w) \/ ReadChanged(w)
  <2>1. Sinces(w) \/ Deltas(w) \/ Tallies(w)
    BY <1>1, <1>11, SinceIs, DeltaIs, TallyIs
  <2>2. Stays /\ y.req = x.req /\ x.req.kind = "changes"
    BY <2>1 DEF Sinces, Deltas, Tallies
  <2>3. Thinks(w)
    BY <2>2 DEF Thinks, Uncommitted, Committed, Plans, Stays
  <2> QED BY <1>5, <2>3
<1> QED BY <1>2, <1>3, <1>4, <1>7, <1>8, <1>9, <1>10, <1>11 DEF Work

LEMMA NextSampling ==
    ASSUME SamplesEach, NEW Texts, NEW States, Closed(Texts, States), NEW w, OneWriter(w), FileInv(Texts, States, w),
           FileInv(Texts, States, w)', PlanInv(w), Clients(w), SampleInv(w), [Next]_vars
    PROVE  SampleInv(w)'
<1>1. ASSUME Elsewhere(w) PROVE SampleInv(w)'
  BY <1>1 DEF Elsewhere, SampleInv, Sampling
<1>2. ASSUME NEW s \in Slots, Work(s) PROVE SampleInv(w)'
  <2>1. CASE s = w
    BY <1>2, <2>1, WorkSampling
  <2>2. CASE s # w
    BY <1>1, <1>2, <2>2, OtherWork
  <2> QED BY <2>1, <2>2
<1>3. ASSUME NEW s \in Slots, NEW kind \in Serves[s], NEW r \in Asked(kind), Ask(s, r) PROVE SampleInv(w)'
  <2>1. CASE s = w
    BY <1>3, <2>1, AsksSampling DEF SampleInv
  <2>2. CASE s # w
    <3>1. Stays /\ \A t \in Slots \ {s} : slot'[t] = slot[t]
      BY <1>3, AskIs
    <3> QED BY <1>1, <2>2, <3>1 DEF Elsewhere, Stays, OneWriter
  <2> QED BY <2>1, <2>2
<1>4. ASSUME NEW torn, Crash(torn) PROVE SampleInv(w)'
  <2>1. Stops(w)
    BY <1>4, CrashIs
  <2>2. Spared("policies") /\ Sampling(slot'[w])
    BY <2>1 DEF Stops, Files, Sampling
  <2> QED BY <2>2 DEF SampleInv, Spared
<1>5. CASE UNCHANGED vars
  BY <1>1, <1>5 DEF vars, Elsewhere
<1> QED BY <1>2, <1>3, <1>4, <1>5 DEF Next

\* With such policies a compaction finds nothing to drop.
LEMMA EachIsKept ==
    ASSUME NEW Texts, NEW States, NEW w, OneWriter(w), FileInv(Texts, States, w), SampleInv(w)
    PROVE  ThinsNothing
<1> SUFFICES ASSUME NEW s \in Slots, Has(s, "compact")
             PROVE  Len(Compacted(slot[s].copy, Doc(s), slot[s].result)) = Len(slot[s].copy)
  BY DEF ThinsNothing
<1> DEFINE x == slot[s]
<1>1. s = w /\ x.todo # <<>> /\ Name(x) = "compact" /\ x.copy # Nothing
  BY OnlyWriterWrites DEF Has
<1>2. x.copy = disk["bodyRevs"] /\ disk["bodyRevs"] # Torn
  BY <1>1, StageParts DEF SlotOK, FileOf
<1>3. x.copy \in Seq(BodyRow(Texts, States))
  BY <1>2 DEF FileInv, DiskOK, Files, Shaped
<1>4. x.result.frequency = 1
  BY <1>1 DEF SampleInv, Sampling
<1> QED BY <1>3, <1>4, EveryIndexSampled

LEMMA SampleInit ==
    ASSUME NEW w, OneWriter(w), Init
    PROVE  SampleInv(w)
<1>1. slot = [s \in Slots |-> Idle] /\ w \in Slots /\ disk["policies"] = [k \in {} |-> DefaultPolicy]
  BY DEF Init, OneWriter
<1>2. slot[w] = Idle /\ Idle.todo = <<>> /\ Idle.req.kind = "none"
  BY <1>1, IdleOK
<1> QED BY <1>1, <1>2 DEF SampleInv, Sampling, Each

\* The condition on compaction can be had from the policies alone: if every one
\* samples each revision (a frequency of 1), nothing is ever dropped, and the
\* history keeps its promises whatever crashes and refused writes there are
\* (compact_document_body_revisions, history_compaction.rs).
THEOREM SampledHistoryKept ==
    ASSUME NEW Texts, NEW States, Closed(Texts, States), NEW w, OneWriter(w), SamplesEach
    PROVE  Spec => [](HistoryRemembers /\ RewindPutsBack)
<1>1. Init => SampleInv(w)
  BY SampleInit
<1>2. /\ FileInv(Texts, States, w) /\ FileInv(Texts, States, w)' /\ PlanInv(w) /\ Clients(w)
      /\ SampleInv(w) /\ [Next]_vars
      => SampleInv(w)'
  BY NextSampling
<1>3. Spec => [](FileInv(Texts, States, w) /\ PlanInv(w) /\ Clients(w))
  BY PlansAlways
<1>4. FileInv(Texts, States, w) /\ SampleInv(w) => ThinsNothing
  BY EachIsKept
<1>5. Spec => []ThinsNothing
  BY <1>1, <1>2, <1>3, <1>4, PTL DEF Spec
<1>6. Spec /\ []ThinsNothing => []HistoryRemembers
  BY HistoryIsRemembered
<1>7. Spec /\ []ThinsNothing => []RewindPutsBack
  BY RewindsPutBack
<1> QED BY <1>5, <1>6, <1>7, PTL
=============================================================================
