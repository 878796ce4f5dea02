-------------------------- MODULE FileStoreProofs --------------------------
(***************************************************************************)
(* Theorems about FileStore while one slot writes and the others answer    *)
(* clients, for every set of documents, paths, texts and policies, under   *)
(* every crash and refused write.                                          *)
(***************************************************************************)
EXTENDS FileStore, Counting, SequenceTheorems

\* Texts and states are any sets that edits and merges do not lead out of and
\* the absent values are not in.
Closed(Texts, States) ==
    /\ Edits \subseteq Texts /\ Bases \subseteq Texts /\ Empty \in Texts /\ NoBody \notin Texts
    /\ NoState \notin States
    /\ \A t \in Texts : Checkpoint(t) \in States
    /\ \A s \in States : s.text \in Texts
    /\ \A s \in States, a \in Actors, b \in Bases, t \in Edits : ApplyUpdate(s, a, b, t) \in States
    /\ \A b \in Bases, t \in Texts, u \in Edits : UniteTexts(b, t, u) \in Texts

-----------------------------------------------------------------------------
(* The shape of the files.                                                 *)

Event == [seq : Nat, doc : Docs, kind : Kinds]
PathRow == [seq : Nat, doc : Docs, path : Paths, live : BOOLEAN]
BodyRow(Texts, States) ==
    [seq : Nat, doc : Docs, erased : BOOLEAN, own : Texts, replayed : States]

Snapshot(Texts, snap) ==
    /\ DOMAIN snap = {"path", "live", "bodies"}
    /\ snap.path \in [Docs -> Paths \cup {NoPath}] /\ snap.live \subseteq Docs
    /\ snap.bodies \in [Docs -> Texts \cup {NoBody}]
    /\ \A d \in snap.live : snap.path[d] \in Paths

Shaped(Texts, States, f, content) ==
    CASE f = "mounts" -> content \in {{}, Mounts}
      [] f = "snapshot" -> Snapshot(Texts, content)
      [] f = "canonical" -> content \in [Docs -> States \cup {NoState}]
      [] f = "events" -> content \in Seq(Event)
      [] f = "paths" -> content \in Seq(PathRow)
      [] f = "bodyRevs" -> content \in Seq(BodyRow(Texts, States))
      [] f = "policies" -> DOMAIN content \subseteq Keys

Files == {"mounts", "snapshot", "canonical", "events", "paths", "bodyRevs", "policies"}

DiskOK(Texts, States, files) ==
    /\ files = [f \in Files |-> files[f]]
    /\ \A f \in Files : files[f] # Torn => Shaped(Texts, States, f, files[f])

\* Events come with rising numbers, and every row of the history has one.
Row(rows, n, d) == \E i \in DOMAIN rows : rows[i].seq = n /\ rows[i].doc = d

Rising(rows) == \A i, j \in DOMAIN rows : i < j => rows[i].seq < rows[j].seq

Covered(rows, events) == \A i \in DOMAIN rows : Row(events, rows[i].seq, rows[i].doc)

NumbersOK(files) ==
    files["events"] # Torn =>
      /\ Rising(files["events"])
      /\ \A f \in {"paths", "bodyRevs"} : files[f] # Torn => Covered(files[f], files["events"])

-----------------------------------------------------------------------------
(* What a slot holds.                                                      *)

Plans == {"create", "update", "delete", "move", "restore", "rewind"}
Texting == {"create", "update", "restore"}

\* The stages up to the keeping of the snapshot, and those after it.
Planning == {"check", "mount", "snapshot", "merge", "revision", "history", "canonical", "keep"}
History == {"body", "entry", "policy", "compact", "path"}
Recording == {"number", "event"} \cup History
Purging == {"erase", "locate", "audit", "rollback"}

NamesOf(kind) ==
    CASE kind = "bootstrap" -> {"bind"}
      [] kind = "policy" -> {"policies"}
      [] kind = "changes" -> {"since", "delta", "changed"}
      [] kind = "purge" -> Purging \cup {"number"}
      [] kind = "create" -> {"check", "mount", "snapshot", "canonical", "keep"} \cup Recording
      [] kind = "update" -> {"snapshot", "merge", "canonical", "keep"} \cup Recording
      [] kind = "restore" -> {"snapshot", "revision", "canonical", "keep"} \cup Recording
      [] kind = "rewind" -> {"check", "snapshot", "history", "keep"} \cup Recording
      [] kind = "delete" -> {"check", "snapshot", "keep", "number", "event", "path"}
      [] kind = "move" -> {"check", "mount", "snapshot", "keep", "number", "event", "path"}
      [] kind = "none" -> {}

\* What comes before what in a request's stages.
Leads(kind, x, y) ==
    /\ y[1] \in {"event", "audit"} => x = <<"number", y[2]>>
    /\ y[1] \in History => x[1] \in {"event"} \cup (History \ {"path"}) /\ x[2] = y[2]
    /\ y[1] = "body" => x[1] = "event"
    /\ y[1] = "policy" <=> x[1] = "entry"
    /\ y[1] = "compact" <=> x[1] = "policy"
    /\ y[1] \notin {"erase", "check"}
    /\ y[1] = "history" => x[1] = "snapshot"
    /\ x[1] \in {"check", "mount"} => y[1] \in {"mount", "snapshot"}
    /\ y[1] = "snapshot" => x[1] \in {"check", "mount"}
    /\ y[1] = "canonical" => x[1] \in {"merge", "revision"} \cup (IF kind = "create" THEN {"snapshot"} ELSE {})
    /\ kind \in Texting => /\ y[1] = "keep" <=> x[1] = "canonical"
                           /\ y[1] = "number" => x[1] = "keep"

Stage == (DOMAIN FileOf) \X Nat

\* A request's stages, those of its snapshot before those of its history.
Formed(kind, doc, todo) ==
    /\ todo \in Seq(Stage)
    /\ \A i \in 1..Len(todo) :
          /\ todo[i][1] \in NamesOf(kind)
          /\ todo[i][1] \in Recording \cup Purging => todo[i][2] \in Docs
          /\ kind # "rewind" => todo[i][2] = doc
    /\ \A i \in 1..(Len(todo) - 1) : Leads(kind, todo[i], todo[i + 1])
    /\ \A i, j \in 1..Len(todo) :
          i < j /\ todo[i][1] \in {"keep"} \cup Recording => todo[j][1] \in Recording \cup {"audit"}
    /\ todo # <<>> => todo[Len(todo)][1] \notin (Planning \ {"keep"}) \cup {"entry", "policy"}

Result(Texts, States) == [own : Texts, state : States, onto : States \cup {NoState}]

Request(Texts, r) ==
    /\ r.kind \in Kinds \cup {"none"} /\ r.doc \in Nat
    /\ r.kind \in (Plans \ {"rewind"}) \cup {"purge"} => r.doc \in Docs
    /\ r.kind \in {"create", "move", "restore"} => r.path \in Paths
    /\ r.kind = "create" => r.edit.text \in Texts
    /\ r.kind = "update" => r.edit \in [actor : Actors, base : Bases, text : Edits]
    /\ r.kind = "policy" => r.target[1] \in Keys

Fields == {"req", "todo", "wrote", "old", "snap", "result", "number", "copy"}

SlotShaped(x) == x = [f \in Fields |-> x[f]]

Name(x) == x.todo[1][1]

\* What the stage a slot has come to relies on: a snapshot once it is worked
\* out, with a place for every document whose path will be recorded, ...
Planned(Texts, x) ==
    x.req.kind \in Plans /\ Name(x) \notin {"check", "mount", "snapshot"} =>
      /\ Snapshot(Texts, x.old) /\ Snapshot(Texts, x.snap)
      /\ Name(x) # "history" =>
           \A i \in 1..Len(x.todo) : x.todo[i][1] = "path" => x.snap.path[x.todo[i][2]] \in Paths

\* ... which until it is kept differs from the one on disk in what the request
\* is about, ...
Kept(files, x) ==
    x.req.kind \in Plans /\ Name(x) \in Planning \ {"check", "mount", "snapshot"} =>
      /\ files["snapshot"] # Torn /\ x.old = files["snapshot"]
      /\ x.req.kind # "rewind" =>
           \A d \in x.snap.live :
              \/ d \in x.old.live /\ x.snap.bodies[d] = x.old.bodies[d]
              \/ x.req.kind \in Texting /\ d = x.req.doc

\* ... the stages a rewind and a restore begin with, ...
Begun(x) ==
    /\ x.req.kind = "restore" /\ Name(x) = "snapshot" =>
         Len(x.todo) > 2 /\ x.todo[Len(x.todo) - 1][1] = "compact"
    /\ x.req.kind = "rewind" /\ Name(x) \in {"check", "snapshot", "history"} =>
         \A i \in 1..Len(x.todo) : x.todo[i][1] \in Planning

\* ... the text to write, the rows to put back, ...
Worked(Texts, States, files, x) ==
    /\ x.req.kind \in Texting /\ Name(x) \in {"canonical", "keep", "number", "event", "body"} =>
         /\ x.result \in Result(Texts, States)
         /\ x.req.kind # "update" => x.result.onto = NoState
    /\ x.req.kind \in Texting /\ Name(x) \in {"canonical", "keep"} =>
         x.result.state.text = x.snap.bodies[x.req.doc]
    /\ x.req.kind \in Texting /\ Name(x) = "keep" =>
         x.wrote /\ (files["canonical"] # Torn => files["canonical"][x.req.doc] = x.result.state)
    /\ x.req.kind = "purge" /\ Name(x) # "erase" => x.result \in Seq(BodyRow(Texts, States))

\* ... and a number that is the next one until its event is written and that
\* of an event when the rows of the history are.
Numbered(files, x) ==
    files["events"] # Torn =>
      /\ Name(x) \in {"event", "audit"} => x.number = Number(files["events"]) + 1
      /\ Name(x) \in History => Row(files["events"], x.number, x.todo[1][2])
      /\ x.req.kind = "purge" /\ Name(x) # "erase" => Covered(x.result, files["events"])

Due(Texts, States, files, x) ==
    x.todo # <<>> =>
      /\ Planned(Texts, x) /\ Kept(files, x) /\ Begun(x)
      /\ Worked(Texts, States, files, x) /\ Numbered(files, x)

SlotOK(Texts, States, files, x) ==
    /\ SlotShaped(x)
    /\ Request(Texts, x.req) /\ x.wrote \in BOOLEAN /\ x.number \in Nat
    /\ Formed(x.req.kind, x.req.doc, x.todo)
    /\ Due(Texts, States, files, x)
    /\ x.copy # Nothing => /\ x.todo # <<>> /\ Name(x) \in Copying
                           /\ files[FileOf[Name(x)]] # Torn /\ x.copy = files[FileOf[Name(x)]]

SlotsOK(Texts, States, files, slots) ==
    slots = [s \in Slots |-> slots[s]] /\ \A s \in Slots : SlotOK(Texts, States, files, slots[s])

\* One slot w writes; the others answer clients.
OneWriter(w) == w \in Slots /\ \A s \in Slots \ {w} : Serves[s] \subseteq {"changes"}

OthersRead(w, slots) == \A s \in Slots \ {w} : slots[s].req.kind \in {"none", "changes"}

\* Between its two writings of a text a request may be the only one to know it.
Between(x, d) == x.req.kind \in Texting /\ x.req.doc = d /\ x.todo # <<>> /\ Name(x) = "keep"

Agreed(files, d) ==
    /\ files["canonical"][d] # NoState
    /\ files["canonical"][d].text = Shown(files["snapshot"].bodies[d])

RowsAgree(files, gone, x) ==
    files["snapshot"] # Torn /\ files["canonical"] # Torn =>
      \A d \in files["snapshot"].live : <<"canonical", d>> \in gone \/ Between(x, d) \/ Agreed(files, d)

FileInv(Texts, States, w) ==
    /\ DiskOK(Texts, States, disk) /\ NumbersOK(disk) /\ RowsAgree(disk, lost, slot[w])
    /\ SlotsOK(Texts, States, disk, slot) /\ OthersRead(w, slot)
    /\ given \subseteq Docs /\ faults \in 0..MaxFaults

-----------------------------------------------------------------------------
(* Sequences of stages.                                                    *)

LEMMA TailParts ==
    ASSUME NEW S, NEW q \in Seq(S), q # <<>>
    PROVE  /\ Tail(q) \in Seq(S) /\ q[1] \in S /\ q[1] = Head(q)
           /\ Len(q) \in Nat /\ Len(q) > 0 /\ Len(Tail(q)) = Len(q) - 1
           /\ \A i \in 1..(Len(q) - 1) : Tail(q)[i] = q[i + 1]
           /\ Tail(q) # <<>> => Len(q) > 1 /\ Tail(q)[1] = q[2]
  OBVIOUS

LEMMA TailFormed ==
    ASSUME NEW kind, NEW doc, NEW todo, Formed(kind, doc, todo), todo # <<>>
    PROVE  /\ Formed(kind, doc, Tail(todo))
           /\ Tail(todo) # <<>> => /\ Tail(todo)[1] = todo[2] /\ Len(todo) > 1
                                   /\ Leads(kind, todo[1], todo[2])
<1> DEFINE q == Tail(todo)
<1>1. todo \in Seq(Stage)
  BY DEF Formed
<1>2. /\ q \in Seq(Stage) /\ Len(todo) \in Nat /\ Len(todo) > 0 /\ Len(q) = Len(todo) - 1
      /\ \A i \in 1..(Len(todo) - 1) : q[i] = todo[i + 1]
      /\ q # <<>> => Len(todo) > 1 /\ q[1] = todo[2]
  BY <1>1, TailParts
<1>3. \A i \in 1..Len(q) : i + 1 \in 1..Len(todo) /\ q[i] = todo[i + 1]
  BY <1>2
<1>4. \A i \in 1..(Len(q) - 1) : i + 1 \in 1..(Len(todo) - 1) /\ q[i] = todo[i + 1] /\ q[i + 1] = todo[(i + 1) + 1]
  BY <1>2
<1>5. q # <<>> => q[Len(q)] = todo[Len(todo)]
  BY <1>2
<1> HIDE DEF q
<1>6. \A i \in 1..Len(q) :
          /\ q[i][1] \in NamesOf(kind)
          /\ q[i][1] \in Recording \cup Purging => q[i][2] \in Docs
          /\ kind # "rewind" => q[i][2] = doc
  BY <1>3 DEF Formed
<1>7. \A i \in 1..(Len(q) - 1) : Leads(kind, q[i], q[i + 1])
  BY <1>4 DEF Formed
<1>8. \A i, j \in 1..Len(q) :
          i < j /\ q[i][1] \in {"keep"} \cup Recording => q[j][1] \in Recording \cup {"audit"}
  <2> SUFFICES ASSUME NEW i \in 1..Len(q), NEW j \in 1..Len(q), i < j, q[i][1] \in {"keep"} \cup Recording
               PROVE  q[j][1] \in Recording \cup {"audit"}
    OBVIOUS
  <2>1. i + 1 \in 1..Len(todo) /\ j + 1 \in 1..Len(todo) /\ i + 1 < j + 1
    BY <1>3
  <2> QED BY <1>3, <2>1 DEF Formed
<1>9. q # <<>> => Leads(kind, todo[1], todo[2])
  BY <1>2 DEF Formed
<1> QED BY <1>2, <1>5, <1>6, <1>7, <1>8, <1>9 DEF Formed, q

LEMMA FrontParts ==
    ASSUME NEW S, NEW q \in Seq(S), q # <<>>
    PROVE  Len(Front(q)) = Len(q) - 1 /\ \A i \in 1..(Len(q) - 1) : Front(q)[i] = q[i]
<1>1. Len(q) \in Nat /\ Front(q) = SubSeq(q, 1, Len(q) - 1)
  BY DEF Front
<1>2. \A i \in 1..(Len(q) - 1) : q[i] \in S
  BY <1>1, ElementOfSeq
<1>3. Len(q) > 0
  BY TailParts
<1> DEFINE n == Len(q) - 1
           sub == SubSeq(q, 1, n)
<1>4. n \in Int /\ 1 \in Int /\ n >= 0
  BY <1>1, <1>3
<1> HIDE DEF n
<1>5. Len(sub) = (IF 1 <= n THEN n - 1 + 1 ELSE 0) /\ \A i \in 1..(n - 1 + 1) : sub[i] = q[1 + i - 1]
  BY <1>2, <1>4, SubSeqProperties DEF n
<1> HIDE DEF sub
<1>6. Len(sub) = n /\ \A i \in 1..n : sub[i] = q[i]
  BY <1>4, <1>5
<1> QED BY <1>1, <1>6 DEF n, sub

\* A request may end sooner, but not between what belongs together.
LEMMA FrontFormed ==
    ASSUME NEW kind, NEW doc, NEW todo, Formed(kind, doc, todo), NEW n \in Nat, n = Len(todo) - 1, n > 0,
           todo[n][1] \notin (Planning \ {"keep"}) \cup {"entry", "policy"}
    PROVE  Formed(kind, doc, Front(todo))
<1> DEFINE q == Front(todo)
<1>1. todo \in Seq(Stage) /\ Len(todo) \in Nat
  BY DEF Formed
<1>2. q \in Seq(Stage) /\ Len(q) = Len(todo) - 1 /\ \A i \in 1..Len(q) : q[i] = todo[i] /\ i \in 1..Len(todo)
  <2>1. q = SubSeq(todo, 1, Len(todo) - 1)
    BY DEF Front
  <2> QED BY <1>1, <2>1, SubSeqProperties
<1> HIDE DEF q
<1>3. q # <<>> => q[Len(q)] = todo[n]
  BY <1>1, <1>2
<1>4. \A i \in 1..(Len(q) - 1) : i \in 1..Len(q) /\ i + 1 \in 1..Len(q) /\ i \in 1..(Len(todo) - 1)
  BY <1>1, <1>2
<1>5. \A i \in 1..(Len(q) - 1) : Leads(kind, q[i], q[i + 1])
  BY <1>2, <1>4 DEF Formed
<1> QED BY <1>2, <1>3, <1>5 DEF Formed, q

\* What makes a list of names the stages of a request of some kind.
Listing(kind, names) ==
    /\ Len(names) \in Nat \ {0} /\ DOMAIN names = 1..Len(names)
    /\ \A i \in 1..Len(names) : names[i] \in DOMAIN FileOf \cap NamesOf(kind)
    /\ \A i \in 1..(Len(names) - 1), d \in Nat : Leads(kind, <<names[i], d>>, <<names[i + 1], d>>)
    /\ \A i, j \in 1..Len(names) :
          i < j /\ names[i] \in {"keep"} \cup Recording => names[j] \in Recording \cup {"audit"}
    /\ names[Len(names)] \notin (Planning \ {"keep"}) \cup {"entry", "policy"}

LEMMA ListingFormed ==
    ASSUME NEW kind, NEW names, Listing(kind, names), NEW doc \in Nat, NEW asked,
           kind # "rewind" => doc = asked,
           \A i \in 1..Len(names) : names[i] \in Recording \cup Purging => doc \in Docs
    PROVE  /\ Formed(kind, asked, ForDoc(names, doc)) /\ Len(ForDoc(names, doc)) = Len(names)
           /\ \A i \in 1..Len(names) : ForDoc(names, doc)[i] = <<names[i], doc>>
<1> DEFINE q == ForDoc(names, doc)
<1>1. q = [i \in 1..Len(names) |-> <<names[i], doc>>] /\ Len(names) \in Nat \ {0}
  BY DEF ForDoc, Listing
<1>2. \A i \in 1..Len(names) : <<names[i], doc>> \in Stage
  BY DEF Stage, Listing
<1>3. q \in Seq(Stage) /\ Len(q) = Len(names) /\ \A i \in 1..Len(names) : q[i] = <<names[i], doc>>
  BY <1>1, <1>2
<1> HIDE DEF q
<1>4. \A i \in 1..Len(q) :
          /\ q[i][1] \in NamesOf(kind)
          /\ q[i][1] \in Recording \cup Purging => q[i][2] \in Docs
          /\ kind # "rewind" => q[i][2] = asked
  BY <1>3 DEF Listing
<1>5. \A i \in 1..(Len(q) - 1) : Leads(kind, q[i], q[i + 1])
  <2> TAKE i \in 1..(Len(q) - 1)
  <2>1. q[i] = <<names[i], doc>> /\ q[i + 1] = <<names[i + 1], doc>> /\ i \in 1..(Len(names) - 1)
    BY <1>1, <1>3
  <2> QED BY <2>1 DEF Listing
<1>6. \A i, j \in 1..Len(q) :
          i < j /\ q[i][1] \in {"keep"} \cup Recording => q[j][1] \in Recording \cup {"audit"}
  BY <1>3 DEF Listing
<1>7. q[Len(q)][1] \notin (Planning \ {"keep"}) \cup {"entry", "policy"}
  BY <1>1, <1>3 DEF Listing
<1> QED BY <1>3, <1>4, <1>5, <1>6, <1>7 DEF Formed, q

LEMMA StagesListed ==
    ASSUME NEW kind \in Kinds
    PROVE  Listing(kind, StagesOf(kind))
<1>1. CASE kind = "bootstrap"
  <2> DEFINE names == StagesOf(kind)
  <2>1. names = <<"bind">>
    BY <1>1 DEF StagesOf
  <2> HIDE DEF names
  <2>2. Len(names) = 1 /\ DOMAIN names = 1..1
    BY <2>1
  <2>3. \A i \in 1..1 : names[i] \in DOMAIN FileOf \cap NamesOf(kind)
    BY <1>1, <2>1 DEF FileOf, NamesOf, Plans, Planning, Recording, History, Purging
  <2>4. \A i \in 1..0, d \in Nat : Leads(kind, <<names[i], d>>, <<names[i + 1], d>>)
    BY <1>1, <2>1 DEF Leads, Texting, History
  <2>5. \A i, j \in 1..1 :
          i < j /\ names[i] \in {"keep"} \cup Recording => names[j] \in Recording \cup {"audit"}
    BY <2>1 DEF Recording, History
  <2> QED BY <2>1, <2>2, <2>3, <2>4, <2>5 DEF Listing, Planning, names
<1>2. CASE kind = "create"
  <2> DEFINE names == StagesOf(kind)
  <2>1. names = <<"check", "mount", "snapshot", "canonical", "keep", "number", "event", "body", "entry", "policy", "compact", "path">>
    BY <1>2 DEF StagesOf
  <2> HIDE DEF names
  <2>2. Len(names) = 12 /\ DOMAIN names = 1..12
    BY <2>1
  <2>3. \A i \in 1..12 : names[i] \in DOMAIN FileOf \cap NamesOf(kind)
    BY <1>2, <2>1 DEF FileOf, NamesOf, Plans, Planning, Recording, History, Purging
  <2>4. \A i \in 1..11, d \in Nat : Leads(kind, <<names[i], d>>, <<names[i + 1], d>>)
    BY <1>2, <2>1 DEF Leads, Texting, History
  <2>5. \A i, j \in 1..12 :
          i < j /\ names[i] \in {"keep"} \cup Recording => names[j] \in Recording \cup {"audit"}
    BY <2>1 DEF Recording, History
  <2> QED BY <2>1, <2>2, <2>3, <2>4, <2>5 DEF Listing, Planning, names
<1>3. CASE kind = "update"
  <2> DEFINE names == StagesOf(kind)
  <2>1. names = <<"snapshot", "merge", "canonical", "keep", "number", "event", "body", "entry", "policy", "compact">>
    BY <1>3 DEF StagesOf
  <2> HIDE DEF names
  <2>2. Len(names) = 10 /\ DOMAIN names = 1..10
    BY <2>1
  <2>3. \A i \in 1..10 : names[i] \in DOMAIN FileOf \cap NamesOf(kind)
    BY <1>3, <2>1 DEF FileOf, NamesOf, Plans, Planning, Recording, History, Purging
  <2>4. \A i \in 1..9, d \in Nat : Leads(kind, <<names[i], d>>, <<names[i + 1], d>>)
    BY <1>3, <2>1 DEF Leads, Texting, History
  <2>5. \A i, j \in 1..10 :
          i < j /\ names[i] \in {"keep"} \cup Recording => names[j] \in Recording \cup {"audit"}
    BY <2>1 DEF Recording, History
  <2> QED BY <2>1, <2>2, <2>3, <2>4, <2>5 DEF Listing, Planning, names
<1>4. CASE kind = "delete"
  <2> DEFINE names == StagesOf(kind)
  <2>1. names = <<"check", "snapshot", "keep", "number", "event", "path">>
    BY <1>4 DEF StagesOf
  <2> HIDE DEF names
  <2>2. Len(names) = 6 /\ DOMAIN names = 1..6
    BY <2>1
  <2>3. \A i \in 1..6 : names[i] \in DOMAIN FileOf \cap NamesOf(kind)
    BY <1>4, <2>1 DEF FileOf, NamesOf, Plans, Planning, Recording, History, Purging
  <2>4. \A i \in 1..5, d \in Nat : Leads(kind, <<names[i], d>>, <<names[i + 1], d>>)
    BY <1>4, <2>1 DEF Leads, Texting, History
  <2>5. \A i, j \in 1..6 :
          i < j /\ names[i] \in {"keep"} \cup Recording => names[j] \in Recording \cup {"audit"}
    BY <2>1 DEF Recording, History
  <2> QED BY <2>1, <2>2, <2>3, <2>4, <2>5 DEF Listing, Planning, names
<1>5. CASE kind = "move"
  <2> DEFINE names == StagesOf(kind)
  <2>1. names = <<"check", "mount", "snapshot", "keep", "number", "event", "path">>
    BY <1>5 DEF StagesOf
  <2> HIDE DEF names
  <2>2. Len(names) = 7 /\ DOMAIN names = 1..7
    BY <2>1
  <2>3. \A i \in 1..7 : names[i] \in DOMAIN FileOf \cap NamesOf(kind)
    BY <1>5, <2>1 DEF FileOf, NamesOf, Plans, Planning, Recording, History, Purging
  <2>4. \A i \in 1..6, d \in Nat : Leads(kind, <<names[i], d>>, <<names[i + 1], d>>)
    BY <1>5, <2>1 DEF Leads, Texting, History
  <2>5. \A i, j \in 1..7 :
          i < j /\ names[i] \in {"keep"} \cup Recording => names[j] \in Recording \cup {"audit"}
    BY <2>1 DEF Recording, History
  <2> QED BY <2>1, <2>2, <2>3, <2>4, <2>5 DEF Listing, Planning, names
<1>6. CASE kind = "restore"
  <2> DEFINE names == StagesOf(kind)
  <2>1. names = <<"snapshot", "revision", "canonical", "keep", "number", "event", "body", "entry", "policy", "compact", "path">>
    BY <1>6 DEF StagesOf
  <2> HIDE DEF names
  <2>2. Len(names) = 11 /\ DOMAIN names = 1..11
    BY <2>1
  <2>3. \A i \in 1..11 : names[i] \in DOMAIN FileOf \cap NamesOf(kind)
    BY <1>6, <2>1 DEF FileOf, NamesOf, Plans, Planning, Recording, History, Purging
  <2>4. \A i \in 1..10, d \in Nat : Leads(kind, <<names[i], d>>, <<names[i + 1], d>>)
    BY <1>6, <2>1 DEF Leads, Texting, History
  <2>5. \A i, j \in 1..11 :
          i < j /\ names[i] \in {"keep"} \cup Recording => names[j] \in Recording \cup {"audit"}
    BY <2>1 DEF Recording, History
  <2> QED BY <2>1, <2>2, <2>3, <2>4, <2>5 DEF Listing, Planning, names
<1>7. CASE kind = "rewind"
  <2> DEFINE names == StagesOf(kind)
  <2>1. names = <<"check", "snapshot", "history", "keep">>
    BY <1>7 DEF StagesOf
  <2> HIDE DEF names
  <2>2. Len(names) = 4 /\ DOMAIN names = 1..4
    BY <2>1
  <2>3. \A i \in 1..4 : names[i] \in DOMAIN FileOf \cap NamesOf(kind)
    BY <1>7, <2>1 DEF FileOf, NamesOf, Plans, Planning, Recording, History, Purging
  <2>4. \A i \in 1..3, d \in Nat : Leads(kind, <<names[i], d>>, <<names[i + 1], d>>)
    BY <1>7, <2>1 DEF Leads, Texting, History
  <2>5. \A i, j \in 1..4 :
          i < j /\ names[i] \in {"keep"} \cup Recording => names[j] \in Recording \cup {"audit"}
    BY <2>1 DEF Recording, History
  <2> QED BY <2>1, <2>2, <2>3, <2>4, <2>5 DEF Listing, Planning, names
<1>8. CASE kind = "purge"
  <2> DEFINE names == StagesOf(kind)
  <2>1. names = <<"erase", "locate", "number", "audit">>
    BY <1>8 DEF StagesOf
  <2> HIDE DEF names
  <2>2. Len(names) = 4 /\ DOMAIN names = 1..4
    BY <2>1
  <2>3. \A i \in 1..4 : names[i] \in DOMAIN FileOf \cap NamesOf(kind)
    BY <1>8, <2>1 DEF FileOf, NamesOf, Plans, Planning, Recording, History, Purging
  <2>4. \A i \in 1..3, d \in Nat : Leads(kind, <<names[i], d>>, <<names[i + 1], d>>)
    BY <1>8, <2>1 DEF Leads, Texting, History
  <2>5. \A i, j \in 1..4 :
          i < j /\ names[i] \in {"keep"} \cup Recording => names[j] \in Recording \cup {"audit"}
    BY <2>1 DEF Recording, History
  <2> QED BY <2>1, <2>2, <2>3, <2>4, <2>5 DEF Listing, Planning, names
<1>9. CASE kind = "policy"
  <2> DEFINE names == StagesOf(kind)
  <2>1. names = <<"policies">>
    BY <1>9 DEF StagesOf
  <2> HIDE DEF names
  <2>2. Len(names) = 1 /\ DOMAIN names = 1..1
    BY <2>1
  <2>3. \A i \in 1..1 : names[i] \in DOMAIN FileOf \cap NamesOf(kind)
    BY <1>9, <2>1 DEF FileOf, NamesOf, Plans, Planning, Recording, History, Purging
  <2>4. \A i \in 1..0, d \in Nat : Leads(kind, <<names[i], d>>, <<names[i + 1], d>>)
    BY <1>9, <2>1 DEF Leads, Texting, History
  <2>5. \A i, j \in 1..1 :
          i < j /\ names[i] \in {"keep"} \cup Recording => names[j] \in Recording \cup {"audit"}
    BY <2>1 DEF Recording, History
  <2> QED BY <2>1, <2>2, <2>3, <2>4, <2>5 DEF Listing, Planning, names
<1>10. CASE kind = "changes"
  <2> DEFINE names == StagesOf(kind)
  <2>1. names = <<"since", "delta", "changed">>
    BY <1>10 DEF StagesOf
  <2> HIDE DEF names
  <2>2. Len(names) = 3 /\ DOMAIN names = 1..3
    BY <2>1
  <2>3. \A i \in 1..3 : names[i] \in DOMAIN FileOf \cap NamesOf(kind)
    BY <1>10, <2>1 DEF FileOf, NamesOf, Plans, Planning, Recording, History, Purging
  <2>4. \A i \in 1..2, d \in Nat : Leads(kind, <<names[i], d>>, <<names[i + 1], d>>)
    BY <1>10, <2>1 DEF Leads, Texting, History
  <2>5. \A i, j \in 1..3 :
          i < j /\ names[i] \in {"keep"} \cup Recording => names[j] \in Recording \cup {"audit"}
    BY <2>1 DEF Recording, History
  <2> QED BY <2>1, <2>2, <2>3, <2>4, <2>5 DEF Listing, Planning, names
<1> QED BY <1>1, <1>2, <1>3, <1>4, <1>5, <1>6, <1>7, <1>8, <1>9, <1>10 DEF Kinds

LEMMA StagesFormed ==
    ASSUME NEW kind \in Kinds, NEW doc \in Nat, kind \in (Plans \ {"rewind"}) \cup {"purge"} => doc \in Docs
    PROVE  Formed(kind, doc, Stages(kind, doc)) /\ Stages(kind, doc) # <<>>
<1>1. Listing(kind, StagesOf(kind))
  BY StagesListed
<1>2. kind \in {"rewind", "bootstrap", "policy", "changes"} =>
        \A i \in 1..Len(StagesOf(kind)) : StagesOf(kind)[i] \notin Recording \cup Purging
  BY DEF StagesOf, Recording, History, Purging
<1>3. kind \notin {"rewind", "bootstrap", "policy", "changes"} => doc \in Docs
  BY DEF Kinds, Plans
<1>4. /\ Formed(kind, doc, Stages(kind, doc)) /\ Len(Stages(kind, doc)) = Len(StagesOf(kind))
      /\ Len(StagesOf(kind)) # 0
  BY <1>1, <1>2, <1>3, ListingFormed DEF Stages, Listing
<1> QED BY <1>4

-----------------------------------------------------------------------------
(* One slot moves.                                                         *)

LEMMA SlotParts ==
    ASSUME NEW Texts, NEW States, NEW files, NEW x, SlotOK(Texts, States, files, x), x.todo # <<>>
    PROVE  /\ x.todo \in Seq(Stage) /\ Head(x.todo) = x.todo[1] /\ Head(x.todo)[1] = Name(x)
           /\ Len(x.todo) \in Nat /\ Len(x.todo) > 0 /\ x.todo[1] \in Stage
           /\ Name(x) \in NamesOf(x.req.kind) /\ x.req.kind \in Kinds
           /\ Name(x) \in Recording \cup Purging => x.todo[1][2] \in Docs
           /\ x.req.kind # "rewind" => x.todo[1][2] = x.req.doc
<1>1. x.todo \in Seq(Stage) /\ Formed(x.req.kind, x.req.doc, x.todo)
  BY DEF SlotOK, Formed
<1>2. /\ Head(x.todo) = x.todo[1] /\ x.todo[1] \in Stage /\ Len(x.todo) \in Nat /\ Len(x.todo) > 0
      /\ 1 \in 1..Len(x.todo)
  BY <1>1, TailParts
<1>3. Name(x) \in NamesOf(x.req.kind)
  BY <1>1, <1>2 DEF Formed, Name
<1>4. x.req.kind \in Kinds
  BY <1>3 DEF SlotOK, Request, NamesOf
<1> QED BY <1>1, <1>2, <1>3, <1>4 DEF Formed, Name

LEMMA Advances ==
    ASSUME NEW Texts, NEW States, NEW files, NEW x, SlotOK(Texts, States, files, x), x.todo # <<>>,
           NEW after, NEW y, SlotShaped(y), y.req = x.req, y.todo = Tail(x.todo), y.copy = Nothing,
           y.wrote \in BOOLEAN, y.number \in Nat, Due(Texts, States, after, y)
    PROVE  SlotOK(Texts, States, after, y)
<1>1. Formed(x.req.kind, x.req.doc, Tail(x.todo))
  BY TailFormed DEF SlotOK
<1> QED BY <1>1 DEF SlotOK

\* Requests that neither plan nor purge rely on nothing.
LEMMA OthersDue ==
    ASSUME NEW Texts, NEW States, NEW files, NEW x, x.req.kind \notin Plans \cup {"purge"},
           Formed(x.req.kind, x.req.doc, x.todo), x.req.kind \in Kinds \cup {"none"}
    PROVE  Due(Texts, States, files, x)
<1> SUFFICES ASSUME x.todo # <<>> PROVE Due(Texts, States, files, x)
  BY DEF Due
<1>1. Name(x) \in NamesOf(x.req.kind)
  <2>1. 1 \in 1..Len(x.todo)
    BY TailParts DEF Formed
  <2> QED BY <2>1 DEF Formed, Name
<1>2. Name(x) \in {"bind", "policies", "since", "delta", "changed"}
  BY <1>1 DEF NamesOf, Plans, Kinds
<1> QED BY <1>2 DEF Due, Planned, Kept, Begun, Worked, Numbered, Texting, Plans, History

\* Most stages leave what the next one relies on as it was.
LEMMA Inherits ==
    ASSUME NEW Texts, NEW States, NEW files, NEW x, SlotOK(Texts, States, files, x), x.todo # <<>>,
           Name(x) \in {"check", "mount", "locate", "keep"} \cup History,
           NEW after, after["events"] = files["events"],
           NEW y, y.req = x.req, y.todo = Tail(x.todo), y.old = x.old, y.snap = x.snap,
           y.number = x.number, y.result = x.result \/ Name(x) \in {"entry", "policy"}
    PROVE  Due(Texts, States, after, y)
<1> SUFFICES ASSUME y.todo # <<>> PROVE Due(Texts, States, after, y)
  BY DEF Due
<1> DEFINE kind == x.req.kind
<1>1. /\ Formed(kind, x.req.doc, x.todo) /\ Formed(kind, x.req.doc, y.todo)
      /\ y.todo[1] = x.todo[2] /\ Leads(kind, x.todo[1], y.todo[1]) /\ Len(x.todo) > 1 /\ Len(x.todo) \in Nat
      /\ Name(x) \in NamesOf(kind) /\ kind \in Kinds
  <2>1. Formed(kind, x.req.doc, x.todo)
    BY DEF SlotOK
  <2>2. Name(x) \in NamesOf(kind) /\ kind \in Kinds /\ Len(x.todo) \in Nat
    BY SlotParts
  <2>3. /\ Formed(kind, x.req.doc, Tail(x.todo))
        /\ Tail(x.todo) # <<>> => /\ Tail(x.todo)[1] = x.todo[2] /\ Len(x.todo) > 1
                                  /\ Leads(kind, x.todo[1], x.todo[2])
    BY <2>1, TailFormed
  <2> QED BY <2>1, <2>2, <2>3
<1>2. /\ Len(y.todo) \in Nat /\ Len(y.todo) = Len(x.todo) - 1 /\ Len(y.todo) > 0
      /\ \A i \in 1..Len(y.todo) : y.todo[i] = x.todo[i + 1] /\ i + 1 \in 1..Len(x.todo)
  BY <1>1, TailParts DEF Formed
<1>3. 1 \in 1..Len(y.todo) /\ Name(y) \in NamesOf(kind)
  BY <1>1, <1>2 DEF Formed, Name
<1>4. Due(Texts, States, files, x)
  BY DEF SlotOK
<1>5. Name(x) \in {"keep"} \cup History => Name(y) \in Recording \cup {"audit"}
  <2>1. 1 \in 1..Len(x.todo) /\ 2 \in 1..Len(x.todo) /\ 1 < 2
    BY <1>1
  <2> QED BY <1>1, <2>1 DEF Formed, Name, Recording
<1>6. Name(x) \in {"check", "mount"} => Name(y) \in {"mount", "snapshot"}
  BY <1>1 DEF Leads, Name
<1>7. Name(x) = "locate" => kind = "purge"
  BY <1>1 DEF NamesOf, Kinds, Recording, History, Purging
<1>8. Planned(Texts, y)
  <2> SUFFICES ASSUME kind \in Plans, Name(y) \notin {"check", "mount", "snapshot"} PROVE Planned(Texts, y)
    BY DEF Planned
  <2>1. Name(x) \in {"keep"} \cup History
    BY <1>6, <1>7 DEF Plans
  <2>2. /\ Snapshot(Texts, x.old) /\ Snapshot(Texts, x.snap)
        /\ \A i \in 1..Len(x.todo) : x.todo[i][1] = "path" => x.snap.path[x.todo[i][2]] \in Paths
    BY <1>4, <2>1 DEF Due, Planned, History
  <2> QED BY <1>2, <2>2 DEF Planned
<1>9. Kept(after, y)
  BY <1>5, <1>6, <1>7 DEF Kept, Plans, Planning, Recording, History
<1>10. Begun(y)
  <2> SUFFICES ASSUME kind \in {"rewind", "restore"}, Name(y) \in {"check", "snapshot", "history"} PROVE Begun(y)
    BY DEF Begun
  <2>1. Name(x) \in {"check", "mount"}
    BY <1>5, <1>7 DEF Recording, History
  <2>2. kind = "rewind" /\ Name(x) = "check"
    BY <1>1, <2>1 DEF NamesOf, Recording, History
  <2>3. \A i \in 1..Len(x.todo) : x.todo[i][1] \in Planning
    BY <1>4, <2>2 DEF Due, Begun
  <2> QED BY <1>2, <2>2, <2>3 DEF Begun
<1>11. Worked(Texts, States, after, y)
  <2>1. CASE kind = "purge"
    <3>1. Name(x) = "locate"
      BY <1>1, <2>1 DEF NamesOf, Purging, History
    <3> QED BY <1>4, <2>1, <3>1 DEF Worked, Due, Texting
  <2>2. CASE kind \in Texting
    <3>1. Name(y) # "canonical" /\ Name(y) # "keep" /\ Name(y) # "body"
      BY <1>1, <2>2 DEF Leads, Name, History
    <3>2. CASE Name(y) = "event"
      BY <1>1, <3>2 DEF Leads, Name, History
    <3>3. CASE Name(y) = "number"
      <4>1. Name(x) = "keep"
        BY <1>1, <2>2, <3>3 DEF Leads, Name
      <4> QED BY <1>4, <2>2, <3>1, <3>3, <4>1 DEF Worked, Due, Texting
    <3> QED BY <2>2, <3>1, <3>2, <3>3 DEF Worked, Texting
  <2> QED BY <2>1, <2>2 DEF Worked
<1>12. Numbered(after, y)
  <2> SUFFICES ASSUME files["events"] # Torn PROVE Numbered(after, y)
    BY DEF Numbered
  <2>1. Name(y) \notin {"event", "audit"}
    BY <1>1 DEF Leads, Name, History
  <2>2. Name(y) \in History => Row(files["events"], y.number, y.todo[1][2])
    <3> SUFFICES ASSUME Name(y) \in History PROVE Row(files["events"], y.number, y.todo[1][2])
      OBVIOUS
    <3>1. Name(x) \in History /\ x.todo[1][2] = y.todo[1][2]
      BY <1>1 DEF Leads, Name, History
    <3> QED BY <1>4, <3>1 DEF Due, Numbered
  <2>3. kind = "purge" => Name(x) = "locate"
    BY <1>1 DEF NamesOf, Purging, History
  <2>4. kind = "purge" => Covered(y.result, files["events"])
    BY <1>4, <2>3 DEF Due, Numbered
  <2> QED BY <2>1, <2>2, <2>4 DEF Numbered
<1> QED BY <1>8, <1>9, <1>10, <1>11, <1>12 DEF Due

\* A request that only reads holds good whatever is on disk.
LEMMA ReadersOK ==
    ASSUME NEW Texts, NEW States, NEW files, NEW x, SlotOK(Texts, States, files, x),
           x.req.kind \in {"none", "changes"}, NEW after
    PROVE  /\ SlotOK(Texts, States, after, x) /\ x.copy = Nothing
           /\ x.todo # <<>> => Name(x) \in {"since", "delta", "changed"}
<1>1. x.todo # <<>> => Name(x) \in {"since", "delta", "changed"}
  <2> SUFFICES ASSUME x.todo # <<>> PROVE Name(x) \in {"since", "delta", "changed"}
    OBVIOUS
  <2>1. Name(x) \in NamesOf(x.req.kind)
    BY SlotParts
  <2> QED BY <2>1 DEF NamesOf
<1>2. x.copy = Nothing
  BY <1>1 DEF SlotOK, Copying
<1>3. Due(Texts, States, after, x)
  <2>1. Formed(x.req.kind, x.req.doc, x.todo) /\ x.req.kind \in Kinds \cup {"none"}
    BY DEF SlotOK, Request
  <2> QED BY <2>1, OthersDue DEF Plans
<1> QED BY <1>1, <1>2, <1>3 DEF SlotOK

LEMMA SlotsAre ==
    ASSUME NEW Texts, NEW States, NEW w, FileInv(Texts, States, w), NEW s \in Slots
    PROVE  SlotOK(Texts, States, disk, slot[s]) /\ (s # w => slot[s].req.kind \in {"none", "changes"})
  BY DEF FileInv, SlotsOK, OthersRead

LEMMA OnlyWriterWrites ==
    ASSUME NEW Texts, NEW States, NEW w, FileInv(Texts, States, w), NEW s \in Slots
    PROVE  /\ \A f : Writing(s, f) => s = w
           /\ \A name : Has(s, name) => s = w
           /\ \A name : At(s, name) => /\ name = Name(slot[s]) /\ slot[s].todo # <<>>
                                       /\ s # w => name \in {"since", "delta", "changed"}
<1>1. SlotOK(Texts, States, disk, slot[s]) /\ (s # w => slot[s].req.kind \in {"none", "changes"})
  BY SlotsAre
<1>2. \A name : At(s, name) => name = Name(slot[s]) /\ slot[s].todo # <<>>
  <2> SUFFICES ASSUME NEW name, At(s, name) PROVE name = Name(slot[s]) /\ slot[s].todo # <<>>
    OBVIOUS
  <2>1. slot[s].todo # <<>> /\ Head(slot[s].todo)[1] = name
    BY DEF At
  <2>2. Head(slot[s].todo)[1] = Name(slot[s])
    BY <1>1, <2>1, SlotParts
  <2> QED BY <2>1, <2>2
<1>3. s # w => slot[s].copy = Nothing /\ \A name : At(s, name) => name \in {"since", "delta", "changed"}
  <2> SUFFICES ASSUME s # w
               PROVE  slot[s].copy = Nothing /\ \A name : At(s, name) => name \in {"since", "delta", "changed"}
    OBVIOUS
  <2>1. slot[s].copy = Nothing /\ (slot[s].todo # <<>> => Name(slot[s]) \in {"since", "delta", "changed"})
    BY <1>1, ReadersOK
  <2> QED BY <1>2, <2>1
<1>4. \A name : Has(s, name) => s = w
  BY <1>3 DEF Has
<1>5. \A f : Writing(s, f) => s = w
  <2> SUFFICES ASSUME NEW f, Writing(s, f), s # w PROVE FALSE
    OBVIOUS
  <2>1. \A name : ~Has(s, name)
    BY <1>4
  <2>2. \E name \in {"keep", "rollback"} : At(s, name)
    BY <2>1 DEF Writing
  <2> QED BY <1>3, <2>2
<1> QED BY <1>2, <1>3, <1>4, <1>5

Moved(slots, s, x) == [slots EXCEPT ![s] = x]

LEMMA Moves ==
    ASSUME NEW Texts, NEW States, NEW w, OneWriter(w), FileInv(Texts, States, w), NEW s \in Slots,
           NEW x, NEW after, SlotOK(Texts, States, after, x),
           s # w => x.req.kind \in {"none", "changes"} /\ after = disk
    PROVE  LET slots == Moved(slot, s, x)
           IN  /\ SlotsOK(Texts, States, after, slots) /\ OthersRead(w, slots)
               /\ slots[s] = x /\ (s # w => slots[w] = slot[w])
<1> DEFINE slots == Moved(slot, s, x)
<1>1. w \in Slots /\ slot = [t \in Slots |-> slot[t]]
  BY DEF OneWriter, FileInv, SlotsOK
<1>2. slots = [t \in Slots |-> IF t = s THEN x ELSE slot[t]]
  BY <1>1 DEF Moved
<1> HIDE DEF slots
<1>3. \A t \in Slots : t # s => SlotOK(Texts, States, after, slot[t])
  <2> SUFFICES ASSUME NEW t \in Slots, t # s PROVE SlotOK(Texts, States, after, slot[t])
    OBVIOUS
  <2>1. SlotOK(Texts, States, disk, slot[t]) /\ (t # w => slot[t].req.kind \in {"none", "changes"})
    BY SlotsAre
  <2> QED BY <2>1, ReadersOK
<1>4. SlotsOK(Texts, States, after, slots)
  BY <1>2, <1>3 DEF SlotsOK
<1>5. OthersRead(w, slots)
  BY <1>2, SlotsAre DEF OthersRead
<1>6. slots[s] = x /\ (s # w => slots[w] = slot[w])
  BY <1>1, <1>2
<1> QED BY <1>4, <1>5, <1>6 DEF slots

\* A step that writes nothing.
LEMMA Quiet ==
    ASSUME NEW Texts, NEW States, NEW w, OneWriter(w), FileInv(Texts, States, w), NEW s \in Slots,
           NEW x, slot' = [slot EXCEPT ![s] = x], SlotOK(Texts, States, disk, x),
           s # w => x.req.kind \in {"none", "changes"},
           slot[s].todo # <<>> => Name(slot[s]) # "keep",
           disk' = disk, given' \subseteq Docs, faults' \in 0..MaxFaults, lost \subseteq lost'
    PROVE  FileInv(Texts, States, w)'
<1>1. /\ SlotsOK(Texts, States, disk', slot') /\ OthersRead(w, slot')
      /\ slot'[s] = x /\ (s # w => slot'[w] = slot[w])
  <2>1. /\ SlotsOK(Texts, States, disk, Moved(slot, s, x)) /\ OthersRead(w, Moved(slot, s, x))
        /\ Moved(slot, s, x)[s] = x /\ (s # w => Moved(slot, s, x)[w] = slot[w])
    BY Moves
  <2> QED BY <2>1 DEF Moved
<1>2. \A d : Between(slot[w], d) => Between(slot'[w], d)
  BY <1>1 DEF Between
<1>3. RowsAgree(disk', lost', slot'[w])
  BY <1>2 DEF FileInv, RowsAgree
<1> QED BY <1>1, <1>3 DEF FileInv

\* A stage that only goes on, with what changed says.
LEMMA QuietStage ==
    ASSUME NEW Texts, NEW States, NEW w, OneWriter(w), FileInv(Texts, States, w), NEW s \in Slots,
           slot[s].todo # <<>>, Name(slot[s]) # "keep",
           NEW x, slot' = [slot EXCEPT ![s] = x], SlotShaped(x), x.req = slot[s].req,
           x.todo = Tail(slot[s].todo), x.copy = Nothing, x.wrote \in BOOLEAN, x.number \in Nat,
           Due(Texts, States, disk, x),
           UNCHANGED <<disk, given, faults, lost>>
    PROVE  FileInv(Texts, States, w)'
<1>1. SlotOK(Texts, States, disk, slot[s]) /\ (s # w => slot[s].req.kind \in {"none", "changes"})
  BY SlotsAre
<1>2. SlotOK(Texts, States, disk, x)
  BY <1>1, Advances
<1>3. given' \subseteq Docs /\ faults' \in 0..MaxFaults
  BY DEF FileInv
<1> QED BY <1>1, <1>2, <1>3, Quiet

LEMMA IdleOK ==
    ASSUME NEW Texts, NEW States, NEW files
    PROVE  SlotOK(Texts, States, files, Idle) /\ Idle.req.kind = "none" /\ Idle.todo = <<>>
<1>1. <<>> \in Seq(Stage) /\ Len(<<>>) = 0
  OBVIOUS
<1>2. SlotShaped(Idle) /\ Idle.req = NoRequest /\ Idle.todo = <<>> /\ Idle.copy = Nothing
      /\ Idle.wrote \in BOOLEAN /\ Idle.number \in Nat
  BY DEF SlotShaped, Fields, Idle
<1>3. Request(Texts, NoRequest) /\ NoRequest.kind = "none"
  BY DEF Request, NoRequest, Plans
<1>4. Formed("none", NoRequest.doc, <<>>)
  BY <1>1 DEF Formed
<1>5. Request(Texts, Idle.req) /\ Formed(Idle.req.kind, Idle.req.doc, Idle.todo)
      /\ Due(Texts, States, files, Idle)
  BY <1>2, <1>3, <1>4 DEF Due
<1> QED BY <1>2, <1>3, <1>5 DEF SlotOK

-----------------------------------------------------------------------------
(* Stages that write nothing.                                              *)

\* What a slot that held x holds when its stage is done.
Onward(x) == [x EXCEPT !.todo = Tail(@), !.copy = Nothing]

LEMMA OnwardIs ==
    ASSUME NEW x, SlotShaped(x)
    PROVE  LET y == Onward(x)
           IN  /\ SlotShaped(y) /\ y.req = x.req /\ y.todo = Tail(x.todo) /\ y.wrote = x.wrote /\ y.old = x.old
               /\ y.snap = x.snap /\ y.result = x.result /\ y.number = x.number /\ y.copy = Nothing
<1> DEFINE y == Onward(x)
<1>1. DOMAIN x = Fields /\ y = [x EXCEPT !.todo = Tail(@), !.copy = Nothing]
  BY DEF SlotShaped, Onward
<1>2. y = [f \in Fields |-> IF f = "todo" THEN Tail(x.todo) ELSE IF f = "copy" THEN Nothing ELSE x[f]]
  BY <1>1 DEF Fields
<1> HIDE DEF y
<1>3. /\ SlotShaped(y) /\ y.req = x.req /\ y.todo = Tail(x.todo) /\ y.wrote = x.wrote /\ y.old = x.old
      /\ y.snap = x.snap /\ y.result = x.result /\ y.number = x.number /\ y.copy = Nothing
  BY <1>2 DEF SlotShaped, Fields
<1> QED BY <1>3 DEF y

LEMMA CheckKeeps ==
    ASSUME NEW Texts, NEW States, NEW w, OneWriter(w), FileInv(Texts, States, w), NEW s \in Slots, Check(s)
    PROVE  FileInv(Texts, States, w)'
<1> DEFINE x == slot[s]
           y == Onward(x)
<1>1. PICK name \in {"check", "mount", "locate"} : Reads(s, name)
  BY DEF Check
<1>2. x.todo # <<>> /\ Name(x) \in {"check", "mount", "locate"}
  BY <1>1, OnlyWriterWrites DEF Reads
<1>3. SlotOK(Texts, States, disk, x)
  BY SlotsAre
<1>4. slot' = [slot EXCEPT ![s] = y] /\ UNCHANGED <<disk, given, faults, lost>>
  BY DEF Check, Advance, Onward
<1>5. /\ SlotShaped(y) /\ y.req = x.req /\ y.todo = Tail(x.todo) /\ y.wrote = x.wrote /\ y.old = x.old
      /\ y.snap = x.snap /\ y.result = x.result /\ y.number = x.number /\ y.copy = Nothing
  BY <1>3, OnwardIs DEF SlotOK
<1> HIDE DEF y
<1>6. Due(Texts, States, disk, y)
  BY <1>2, <1>3, <1>5, Inherits
<1>7. y.wrote \in BOOLEAN /\ y.number \in Nat
  BY <1>3, <1>5 DEF SlotOK
<1> QED BY <1>2, <1>4, <1>5, <1>6, <1>7, QuietStage

WithResult(x, result) == [x EXCEPT !.result = result]

LEMMA ResultChanged ==
    ASSUME NEW x, SlotShaped(x), NEW result, NEW c, c = WithResult(x, result)
    PROVE  /\ SlotShaped(c) /\ c.req = x.req /\ c.todo = x.todo /\ c.wrote = x.wrote /\ c.old = x.old
           /\ c.snap = x.snap /\ c.result = result /\ c.number = x.number
  BY DEF SlotShaped, Fields, WithResult

LEMMA FindPolicyKeeps ==
    ASSUME NEW Texts, NEW States, NEW w, OneWriter(w), FileInv(Texts, States, w), NEW s \in Slots, FindPolicy(s)
    PROVE  FileInv(Texts, States, w)'
<1> DEFINE x == slot[s]
<1>a. PICK c : c = WithResult(x, PolicyFor(x.result, disk.policies))
  OBVIOUS
<1> DEFINE y == Onward(c)
<1>1. x.todo # <<>> /\ Name(x) = "policy"
  BY OnlyWriterWrites DEF FindPolicy, Reads
<1>2. SlotOK(Texts, States, disk, x)
  BY SlotsAre
<1>3. slot' = [slot EXCEPT ![s] = y] /\ UNCHANGED <<disk, given, faults, lost>>
  BY <1>a DEF FindPolicy, Advance, Onward, WithResult
<1>4. /\ SlotShaped(c) /\ c.req = x.req /\ c.todo = x.todo /\ c.wrote = x.wrote /\ c.old = x.old
      /\ c.snap = x.snap /\ c.number = x.number
  BY <1>2, <1>a, ResultChanged DEF SlotOK
<1>5. /\ SlotShaped(y) /\ y.req = x.req /\ y.todo = Tail(x.todo) /\ y.wrote = x.wrote /\ y.old = x.old
      /\ y.snap = x.snap /\ y.number = x.number /\ y.copy = Nothing
  BY <1>4, OnwardIs
<1> HIDE DEF y
<1>6. Due(Texts, States, disk, y)
  BY <1>1, <1>2, <1>5, Inherits DEF History
<1>7. y.wrote \in BOOLEAN /\ y.number \in Nat
  BY <1>2, <1>5 DEF SlotOK
<1> QED BY <1>1, <1>3, <1>5, <1>6, <1>7, QuietStage

\* A compaction's stages come together.
LEMMA CompactionTogether ==
    ASSUME NEW Texts, NEW States, NEW files, NEW x, SlotOK(Texts, States, files, x), x.todo # <<>>,
           Name(x) \in {"entry", "policy"}
    PROVE  /\ Tail(x.todo) # <<>>
           /\ Name(x) = "entry" => Tail(x.todo)[1][1] = "policy"
           /\ Name(x) = "policy" => Tail(x.todo)[1][1] = "compact"
<1>1. Formed(x.req.kind, x.req.doc, x.todo)
  BY DEF SlotOK
<1>2. /\ x.todo \in Seq(Stage) /\ Len(x.todo) \in Nat /\ Len(x.todo) > 0 /\ Len(Tail(x.todo)) = Len(x.todo) - 1
  BY <1>1, TailParts DEF Formed
<1>3. Len(x.todo) # 1
  BY <1>1, <1>2 DEF Formed, Name
<1>4. Len(Tail(x.todo)) # 0
  BY <1>2, <1>3
<1>5. Tail(x.todo) # <<>>
  BY <1>4, EmptySeq
<1>6. Tail(x.todo)[1] = x.todo[2] /\ Leads(x.req.kind, x.todo[1], x.todo[2])
  BY <1>1, <1>5, TailFormed
<1> QED BY <1>5, <1>6 DEF Leads, Name

LEMMA SkipOK ==
    ASSUME NEW Texts, NEW States, NEW files, NEW x, SlotOK(Texts, States, files, x), x.todo # <<>>,
           Name(x) \in {"entry", "policy", "compact"}
    PROVE  SlotOK(Texts, States, files, Onward(x))
<1> DEFINE y == Onward(x)
<1>1. /\ SlotShaped(y) /\ y.req = x.req /\ y.todo = Tail(x.todo) /\ y.wrote = x.wrote /\ y.old = x.old
      /\ y.snap = x.snap /\ y.result = x.result /\ y.number = x.number /\ y.copy = Nothing
  BY OnwardIs DEF SlotOK
<1> HIDE DEF y
<1>2. Due(Texts, States, files, y)
  BY <1>1, Inherits DEF History
<1>3. y.wrote \in BOOLEAN /\ y.number \in Nat
  BY <1>1 DEF SlotOK
<1>4. SlotOK(Texts, States, files, y)
  BY <1>1, <1>2, <1>3, Advances
<1> QED BY <1>4 DEF y

LEMMA SameSlot ==
    ASSUME NEW x, NEW y, SlotShaped(x), SlotShaped(y), y.req = x.req, y.todo = x.todo, y.wrote = x.wrote,
           y.old = x.old, y.snap = x.snap, y.result = x.result, y.number = x.number, y.copy = x.copy
    PROVE  x = y
  BY DEF SlotShaped, Fields

LEMMA FindEntryKeeps ==
    ASSUME NEW Texts, NEW States, NEW w, OneWriter(w), FileInv(Texts, States, w), NEW s \in Slots, FindEntry(s)
    PROVE  FileInv(Texts, States, w)'
<1> DEFINE x == slot[s]
<1>1. x.todo # <<>> /\ Name(x) = "entry"
  BY OnlyWriterWrites DEF FindEntry, Reads
<1>2. SlotOK(Texts, States, disk, x)
  BY SlotsAre
<1>3. CASE Doc(s) \in disk.snapshot.live
  <2>a. PICK c : c = WithResult(x, disk.snapshot.path[Doc(s)])
    OBVIOUS
  <2> DEFINE y == Onward(c)
  <2>1. slot' = [slot EXCEPT ![s] = y] /\ UNCHANGED <<disk, given, faults, lost>>
    BY <1>3, <2>a DEF FindEntry, Advance, Onward, WithResult
  <2>2. /\ SlotShaped(c) /\ c.req = x.req /\ c.todo = x.todo /\ c.wrote = x.wrote /\ c.old = x.old
        /\ c.snap = x.snap /\ c.number = x.number
    BY <1>2, <2>a, ResultChanged DEF SlotOK
  <2>3. /\ SlotShaped(y) /\ y.req = x.req /\ y.todo = Tail(x.todo) /\ y.wrote = x.wrote /\ y.old = x.old
        /\ y.snap = x.snap /\ y.number = x.number /\ y.copy = Nothing
    BY <2>2, OnwardIs
  <2> HIDE DEF y
  <2>4. Due(Texts, States, disk, y)
    BY <1>1, <1>2, <2>3, Inherits DEF History
  <2>5. y.wrote \in BOOLEAN /\ y.number \in Nat
    BY <1>2, <2>3 DEF SlotOK
  <2> QED BY <1>1, <2>1, <2>3, <2>4, <2>5, QuietStage
<1>4. CASE Doc(s) \notin disk.snapshot.live
  <2> DEFINE skipped == SubSeq(x.todo, 3, Len(x.todo))
             c == [x EXCEPT !.todo = skipped]
             y == Onward(c)
             y1 == Onward(x)
             y2 == Onward(y1)
             y3 == Onward(y2)
  <2>1. /\ SlotOK(Texts, States, disk, y1) /\ y1.todo = Tail(x.todo) /\ y1.todo # <<>> /\ Name(y1) = "policy"
        /\ y1.req = x.req /\ y1.wrote = x.wrote /\ y1.old = x.old
        /\ y1.snap = x.snap /\ y1.result = x.result /\ y1.number = x.number
    <3>1. SlotOK(Texts, States, disk, y1)
      BY <1>1, <1>2, SkipOK
    <3>2. /\ y1.todo = Tail(x.todo) /\ y1.req = x.req /\ y1.wrote = x.wrote /\ y1.old = x.old
          /\ y1.snap = x.snap /\ y1.result = x.result /\ y1.number = x.number
      BY <1>2, OnwardIs DEF SlotOK
    <3>3. Tail(x.todo) # <<>> /\ Tail(x.todo)[1][1] = "policy"
      BY <1>1, <1>2, CompactionTogether
    <3> HIDE DEF y1
    <3> QED BY <3>1, <3>2, <3>3 DEF Name
  <2> HIDE DEF y1
  <2>2. /\ SlotOK(Texts, States, disk, y2) /\ y2.todo = Tail(y1.todo) /\ y2.todo # <<>> /\ Name(y2) = "compact"
        /\ y2.req = x.req /\ y2.wrote = x.wrote /\ y2.old = x.old
        /\ y2.snap = x.snap /\ y2.result = x.result /\ y2.number = x.number
    <3>1. SlotOK(Texts, States, disk, y2)
      BY <2>1, SkipOK
    <3>2. /\ y2.todo = Tail(y1.todo) /\ y2.req = y1.req /\ y2.wrote = y1.wrote /\ y2.old = y1.old
          /\ y2.snap = y1.snap /\ y2.result = y1.result /\ y2.number = y1.number
      BY <2>1, OnwardIs DEF SlotOK
    <3>3. Tail(y1.todo) # <<>> /\ Tail(y1.todo)[1][1] = "compact"
      BY <2>1, CompactionTogether
    <3> HIDE DEF y2
    <3> QED BY <2>1, <3>1, <3>2, <3>3 DEF Name
  <2> HIDE DEF y2
  <2>3. /\ SlotOK(Texts, States, disk, y3) /\ y3.todo = Tail(y2.todo)
        /\ y3.req = x.req /\ y3.wrote = x.wrote /\ y3.old = x.old
        /\ y3.snap = x.snap /\ y3.result = x.result /\ y3.number = x.number /\ y3.copy = Nothing
    <3>1. SlotOK(Texts, States, disk, y3)
      BY <2>2, SkipOK
    <3>2. /\ y3.todo = Tail(y2.todo) /\ y3.req = y2.req /\ y3.wrote = y2.wrote /\ y3.old = y2.old
          /\ y3.snap = y2.snap /\ y3.result = y2.result /\ y3.number = y2.number /\ y3.copy = Nothing
      BY <2>2, OnwardIs DEF SlotOK
    <3> HIDE DEF y3
    <3> QED BY <2>2, <3>1, <3>2
  <2>4. y2.todo = skipped
    <3>1. x.todo \in Seq(Stage) /\ Tail(x.todo) # <<>>
      BY <1>2, <2>1 DEF SlotOK, Formed
    <3>2. Len(x.todo) \in Nat /\ Len(x.todo) > 1
      BY <1>1, <3>1, TailParts
    <3>3. Tail(x.todo) = SubSeq(x.todo, 2, Len(x.todo))
      BY <1>1, <3>1, TailIsSubSeq
    <3>4. 2 \in 1..Len(x.todo) /\ Len(x.todo) \in 2..Len(x.todo)
      BY <3>2
    <3>5. Tail(SubSeq(x.todo, 2, Len(x.todo))) = SubSeq(x.todo, 2 + 1, Len(x.todo))
      BY <3>1, <3>4, HeadTailOfSubSeq
    <3> QED BY <2>1, <2>2, <3>3, <3>5
  <2> HIDE DEF skipped, y3
  <2>5. /\ SlotShaped(c) /\ c.req = x.req /\ c.todo = skipped /\ c.wrote = x.wrote /\ c.old = x.old
        /\ c.snap = x.snap /\ c.result = x.result /\ c.number = x.number
    BY <1>2 DEF SlotOK, SlotShaped, Fields
  <2> HIDE DEF c
  <2>6. /\ SlotShaped(y) /\ y.req = x.req /\ y.todo = Tail(skipped) /\ y.wrote = x.wrote /\ y.old = x.old
        /\ y.snap = x.snap /\ y.result = x.result /\ y.number = x.number /\ y.copy = Nothing
    BY <2>5, OnwardIs
  <2>7. slot' = [slot EXCEPT ![s] = y] /\ UNCHANGED <<disk, given, faults, lost>>
    BY <1>4 DEF FindEntry, Advance, Onward, c, skipped
  <2> HIDE DEF y
  <2>8. y = y3
    BY <2>3, <2>4, <2>6, SameSlot DEF SlotOK
  <2>9. s # w => y.req.kind \in {"none", "changes"}
    BY <2>6, SlotsAre
  <2>10. given' \subseteq Docs /\ faults' \in 0..MaxFaults /\ SlotOK(Texts, States, disk, y)
    BY <2>3, <2>7, <2>8 DEF FileInv
  <2> QED BY <1>1, <2>7, <2>9, <2>10, Quiet
<1> QED BY <1>3, <1>4

LEMMA NumberIs ==
    ASSUME NEW events \in Seq(Event)
    PROVE  /\ Number(events) \in Nat
           /\ events # <<>> => Number(events) = events[Len(events)].seq /\ Len(events) \in 1..Len(events)
<1>1. CASE events = <<>>
  BY <1>1 DEF Number
<1>2. CASE events # <<>>
  <2>1. Len(events) \in Nat /\ Len(events) > 0
    BY <1>2, TailParts
  <2>2. Last(events) = events[Len(events)] /\ Len(events) \in 1..Len(events)
    BY <2>1 DEF Last
  <2>3. events[Len(events)] \in Event
    BY <2>2, ElementOfSeq
  <2> QED BY <1>2, <2>2, <2>3 DEF Number, Event
<1> QED BY <1>1, <1>2

\* A client's request reads on.
LEMMA ClientsGoOn ==
    ASSUME NEW Texts, NEW States, NEW w, OneWriter(w), FileInv(Texts, States, w), NEW s \in Slots,
           slot[s].todo # <<>>, Name(slot[s]) \in {"since", "delta", "changed"},
           NEW c, SlotShaped(c), c.req = slot[s].req, c.wrote = slot[s].wrote, c.number \in Nat,
           Tail(c.todo) = Tail(slot[s].todo) \/ Tail(c.todo) = <<>>,
           slot' = [slot EXCEPT ![s] = Onward(c)], UNCHANGED <<disk, given, faults, lost>>
    PROVE  FileInv(Texts, States, w)'
<1> DEFINE x == slot[s]
           y == Onward(c)
<1>1. SlotOK(Texts, States, disk, x) /\ (s # w => x.req.kind \in {"none", "changes"})
  BY SlotsAre
<1>2. x.req.kind = "changes"
  <2>1. Name(x) \in NamesOf(x.req.kind) /\ x.req.kind \in Kinds
    BY <1>1, SlotParts
  <2> QED BY <2>1 DEF NamesOf, Kinds, Recording, History, Purging
<1>3. /\ SlotShaped(y) /\ y.req = x.req /\ y.todo = Tail(c.todo) /\ y.wrote = x.wrote
      /\ y.number \in Nat /\ y.copy = Nothing
  BY OnwardIs
<1> HIDE DEF y
<1>4. Formed(y.req.kind, y.req.doc, y.todo)
  <2>1. Formed(x.req.kind, x.req.doc, Tail(x.todo))
    BY <1>1, TailFormed DEF SlotOK
  <2>2. <<>> \in Seq(Stage) /\ Len(<<>>) = 0
    OBVIOUS
  <2>3. Formed(x.req.kind, x.req.doc, <<>>)
    BY <2>2 DEF Formed
  <2> QED BY <1>3, <2>1, <2>3
<1>5. Due(Texts, States, disk, y)
  <2>1. y.req.kind \notin Plans \cup {"purge"} /\ y.req.kind \in Kinds
    BY <1>2, <1>3 DEF Plans, Kinds
  <2> QED BY <1>4, <2>1, OthersDue
<1>6. SlotOK(Texts, States, disk, y)
  BY <1>1, <1>3, <1>4, <1>5 DEF SlotOK
<1>7. given' \subseteq Docs /\ faults' \in 0..MaxFaults
  BY DEF FileInv
<1> QED BY <1>2, <1>3, <1>6, <1>7, Quiet DEF y

LEMMA ReadSinceKeeps ==
    ASSUME NEW Texts, NEW States, NEW w, OneWriter(w), FileInv(Texts, States, w), NEW s \in Slots, ReadSince(s)
    PROVE  FileInv(Texts, States, w)'
<1> DEFINE x == slot[s]
           current == Number(disk.events)
           todo == IF current <= x.req.target.cursor THEN <<Head(x.todo)>> ELSE x.todo
           c == [x EXCEPT !.number = current, !.todo = todo]
<1>1. x.todo # <<>> /\ Name(x) = "since" /\ disk.events # Torn
  BY OnlyWriterWrites DEF ReadSince, Reads, FileOf
<1>2. SlotOK(Texts, States, disk, x)
  BY SlotsAre
<1>3. current \in Nat
  BY <1>1, NumberIs DEF FileInv, DiskOK, Shaped, Files
<1>4. slot' = [slot EXCEPT ![s] = Onward(c)] /\ UNCHANGED <<disk, given, faults, lost>>
  BY DEF ReadSince, Advance, Onward
<1>5. Tail(<<Head(x.todo)>>) = <<>>
  OBVIOUS
<1> HIDE DEF current
<1>6. Tail(todo) = Tail(x.todo) \/ Tail(todo) = <<>>
  BY <1>5
<1> HIDE DEF todo
<1>7. SlotShaped(c) /\ c.req = x.req /\ c.wrote = x.wrote /\ c.number = current /\ c.todo = todo
  BY <1>2 DEF SlotOK, SlotShaped, Fields
<1> HIDE DEF c
<1> QED BY <1>1, <1>3, <1>4, <1>6, <1>7, ClientsGoOn

LEMMA ReadDeltaKeeps ==
    ASSUME NEW Texts, NEW States, NEW w, OneWriter(w), FileInv(Texts, States, w), NEW s \in Slots, ReadDelta(s)
    PROVE  FileInv(Texts, States, w)'
<1> DEFINE x == slot[s]
           c == [x EXCEPT !.snap = disk.snapshot]
<1>1. x.todo # <<>> /\ Name(x) = "delta"
  BY OnlyWriterWrites DEF ReadDelta, Reads
<1>2. SlotOK(Texts, States, disk, x)
  BY SlotsAre
<1>3. slot' = [slot EXCEPT ![s] = Onward(c)] /\ UNCHANGED <<disk, given, faults, lost>>
  BY DEF ReadDelta, Advance, Onward
<1>4. SlotShaped(c) /\ c.req = x.req /\ c.wrote = x.wrote /\ c.number = x.number /\ c.todo = x.todo
  BY <1>2 DEF SlotOK, SlotShaped, Fields
<1> HIDE DEF c
<1>5. x.number \in Nat
  BY <1>2 DEF SlotOK
<1> QED BY <1>1, <1>3, <1>4, <1>5, ClientsGoOn

LEMMA ReadChangedKeeps ==
    ASSUME NEW Texts, NEW States, NEW w, OneWriter(w), FileInv(Texts, States, w), NEW s \in Slots, ReadChanged(s)
    PROVE  FileInv(Texts, States, w)'
<1> DEFINE x == slot[s]
           c == WithResult(x, {e.doc : e \in {k \in ToSet(disk.events) : k.seq > x.req.target.cursor}})
<1>1. x.todo # <<>> /\ Name(x) = "changed"
  BY OnlyWriterWrites DEF ReadChanged, Reads
<1>2. SlotOK(Texts, States, disk, x)
  BY SlotsAre
<1>3. slot' = [slot EXCEPT ![s] = Onward(c)] /\ UNCHANGED <<disk, given, faults, lost>>
  BY DEF ReadChanged, Advance, Onward, WithResult
<1>4. SlotShaped(c) /\ c.req = x.req /\ c.wrote = x.wrote /\ c.number = x.number /\ c.todo = x.todo
  BY <1>2, ResultChanged DEF SlotOK
<1> HIDE DEF c
<1>5. x.number \in Nat
  BY <1>2 DEF SlotOK
<1> QED BY <1>1, <1>3, <1>4, <1>5, ClientsGoOn

LEMMA FetchKeeps ==
    ASSUME NEW Texts, NEW States, NEW w, OneWriter(w), FileInv(Texts, States, w), NEW s \in Slots, Fetch(s)
    PROVE  FileInv(Texts, States, w)'
<1> DEFINE x == slot[s]
           content == disk[FileOf[Head(x.todo)[1]]]
           y == [x EXCEPT !.copy = content]
<1>1. PICK name \in Copying : Reads(s, name)
  BY DEF Fetch
<1>2. x.todo # <<>> /\ name = Name(x) /\ disk[FileOf[name]] # Torn
  BY <1>1, OnlyWriterWrites DEF Reads
<1>3. SlotOK(Texts, States, disk, x)
  BY SlotsAre
<1>4. Head(x.todo)[1] = Name(x)
  BY <1>2, <1>3, SlotParts
<1>5. slot' = [slot EXCEPT ![s] = y] /\ UNCHANGED <<disk, given, faults, lost>>
  BY DEF Fetch
<1> HIDE DEF content
<1>6. /\ SlotShaped(y) /\ y.req = x.req /\ y.todo = x.todo /\ y.wrote = x.wrote /\ y.old = x.old
      /\ y.snap = x.snap /\ y.result = x.result /\ y.number = x.number /\ y.copy = content
  BY <1>3 DEF SlotOK, SlotShaped, Fields
<1> HIDE DEF y
<1>7. Due(Texts, States, disk, y)
  BY <1>3, <1>6 DEF SlotOK, Due, Planned, Kept, Begun, Worked, Numbered, Name
<1>8. Name(y) = Name(x) /\ content = disk[FileOf[Name(x)]]
  BY <1>4, <1>6 DEF Name, content
<1>9. SlotOK(Texts, States, disk, y)
  BY <1>2, <1>3, <1>6, <1>7, <1>8 DEF SlotOK
<1>10. s # w => y.req.kind \in {"none", "changes"}
  BY <1>6, SlotsAre
<1>11. given' \subseteq Docs /\ faults' \in 0..MaxFaults
  BY <1>5 DEF FileInv
<1> QED BY <1>1, <1>2, <1>5, <1>9, <1>10, <1>11, Quiet DEF Copying

LEMMA RefuseKeeps ==
    ASSUME NEW Texts, NEW States, NEW w, OneWriter(w), FileInv(Texts, States, w), NEW s \in Slots,
           Refuse(s) \/ Answer(s)
    PROVE  FileInv(Texts, States, w)'
<1>1. slot' = [slot EXCEPT ![s] = Idle] /\ UNCHANGED <<disk, given, faults, lost>>
  BY DEF Refuse, Answer
<1>2. slot[s].todo # <<>> => Name(slot[s]) # "keep"
  <2> SUFFICES ASSUME slot[s].todo # <<>>, Name(slot[s]) = "keep" PROVE FALSE
    OBVIOUS
  <2>1. \A name : At(s, name) => name = "keep"
    BY OnlyWriterWrites
  <2>2. Acceptable(s)
    BY <2>1 DEF Acceptable, Has
  <2> QED BY <2>2 DEF Refuse, Answer
<1>3. given' \subseteq Docs /\ faults' \in 0..MaxFaults
  BY <1>1 DEF FileInv
<1> QED BY <1>1, <1>2, <1>3, IdleOK, Quiet

-----------------------------------------------------------------------------
(* Requests.                                                               *)

LEMMA StagesBegin ==
    ASSUME NEW kind \in Kinds, NEW doc \in Nat
    PROVE  LET q == Stages(kind, doc)
           IN  /\ kind \in Plans => q[1][1] \in {"check", "snapshot"}
               /\ kind = "purge" => q[1][1] = "erase"
               /\ kind = "restore" => Len(q) > 2 /\ q[Len(q) - 1][1] = "compact"
               /\ kind = "rewind" => \A i \in 1..Len(q) : q[i][1] \in Planning
<1> DEFINE names == StagesOf(kind)
           q == Stages(kind, doc)
<1>1. Listing(kind, names)
  BY StagesListed
<1>2. q = [i \in 1..Len(names) |-> <<names[i], doc>>] /\ Len(names) \in Nat \ {0}
  BY <1>1 DEF Stages, ForDoc, Listing
<1>3. Len(q) = Len(names) /\ \A i \in 1..Len(names) : q[i][1] = names[i]
  BY <1>2
<1>4. kind \in Plans => names[1] \in {"check", "snapshot"}
  BY DEF StagesOf, Plans
<1>5. kind = "purge" => names[1] = "erase"
  BY DEF StagesOf
<1>6. kind = "restore" => Len(names) > 2 /\ names[Len(names) - 1] = "compact"
  BY DEF StagesOf
<1>7. kind = "rewind" => \A i \in 1..Len(names) : names[i] \in Planning
  BY DEF StagesOf, Planning
<1> HIDE DEF q, names
<1>8. 1 \in 1..Len(names)
  BY <1>2
<1>9. kind = "restore" => Len(names) - 1 \in 1..Len(names)
  BY <1>2, <1>6
<1> QED BY <1>3, <1>4, <1>5, <1>6, <1>7, <1>8, <1>9 DEF q

LEMMA AskedIs ==
    ASSUME NEW Texts, NEW States, Closed(Texts, States), given \subseteq Docs,
           NEW kind \in Kinds, NEW r \in Asked(kind)
    PROVE  /\ Request(Texts, r) /\ r.kind = kind
           /\ kind = "create" => r.doc \in Docs
<1> DEFINE next == Min(Docs \ given)
<1>1. given \subseteq Nat /\ Docs \subseteq Nat
  BY FilesAssumption
<1>2. Docs # given => next \in Docs
  <2> SUFFICES ASSUME Docs # given PROVE next \in Docs
    OBVIOUS
  <2>1. Docs \ given \in SUBSET Nat /\ Docs \ given # {}
    BY <1>1
  <2>2. \E x \in Docs \ given : \A y \in Docs \ given : x <= y
    BY <2>1, LeastExists
  <2> QED BY <2>2 DEF Min
<1>3. CASE kind = "create"
  <2>1. \E p \in Paths, t \in Bases : /\ r.kind = "create" /\ r.doc = next /\ r.path = p /\ r.edit.text = t
                                     /\ Docs # given
    BY <1>3 DEF Asked
  <2> HIDE DEF next
  <2> QED BY <1>1, <1>2, <1>3, <2>1 DEF Request, Closed
<1>4. CASE kind = "update"
  <2>1. \E d \in given, a \in Actors, b \in Bases, t \in Edits :
           r.kind = "update" /\ r.doc = d /\ r.edit = [actor |-> a, base |-> b, text |-> t]
    BY <1>4 DEF Asked
  <2> QED BY <1>1, <1>4, <2>1 DEF Request
<1>5. CASE kind = "delete"
  <2>1. \E d \in given : r.kind = "delete" /\ r.doc = d
    BY <1>5 DEF Asked
  <2> QED BY <1>1, <1>5, <2>1 DEF Request
<1>6. CASE kind \in {"move", "restore"}
  <2>1. \E d \in given, p \in Paths : r.kind = kind /\ r.doc = d /\ r.path = p
    BY <1>6 DEF Asked
  <2> QED BY <1>1, <1>6, <2>1 DEF Request
<1>7. CASE kind = "purge"
  <2>1. \E d \in given : r.kind = "purge" /\ r.doc = d
    BY <1>7 DEF Asked
  <2> QED BY <1>1, <1>7, <2>1 DEF Request
<1>8. CASE kind = "policy"
  <2>1. \E k \in Keys, x \in Policies \cup {Nothing} : r.kind = "policy" /\ r.doc = 0 /\ r.target = <<k, x>>
    BY <1>8 DEF Asked
  <2> QED BY <1>8, <2>1 DEF Request, Plans
<1>9. CASE kind \in {"bootstrap", "rewind", "changes"}
  <2>1. r.kind = kind /\ r.doc = 0
    BY <1>9 DEF Asked
  <2> QED BY <1>9, <2>1 DEF Request, Plans
<1> QED BY <1>3, <1>4, <1>5, <1>6, <1>7, <1>8, <1>9 DEF Kinds

LEMMA AskKeeps ==
    ASSUME NEW Texts, NEW States, Closed(Texts, States), NEW w, OneWriter(w), FileInv(Texts, States, w),
           NEW s \in Slots, NEW kind \in Serves[s], NEW r \in Asked(kind), Ask(s, r)
    PROVE  FileInv(Texts, States, w)'
<1> DEFINE q == Stages(r.kind, r.doc)
           y == [Idle EXCEPT !.req = r, !.todo = q]
<1>1. kind \in Kinds
  BY FilesAssumption
<1>2. given \subseteq Docs
  BY DEF FileInv
<1>3. Request(Texts, r) /\ r.kind = kind /\ (kind = "create" => r.doc \in Docs)
  BY <1>1, <1>2, AskedIs
<1>4. Formed(r.kind, r.doc, q) /\ q # <<>>
  BY <1>1, <1>3, StagesFormed DEF Request
<1>5. slot' = [slot EXCEPT ![s] = y] /\ UNCHANGED <<disk, faults, lost>> /\ slot[s] = Idle
  BY DEF Ask
<1>6. given' \subseteq Docs /\ faults' \in 0..MaxFaults
  BY <1>2, <1>3, <1>5 DEF Ask, FileInv
<1>7. /\ kind \in Plans => q[1][1] \in {"check", "snapshot"}
      /\ kind = "purge" => q[1][1] = "erase"
      /\ kind = "restore" => Len(q) > 2 /\ q[Len(q) - 1][1] = "compact"
      /\ kind = "rewind" => \A i \in 1..Len(q) : q[i][1] \in Planning
  BY <1>1, <1>3, StagesBegin DEF Request
<1> HIDE DEF q
<1>8. /\ SlotShaped(y) /\ y.req = r /\ y.todo = q /\ y.wrote \in BOOLEAN /\ y.number \in Nat /\ y.copy = Nothing
  BY DEF SlotShaped, Fields, Idle
<1> HIDE DEF y
<1>9. Due(Texts, States, disk, y)
  <2>1. CASE kind \notin Plans \cup {"purge"}
    BY <1>1, <1>3, <1>4, <1>8, <2>1, OthersDue
  <2>2. CASE kind = "purge"
    <3>1. Name(y) = "erase"
      BY <1>7, <1>8, <2>2 DEF Name
    <3> QED BY <1>3, <1>8, <2>2, <3>1 DEF Due, Planned, Kept, Begun, Worked, Numbered, Plans, Texting, History
  <2>3. CASE kind \in Plans
    <3>1. Name(y) \in {"check", "snapshot"}
      BY <1>7, <1>8, <2>3 DEF Name
    <3>2. Begun(y)
      BY <1>3, <1>7, <1>8 DEF Begun
    <3>3. kind # "purge"
      BY <2>3 DEF Plans
    <3> QED BY <1>3, <1>8, <3>1, <3>2, <3>3 DEF Due, Planned, Kept, Worked, Numbered, History, Planning
  <2> QED BY <2>1, <2>2, <2>3
<1>10. SlotOK(Texts, States, disk, y)
  BY <1>3, <1>4, <1>8, <1>9 DEF SlotOK
<1>11. s # w => y.req.kind \in {"none", "changes"}
  BY <1>3, <1>8 DEF OneWriter
<1> QED BY <1>5, <1>6, <1>10, <1>11, IdleOK, Quiet

-----------------------------------------------------------------------------
(* Working out the new snapshot.                                           *)

\* A snapshot may change in what the request is about.
SnapFrom(kind, doc, old, snap) ==
    kind # "rewind" =>
      /\ snap.path[doc] \in Paths
      /\ \A d \in snap.live : \/ d \in old.live /\ snap.bodies[d] = old.bodies[d]
                              \/ kind \in Texting /\ d = doc

LEMMA PlannedDue ==
    ASSUME NEW Texts, NEW States, NEW x, SlotOK(Texts, States, disk, x),
           DiskOK(Texts, States, disk), disk["snapshot"] # Torn,
           x.req.kind \in Plans, x.todo # <<>>, Name(x) = "snapshot",
           NEW todo, Formed(x.req.kind, x.req.doc, todo), todo # <<>>, todo[1] = x.todo[1],
           x.req.kind = "rewind" => todo = x.todo,
           NEW y, y.req = x.req, y.todo = Tail(todo), y.old = disk["snapshot"],
           Snapshot(Texts, y.snap), SnapFrom(x.req.kind, x.req.doc, y.old, y.snap),
           x.req.kind = "create" => /\ y.result \in Result(Texts, States) /\ y.result.onto = NoState
                                    /\ y.result.state.text = y.snap.bodies[x.req.doc]
    PROVE  Due(Texts, States, disk, y)
<1> SUFFICES ASSUME y.todo # <<>> PROVE Due(Texts, States, disk, y)
  BY DEF Due
<1> DEFINE kind == x.req.kind
           doc == x.req.doc
<1>1. /\ Formed(kind, doc, y.todo) /\ y.todo[1] = todo[2] /\ Len(todo) > 1 /\ Leads(kind, todo[1], todo[2])
  BY TailFormed
<1>2. Len(todo) \in Nat /\ Len(y.todo) = Len(todo) - 1 /\ \A i \in 1..Len(y.todo) : y.todo[i] = todo[i + 1]
  BY TailParts DEF Formed
<1>3. \A i \in 1..Len(y.todo) : y.todo[i] = todo[i + 1] /\ i + 1 \in 1..Len(todo)
  BY <1>2
<1>4. Leads(kind, x.todo[1], y.todo[1]) /\ x.todo[1][1] = "snapshot"
  BY <1>1 DEF Name
<1>5. Begun(x)
  BY DEF SlotOK, Due
<1>6. kind = "rewind" => \A i \in 1..Len(y.todo) : y.todo[i][1] \in Planning
  <2> SUFFICES ASSUME kind = "rewind" PROVE \A i \in 1..Len(y.todo) : y.todo[i][1] \in Planning
    OBVIOUS
  <2>1. \A i \in 1..Len(todo) : todo[i][1] \in Planning
    BY <1>5 DEF Begun
  <2> QED BY <1>3, <2>1
<1>7. Planned(Texts, y)
  <2>1. Snapshot(Texts, y.old)
    BY DEF DiskOK, Shaped, Files
  <2>2. \A i \in 1..Len(y.todo) : y.todo[i][1] = "path" => y.snap.path[y.todo[i][2]] \in Paths
    <3> SUFFICES ASSUME NEW i \in 1..Len(y.todo), y.todo[i][1] = "path" PROVE y.snap.path[y.todo[i][2]] \in Paths
      OBVIOUS
    <3>1. kind # "rewind"
      BY <1>6 DEF Planning
    <3>2. y.todo[i][2] = doc
      BY <1>1, <3>1 DEF Formed
    <3> QED BY <3>1, <3>2 DEF SnapFrom
  <2> QED BY <2>1, <2>2 DEF Planned
<1>8. Kept(disk, y)
  BY DEF Kept, SnapFrom
<1>9. Begun(y)
  <2>1. Name(y) # "snapshot"
    BY <1>4 DEF Leads, Name
  <2> QED BY <1>6, <2>1 DEF Begun
<1>10. Worked(Texts, States, disk, y)
  <2>1. kind # "purge"
    BY DEF Plans
  <2>2. kind \in Texting => Name(y) \notin {"keep", "number", "event", "body"}
    BY <1>4 DEF Leads, Name
  <2>3. kind \in Texting /\ Name(y) = "canonical" => kind = "create"
    BY <1>4 DEF Leads, Name
  <2> QED BY <2>1, <2>2, <2>3 DEF Worked
<1>11. Numbered(disk, y)
  <2>1. Name(y) \notin {"event", "audit"} \cup History
    BY <1>4 DEF Leads, Name, History
  <2>2. kind # "purge"
    BY DEF Plans
  <2> QED BY <2>1, <2>2 DEF Numbered
<1> QED BY <1>7, <1>8, <1>9, <1>10, <1>11 DEF Due

LEMMA PlanKeeps ==
    ASSUME NEW Texts, NEW States, NEW w, OneWriter(w), FileInv(Texts, States, w), NEW s \in Slots,
           NEW kind \in Plans, NEW snap, NEW result, Plan(s, kind, snap, result),
           Snapshot(Texts, snap), SnapFrom(kind, slot[s].req.doc, disk.snapshot, snap),
           kind = "create" => /\ result \in Result(Texts, States) /\ result.onto = NoState
                              /\ result.state.text = snap.bodies[slot[s].req.doc]
    PROVE  FileInv(Texts, States, w)'
<1> DEFINE x == slot[s]
           c == [x EXCEPT !.old = disk.snapshot, !.snap = snap, !.result = result]
           y == Onward(c)
<1>1. x.todo # <<>> /\ Name(x) = "snapshot" /\ disk["snapshot"] # Torn /\ x.req.kind = kind
  BY OnlyWriterWrites DEF Plan, Reads, FileOf
<1>2. SlotOK(Texts, States, disk, x) /\ DiskOK(Texts, States, disk)
  BY SlotsAre DEF FileInv
<1>3. slot' = [slot EXCEPT ![s] = y] /\ UNCHANGED <<disk, given, faults, lost>>
  BY DEF Plan, Advance, Onward
<1>4. /\ SlotShaped(c) /\ c.req = x.req /\ c.todo = x.todo /\ c.wrote = x.wrote /\ c.old = disk["snapshot"]
      /\ c.snap = snap /\ c.result = result /\ c.number = x.number
  BY <1>2 DEF SlotOK, SlotShaped, Fields
<1> HIDE DEF c
<1>5. /\ SlotShaped(y) /\ y.req = x.req /\ y.todo = Tail(x.todo) /\ y.wrote = x.wrote /\ y.old = disk["snapshot"]
      /\ y.snap = snap /\ y.result = result /\ y.number = x.number /\ y.copy = Nothing
  BY <1>4, OnwardIs
<1> HIDE DEF y
<1>6. Formed(x.req.kind, x.req.doc, x.todo)
  BY <1>2 DEF SlotOK
<1>7. Due(Texts, States, disk, y)
  BY <1>1, <1>2, <1>5, <1>6, PlannedDue
<1>8. y.wrote \in BOOLEAN /\ y.number \in Nat
  BY <1>2, <1>5 DEF SlotOK
<1> QED BY <1>1, <1>3, <1>5, <1>7, <1>8, QuietStage

\* The snapshot a stage reads, and what it accepts of it.
LEMMA SnapshotRead ==
    ASSUME NEW Texts, NEW States, NEW w, OneWriter(w), FileInv(Texts, States, w), NEW s \in Slots,
           Reads(s, "snapshot"), Acceptable(s), slot[s].req.kind \in Plans \ {"rewind"}
    PROVE  /\ Snapshot(Texts, disk.snapshot) /\ slot[s].req.doc \in Docs /\ Request(Texts, slot[s].req)
           /\ slot[s].req.kind \in {"update", "delete", "move"} =>
                slot[s].req.doc \in disk.snapshot.live /\ disk.snapshot.path[slot[s].req.doc] \in Paths
<1>1. At(s, "snapshot") /\ disk["snapshot"] # Torn
  BY DEF Reads, FileOf
<1>2. Snapshot(Texts, disk.snapshot)
  BY <1>1 DEF FileInv, DiskOK, Shaped, Files
<1>3. SlotOK(Texts, States, disk, slot[s])
  BY SlotsAre
<1>4. slot[s].req.doc \in Docs /\ Request(Texts, slot[s].req)
  BY <1>3 DEF SlotOK, Request
<1>5. slot[s].req.kind \in {"update", "delete", "move"} => slot[s].req.doc \in disk.snapshot.live
  BY <1>1 DEF Acceptable
<1> QED BY <1>2, <1>4, <1>5 DEF Snapshot

LEMMA PlainIs ==
    ASSUME NEW Texts, NEW States, Closed(Texts, States), NEW text \in Texts
    PROVE  Plain(text) \in Result(Texts, States) /\ Plain(text).onto = NoState /\ Plain(text).state.text = text
  BY DEF Closed, Plain, Result, Checkpoint

LEMMA PlanCreateKeeps ==
    ASSUME NEW Texts, NEW States, Closed(Texts, States), NEW w, OneWriter(w), FileInv(Texts, States, w),
           NEW s \in Slots, PlanCreate(s)
    PROVE  FileInv(Texts, States, w)'
<1> DEFINE r == slot[s].req
           old == disk.snapshot
           snap == [disk.snapshot EXCEPT !.path[r.doc] = r.path, !.live = @ \cup {r.doc},
                                         !.bodies[r.doc] = r.edit.text]
<1>1. Plan(s, "create", snap, Plain(r.edit.text))
  BY DEF PlanCreate
<1>2. Reads(s, "snapshot") /\ Acceptable(s) /\ r.kind = "create"
  BY <1>1 DEF Plan
<1>3. Snapshot(Texts, old) /\ r.doc \in Docs /\ Request(Texts, r)
  BY <1>2, SnapshotRead DEF Plans
<1>4. r.path \in Paths /\ r.edit.text \in Texts
  BY <1>2, <1>3 DEF Request
<1>5. /\ DOMAIN snap = {"path", "live", "bodies"}
      /\ snap.path = [old.path EXCEPT ![r.doc] = r.path] /\ snap.live = old.live \cup {r.doc}
      /\ snap.bodies = [old.bodies EXCEPT ![r.doc] = r.edit.text]
  BY <1>3 DEF Snapshot
<1> HIDE DEF snap
<1>6. Snapshot(Texts, snap) /\ snap.bodies[r.doc] = r.edit.text
  BY <1>3, <1>4, <1>5 DEF Snapshot
<1>7. SnapFrom("create", r.doc, old, snap)
  BY <1>3, <1>4, <1>5 DEF SnapFrom, Snapshot, Texting
<1>8. /\ Plain(r.edit.text) \in Result(Texts, States) /\ Plain(r.edit.text).onto = NoState
      /\ Plain(r.edit.text).state.text = snap.bodies[r.doc]
  BY <1>4, <1>6, PlainIs
<1> QED BY <1>1, <1>6, <1>7, <1>8, PlanKeeps DEF Plans

LEMMA PlanDeleteKeeps ==
    ASSUME NEW Texts, NEW States, NEW w, OneWriter(w), FileInv(Texts, States, w),
           NEW s \in Slots, PlanDelete(s)
    PROVE  FileInv(Texts, States, w)'
<1> DEFINE d == slot[s].req.doc
           old == disk.snapshot
           snap == [disk.snapshot EXCEPT !.live = @ \ {d}, !.bodies[d] = NoBody]
<1>1. Plan(s, "delete", snap, Nothing)
  BY DEF PlanDelete
<1>2. Reads(s, "snapshot") /\ Acceptable(s) /\ slot[s].req.kind = "delete"
  BY <1>1 DEF Plan
<1>3. Snapshot(Texts, old) /\ d \in Docs /\ old.path[d] \in Paths
  BY <1>2, SnapshotRead DEF Plans
<1>4. /\ DOMAIN snap = {"path", "live", "bodies"} /\ snap.path = old.path /\ snap.live = old.live \ {d}
      /\ snap.bodies = [old.bodies EXCEPT ![d] = NoBody]
  BY <1>3 DEF Snapshot
<1> HIDE DEF snap
<1>5. Snapshot(Texts, snap)
  BY <1>3, <1>4 DEF Snapshot
<1>6. SnapFrom("delete", d, old, snap)
  BY <1>3, <1>4 DEF SnapFrom, Snapshot
<1> QED BY <1>1, <1>5, <1>6, PlanKeeps DEF Plans

LEMMA PlanMoveKeeps ==
    ASSUME NEW Texts, NEW States, NEW w, OneWriter(w), FileInv(Texts, States, w),
           NEW s \in Slots, PlanMove(s)
    PROVE  FileInv(Texts, States, w)'
<1> DEFINE r == slot[s].req
           old == disk.snapshot
           snap == [disk.snapshot EXCEPT !.path[r.doc] = r.path]
<1>1. Plan(s, "move", snap, Nothing)
  BY DEF PlanMove
<1>2. Reads(s, "snapshot") /\ Acceptable(s) /\ r.kind = "move"
  BY <1>1 DEF Plan
<1>3. Snapshot(Texts, old) /\ r.doc \in Docs /\ r.path \in Paths
  BY <1>2, SnapshotRead DEF Plans, Request
<1>4. /\ DOMAIN snap = {"path", "live", "bodies"} /\ snap.path = [old.path EXCEPT ![r.doc] = r.path]
      /\ snap.live = old.live /\ snap.bodies = old.bodies
  BY <1>3 DEF Snapshot
<1> HIDE DEF snap
<1>5. Snapshot(Texts, snap)
  BY <1>3, <1>4 DEF Snapshot
<1>6. SnapFrom("move", r.doc, old, snap)
  BY <1>3, <1>4 DEF SnapFrom, Snapshot
<1> QED BY <1>1, <1>5, <1>6, PlanKeeps DEF Plans

LEMMA PlanUpdateKeeps ==
    ASSUME NEW Texts, NEW States, NEW w, OneWriter(w), FileInv(Texts, States, w),
           NEW s \in Slots, PlanUpdate(s) \/ BeginRewind(s)
    PROVE  FileInv(Texts, States, w)'
<1> DEFINE kind == slot[s].req.kind
<1>1. kind \in {"update", "rewind"} /\ Plan(s, kind, disk.snapshot, Nothing)
  BY DEF PlanUpdate, BeginRewind, Plan
<1>2. Reads(s, "snapshot") /\ Acceptable(s) /\ disk["snapshot"] # Torn
  BY <1>1 DEF Plan, Reads, FileOf
<1>3. Snapshot(Texts, disk.snapshot)
  BY <1>2 DEF FileInv, DiskOK, Shaped, Files
<1>4. kind = "update" => disk.snapshot.path[slot[s].req.doc] \in Paths
  BY <1>2, SnapshotRead DEF Plans
<1>5. SnapFrom(kind, slot[s].req.doc, disk.snapshot, disk.snapshot)
  BY <1>1, <1>4 DEF SnapFrom
<1> QED BY <1>1, <1>3, <1>5, PlanKeeps DEF Plans

LEMMA PlanRestoreKeeps ==
    ASSUME NEW Texts, NEW States, NEW w, OneWriter(w), FileInv(Texts, States, w), NEW s \in Slots, PlanRestore(s)
    PROVE  FileInv(Texts, States, w)'
<1> DEFINE x == slot[s]
           r == slot[s].req
           old == disk.snapshot
           snap == [disk.snapshot EXCEPT !.path[r.doc] = r.path, !.live = @ \cup {r.doc}]
           todo == IF Placing(r, disk.snapshot) THEN x.todo ELSE Front(x.todo)
           c == [x EXCEPT !.old = disk.snapshot, !.snap = snap, !.todo = todo]
           y == Onward(c)
<1>1. /\ x.todo # <<>> /\ Name(x) = "snapshot" /\ disk["snapshot"] # Torn /\ r.kind = "restore"
      /\ Reads(s, "snapshot") /\ Acceptable(s)
  BY OnlyWriterWrites DEF PlanRestore, Reads, FileOf
<1>2. SlotOK(Texts, States, disk, x) /\ DiskOK(Texts, States, disk)
  BY SlotsAre DEF FileInv
<1>3. slot' = [slot EXCEPT ![s] = y] /\ UNCHANGED <<disk, given, faults, lost>>
  BY DEF PlanRestore, Advance, Onward
<1>4. Snapshot(Texts, old) /\ r.doc \in Docs /\ r.path \in Paths
  BY <1>1, SnapshotRead DEF Plans, Request
<1>5. /\ DOMAIN snap = {"path", "live", "bodies"} /\ snap.path = [old.path EXCEPT ![r.doc] = r.path]
      /\ snap.live = old.live \cup {r.doc} /\ snap.bodies = old.bodies
  BY <1>4 DEF Snapshot
<1> HIDE DEF snap
<1>6. Snapshot(Texts, snap)
  BY <1>4, <1>5 DEF Snapshot
<1>7. SnapFrom("restore", r.doc, old, snap)
  BY <1>4, <1>5 DEF SnapFrom, Snapshot, Texting
<1>8. /\ Formed("restore", r.doc, todo) /\ todo # <<>> /\ todo[1] = x.todo[1]
  <2>1. Formed("restore", r.doc, x.todo) /\ Len(x.todo) > 2 /\ x.todo[Len(x.todo) - 1][1] = "compact"
    BY <1>1, <1>2 DEF SlotOK, Due, Begun
  <2>2. CASE Placing(r, disk.snapshot)
    BY <1>1, <2>1, <2>2
  <2>3. CASE ~Placing(r, disk.snapshot)
    <3>1. Formed("restore", r.doc, Front(x.todo))
      <4>1. Len(x.todo) \in Nat /\ Len(x.todo) > 2
        BY <1>1, <1>2, <2>1, SlotParts
      <4> DEFINE n == Len(x.todo) - 1
      <4>2. n \in Nat /\ n = Len(x.todo) - 1 /\ n > 0
        BY <4>1
      <4> HIDE DEF n
      <4>3. x.todo[n][1] \notin (Planning \ {"keep"}) \cup {"entry", "policy"}
        BY <2>1, <4>2 DEF Planning
      <4> QED BY <2>1, <4>2, <4>3, FrontFormed
    <3>2. Len(x.todo) \in Nat /\ Len(x.todo) > 2
      BY <1>1, <1>2, <2>1, SlotParts
    <3>3. Len(Front(x.todo)) = Len(x.todo) - 1 /\ \A i \in 1..(Len(x.todo) - 1) : Front(x.todo)[i] = x.todo[i]
      BY <1>1, <1>2, FrontParts, SlotParts
    <3>4. Front(x.todo) # <<>> /\ 1 \in 1..(Len(x.todo) - 1)
      BY <3>2, <3>3, EmptySeq
    <3> QED BY <2>3, <3>1, <3>3, <3>4
  <2> QED BY <2>2, <2>3
<1> HIDE DEF todo
<1>9. /\ SlotShaped(c) /\ c.req = x.req /\ c.todo = todo /\ c.wrote = x.wrote /\ c.old = disk["snapshot"]
      /\ c.snap = snap /\ c.number = x.number
  BY <1>2 DEF SlotOK, SlotShaped, Fields
<1> HIDE DEF c
<1>10. /\ SlotShaped(y) /\ y.req = x.req /\ y.todo = Tail(todo) /\ y.wrote = x.wrote /\ y.old = disk["snapshot"]
       /\ y.snap = snap /\ y.number = x.number /\ y.copy = Nothing
  BY <1>9, OnwardIs
<1> HIDE DEF y
<1>11. Due(Texts, States, disk, y)
  BY <1>1, <1>2, <1>6, <1>7, <1>8, <1>10, PlannedDue DEF Plans
<1>12. Formed(y.req.kind, y.req.doc, y.todo)
  BY <1>1, <1>8, <1>10, TailFormed
<1>13. SlotOK(Texts, States, disk, y)
  BY <1>2, <1>10, <1>11, <1>12 DEF SlotOK
<1>14. given' \subseteq Docs /\ faults' \in 0..MaxFaults
  BY <1>3 DEF FileInv
<1>15. s # w => y.req.kind \in {"none", "changes"}
  BY <1>10, SlotsAre
<1> QED BY <1>1, <1>3, <1>13, <1>14, <1>15, Quiet

\* Working out the text changes the snapshot in that only.
LEMMA WorkedDue ==
    ASSUME NEW Texts, NEW States, NEW x, SlotOK(Texts, States, disk, x),
           x.todo # <<>>, Name(x) \in {"merge", "revision"},
           NEW y, y.req = x.req, y.todo = Tail(x.todo), y.old = x.old,
           Snapshot(Texts, y.snap), y.snap.path = x.snap.path, y.snap.live = x.snap.live,
           \A d \in Docs \ {x.req.doc} : y.snap.bodies[d] = x.snap.bodies[d],
           y.result \in Result(Texts, States), x.req.kind # "update" => y.result.onto = NoState,
           y.result.state.text = y.snap.bodies[x.req.doc]
    PROVE  Due(Texts, States, disk, y)
<1> SUFFICES ASSUME y.todo # <<>> PROVE Due(Texts, States, disk, y)
  BY DEF Due
<1> DEFINE kind == x.req.kind
<1>1. Formed(kind, x.req.doc, x.todo) /\ Due(Texts, States, disk, x)
  BY DEF SlotOK
<1>2. y.todo[1] = x.todo[2] /\ Len(x.todo) > 1 /\ Leads(kind, x.todo[1], y.todo[1])
  <2>1. /\ Tail(x.todo) # <<>>
        /\ Tail(x.todo) # <<>> => /\ Tail(x.todo)[1] = x.todo[2] /\ Len(x.todo) > 1
                                  /\ Leads(kind, x.todo[1], x.todo[2])
    BY <1>1, TailFormed
  <2> QED BY <2>1
<1>3. Len(x.todo) \in Nat /\ Len(y.todo) = Len(x.todo) - 1 /\ \A i \in 1..Len(y.todo) : y.todo[i] = x.todo[i + 1]
  BY <1>1, TailParts DEF Formed
<1>4. \A i \in 1..Len(y.todo) : y.todo[i] = x.todo[i + 1] /\ i + 1 \in 1..Len(x.todo)
  BY <1>3
<1>5. kind \in {"update", "restore"}
  <2>1. Name(x) \in NamesOf(kind) /\ kind \in Kinds
    BY SlotParts
  <2> QED BY <2>1 DEF NamesOf, Kinds, Recording, History, Purging
<1>6. Planned(Texts, y)
  <2>1. /\ Snapshot(Texts, x.old)
        /\ \A i \in 1..Len(x.todo) : x.todo[i][1] = "path" => x.snap.path[x.todo[i][2]] \in Paths
    BY <1>1, <1>5 DEF Due, Planned, Plans
  <2> QED BY <1>4, <2>1 DEF Planned
<1>7. Kept(disk, y)
  <2>1. /\ disk["snapshot"] # Torn /\ x.old = disk["snapshot"]
        /\ \A d \in x.snap.live : \/ d \in x.old.live /\ x.snap.bodies[d] = x.old.bodies[d]
                                  \/ d = x.req.doc
    BY <1>1, <1>5 DEF Due, Kept, Plans, Planning
  <2>2. y.snap.live \subseteq Docs
    BY DEF Snapshot
  <2> QED BY <1>5, <2>1, <2>2 DEF Kept, Texting
<1>8. Begun(y)
  <2>1. Name(y) # "snapshot"
    BY <1>2 DEF Leads, Name
  <2> QED BY <1>5, <2>1 DEF Begun
<1>9. Worked(Texts, States, disk, y)
  <2>1. Name(y) # "keep"
    BY <1>2, <1>5 DEF Leads, Name, Texting
  <2> QED BY <1>5, <2>1 DEF Worked
<1>10. Numbered(disk, y)
  <2>1. Name(y) \notin {"event", "audit"} \cup History
    BY <1>2 DEF Leads, Name, History
  <2> QED BY <1>5, <2>1 DEF Numbered
<1> QED BY <1>6, <1>7, <1>8, <1>9, <1>10 DEF Due

LEMMA ShownIs ==
    ASSUME NEW Texts, NEW States, Closed(Texts, States), NEW body \in Texts \cup {NoBody}
    PROVE  Shown(body) \in Texts /\ (body \in Texts => Shown(body) = body)
  BY DEF Shown, Closed

LEMMA ConvergedIs ==
    ASSUME NEW Texts, NEW States, Closed(Texts, States),
           NEW edit \in [actor : Actors, base : Bases, text : Edits], NEW state \in States
    PROVE  Converged(edit, state) \in Result(Texts, States)
<1> DEFINE candidate == ApplyUpdate(state, edit.actor, edit.base, edit.text)
<1>1. candidate \in States /\ edit.text \in Texts /\ state.text \in Texts
      /\ UniteTexts(edit.base, state.text, edit.text) \in Texts
  BY DEF Closed
<1>2. /\ Plain(edit.text) \in Result(Texts, States)
      /\ Plain(UniteTexts(edit.base, state.text, edit.text)) \in Result(Texts, States)
  BY <1>1, PlainIs
<1>3. [own |-> edit.text, state |-> candidate, onto |-> state] \in Result(Texts, States)
  BY <1>1 DEF Result
<1> QED BY <1>2, <1>3 DEF Converged

\* The text worked out goes into the snapshot.
LEMMA TextWorkedOut ==
    ASSUME NEW Texts, NEW States, Closed(Texts, States), NEW w, OneWriter(w), FileInv(Texts, States, w),
           NEW s \in Slots, slot[s].todo # <<>>, Name(slot[s]) \in {"merge", "revision"},
           NEW result \in Result(Texts, States), slot[s].req.kind # "update" => result.onto = NoState,
           NEW text, text = result.state.text,
           Advance(s, [slot[s] EXCEPT !.result = result, !.snap.bodies[slot[s].req.doc] = text]),
           UNCHANGED <<disk, given, faults, lost>>
    PROVE  FileInv(Texts, States, w)'
<1> DEFINE x == slot[s]
           d == x.req.doc
           c == [x EXCEPT !.result = result, !.snap.bodies[d] = text]
           y == Onward(c)
<1>1. SlotOK(Texts, States, disk, x) /\ x.req.kind \in {"update", "restore"}
  <2>1. SlotOK(Texts, States, disk, x)
    BY SlotsAre
  <2>2. Name(x) \in NamesOf(x.req.kind) /\ x.req.kind \in Kinds
    BY <2>1, SlotParts
  <2> QED BY <2>1, <2>2 DEF NamesOf, Kinds, Recording, History, Purging
<1>2. Snapshot(Texts, x.snap) /\ d \in Docs
  BY <1>1 DEF SlotOK, Due, Planned, Plans, Request
<1>3. slot' = [slot EXCEPT ![s] = y]
  BY DEF Advance, Onward
<1>4. text \in Texts
  BY DEF Result, Closed
<1>5. /\ SlotShaped(c) /\ c.req = x.req /\ c.todo = x.todo /\ c.wrote = x.wrote /\ c.old = x.old
      /\ c.snap = [x.snap EXCEPT !.bodies[d] = text] /\ c.result = result /\ c.number = x.number
  BY <1>1 DEF SlotOK, SlotShaped, Fields
<1>6. /\ DOMAIN c.snap = {"path", "live", "bodies"} /\ c.snap.path = x.snap.path /\ c.snap.live = x.snap.live
      /\ c.snap.bodies = [x.snap.bodies EXCEPT ![d] = text]
  <2> HIDE DEF c
  <2> QED BY <1>2, <1>5 DEF Snapshot
<1> HIDE DEF c
<1>7. /\ Snapshot(Texts, c.snap) /\ c.snap.bodies[d] = text
      /\ \A e \in Docs \ {d} : c.snap.bodies[e] = x.snap.bodies[e]
  BY <1>2, <1>4, <1>6 DEF Snapshot
<1>8. /\ SlotShaped(y) /\ y.req = x.req /\ y.todo = Tail(x.todo) /\ y.wrote = x.wrote /\ y.old = x.old
      /\ y.snap = c.snap /\ y.result = result /\ y.number = x.number /\ y.copy = Nothing
  BY <1>5, OnwardIs
<1> HIDE DEF y
<1>9. Due(Texts, States, disk, y)
  <2>1. /\ Snapshot(Texts, y.snap) /\ y.snap.path = x.snap.path /\ y.snap.live = x.snap.live
        /\ \A e \in Docs \ {d} : y.snap.bodies[e] = x.snap.bodies[e]
        /\ y.result \in Result(Texts, States) /\ (x.req.kind # "update" => y.result.onto = NoState)
        /\ y.result.state.text = y.snap.bodies[d]
    BY <1>6, <1>7, <1>8
  <2> QED BY <1>1, <1>8, <2>1, WorkedDue
<1>10. y.wrote \in BOOLEAN /\ y.number \in Nat
  BY <1>1, <1>8 DEF SlotOK
<1> QED BY <1>3, <1>8, <1>9, <1>10, QuietStage

LEMMA MergeKeeps ==
    ASSUME NEW Texts, NEW States, Closed(Texts, States), NEW w, OneWriter(w), FileInv(Texts, States, w),
           NEW s \in Slots, Merge(s)
    PROVE  FileInv(Texts, States, w)'
<1> DEFINE x == slot[s]
           r == x.req
           row == disk.canonical[r.doc]
           state == IF row # NoState THEN row ELSE Checkpoint(Shown(x.snap.bodies[r.doc]))
           result == Converged(r.edit, state)
<1>1. x.todo # <<>> /\ Name(x) = "merge" /\ disk["canonical"] # Torn
  BY OnlyWriterWrites DEF Merge, Reads, FileOf
<1>2. SlotOK(Texts, States, disk, x) /\ r.kind = "update"
  <2>1. SlotOK(Texts, States, disk, x)
    BY SlotsAre
  <2>2. Name(x) \in NamesOf(r.kind) /\ r.kind \in Kinds
    BY <1>1, <2>1, SlotParts
  <2> QED BY <1>1, <2>1, <2>2 DEF NamesOf, Kinds, Recording, History, Purging
<1>3. Snapshot(Texts, x.snap) /\ r.doc \in Docs /\ r.edit \in [actor : Actors, base : Bases, text : Edits]
  BY <1>1, <1>2 DEF SlotOK, Due, Planned, Plans, Request
<1>4. row \in States \cup {NoState}
  BY <1>1, <1>3 DEF FileInv, DiskOK, Shaped, Files
<1>5. Checkpoint(Shown(x.snap.bodies[r.doc])) \in States
  <2>1. x.snap.bodies[r.doc] \in Texts \cup {NoBody}
    BY <1>3 DEF Snapshot
  <2>2. Shown(x.snap.bodies[r.doc]) \in Texts
    BY <2>1, ShownIs
  <2> QED BY <2>2 DEF Closed
<1>6. state \in States
  BY <1>4, <1>5
<1> HIDE DEF state
<1>7. result \in Result(Texts, States)
  BY <1>3, <1>6, ConvergedIs
<1>8. /\ Advance(s, [x EXCEPT !.result = result, !.snap.bodies[r.doc] = result.state.text])
      /\ UNCHANGED <<disk, given, faults, lost>>
  BY DEF Merge, state
<1> HIDE DEF result
<1> QED BY <1>1, <1>2, <1>7, <1>8, TextWorkedOut

LEMMA LoadRevisionKeeps ==
    ASSUME NEW Texts, NEW States, Closed(Texts, States), NEW w, OneWriter(w), FileInv(Texts, States, w),
           NEW s \in Slots, LoadRevision(s)
    PROVE  FileInv(Texts, States, w)'
<1> DEFINE x == slot[s]
           r == x.req
           rows == disk.bodyRevs
           row == CHOOSE k \in ToSet(rows) : k.doc = r.doc /\ k.seq = r.target
           state == IF row.replayed.text = row.own THEN row.replayed ELSE Checkpoint(row.own)
           result == [own |-> row.own, state |-> state, onto |-> NoState]
<1>1. x.todo # <<>> /\ Name(x) = "revision" /\ disk["bodyRevs"] # Torn /\ At(s, "revision")
  BY OnlyWriterWrites DEF LoadRevision, Reads, FileOf
<1>2. rows \in Seq(BodyRow(Texts, States))
  BY <1>1 DEF FileInv, DiskOK, Shaped, Files
<1>3. row \in BodyRow(Texts, States)
  <2>1. PICK i \in DOMAIN rows : rows[i].doc = r.doc /\ rows[i].seq = r.target
    BY <1>1 DEF LoadRevision, Acceptable
  <2>2. rows[i] \in ToSet(rows)
    BY <2>1 DEF ToSet
  <2>3. row \in ToSet(rows)
    BY <2>1, <2>2
  <2> HIDE DEF row
  <2> QED BY <1>2, <2>3 DEF ToSet
<1> HIDE DEF row
<1>4. row.own \in Texts /\ row.replayed \in States /\ Checkpoint(row.own) \in States /\ Checkpoint(row.own).text = row.own
  BY <1>3 DEF BodyRow, Closed, Checkpoint
<1>5. state \in States /\ state.text = row.own
  BY <1>4
<1> HIDE DEF state
<1>6. result \in Result(Texts, States) /\ result.onto = NoState /\ result.state.text = row.own
  BY <1>4, <1>5 DEF Result
<1>7. Advance(s, [x EXCEPT !.result = result, !.snap.bodies[r.doc] = row.own])
  BY DEF LoadRevision, state, row
<1>8. UNCHANGED <<disk, given, faults, lost>>
  BY DEF LoadRevision
<1> HIDE DEF result
<1> QED BY <1>1, <1>6, <1>7, <1>8, TextWorkedOut

\* The number taken is the next one.
LEMMA TakeNumberKeeps ==
    ASSUME NEW Texts, NEW States, NEW w, OneWriter(w), FileInv(Texts, States, w), NEW s \in Slots, TakeNumber(s)
    PROVE  FileInv(Texts, States, w)'
<1> DEFINE x == slot[s]
           n == Number(disk.events) + 1
           c == [x EXCEPT !.number = n]
           y == Onward(c)
<1>1. x.todo # <<>> /\ Name(x) = "number" /\ disk["events"] # Torn
  BY OnlyWriterWrites DEF TakeNumber, Reads, FileOf
<1>2. SlotOK(Texts, States, disk, x)
  BY SlotsAre
<1>3. slot' = [slot EXCEPT ![s] = y] /\ UNCHANGED <<disk, given, faults, lost>>
  BY DEF TakeNumber, Advance, Onward
<1>4. n \in Nat
  <2>1. disk["events"] \in Seq(Event)
    BY <1>1 DEF FileInv, DiskOK, Shaped, Files
  <2>2. Number(disk["events"]) \in Nat
    BY <2>1, NumberIs
  <2> QED BY <2>2
<1>5. /\ SlotShaped(c) /\ c.req = x.req /\ c.todo = x.todo /\ c.wrote = x.wrote /\ c.old = x.old
      /\ c.snap = x.snap /\ c.result = x.result /\ c.number = n
  BY <1>2 DEF SlotOK, SlotShaped, Fields
<1> HIDE DEF c
<1>6. /\ SlotShaped(y) /\ y.req = x.req /\ y.todo = Tail(x.todo) /\ y.wrote = x.wrote /\ y.old = x.old
      /\ y.snap = x.snap /\ y.result = x.result /\ y.number = n /\ y.copy = Nothing
  BY <1>5, OnwardIs
<1> HIDE DEF y
<1>7. Due(Texts, States, disk, y)
  <2> SUFFICES ASSUME y.todo # <<>> PROVE Due(Texts, States, disk, y)
    BY DEF Due
  <2> DEFINE kind == x.req.kind
  <2>1. Formed(kind, x.req.doc, x.todo) /\ Due(Texts, States, disk, x)
    BY <1>2 DEF SlotOK
  <2>2. /\ y.todo[1] = x.todo[2] /\ Len(x.todo) > 1 /\ Leads(kind, x.todo[1], y.todo[1])
    <3>1. /\ Tail(x.todo) # <<>>
          /\ Tail(x.todo) # <<>> => /\ Tail(x.todo)[1] = x.todo[2] /\ Len(x.todo) > 1
                                    /\ Leads(kind, x.todo[1], x.todo[2])
      BY <1>1, <1>6, <2>1, TailFormed
    <3> QED BY <1>6, <3>1
  <2>3. /\ Len(x.todo) \in Nat /\ Len(y.todo) = Len(x.todo) - 1
        /\ \A i \in 1..(Len(x.todo) - 1) : y.todo[i] = x.todo[i + 1]
    BY <1>1, <1>6, <2>1, TailParts DEF Formed
  <2>4. \A i \in 1..Len(y.todo) : y.todo[i] = x.todo[i + 1] /\ i + 1 \in 1..Len(x.todo)
    BY <2>3
  <2>5. Name(y) \in {"number", "event", "audit"}
    <3>1. 1 \in 1..Len(x.todo) /\ 2 \in 1..Len(x.todo) /\ 1 < 2
      BY <2>2, <2>3
    <3>2. Name(y) \in Recording \cup {"audit"}
      BY <1>1, <2>1, <2>2, <3>1 DEF Formed, Name, Recording
    <3>3. Name(y) \notin History
      BY <1>1, <2>2 DEF Leads, Name, History
    <3> QED BY <3>2, <3>3 DEF Recording
  <2>6. Planned(Texts, y)
    <3> SUFFICES ASSUME kind \in Plans PROVE Planned(Texts, y)
      BY <1>6 DEF Planned
    <3>1. /\ Snapshot(Texts, x.old) /\ Snapshot(Texts, x.snap)
          /\ \A i \in 1..Len(x.todo) : x.todo[i][1] = "path" => x.snap.path[x.todo[i][2]] \in Paths
      BY <1>1, <2>1 DEF Due, Planned
    <3> QED BY <1>6, <2>4, <3>1 DEF Planned
  <2>7. Kept(disk, y) /\ Begun(y)
    BY <2>5 DEF Kept, Begun, Planning
  <2>8. Worked(Texts, States, disk, y)
    <3>1. kind = "purge" => x.result \in Seq(BodyRow(Texts, States))
      BY <1>1, <2>1 DEF Due, Worked
    <3>2. kind \in Texting => x.result \in Result(Texts, States) /\ (kind # "update" => x.result.onto = NoState)
      BY <1>1, <2>1 DEF Due, Worked
    <3> QED BY <1>6, <2>5, <3>1, <3>2 DEF Worked
  <2>9. Numbered(disk, y)
    <3>1. kind = "purge" => Covered(x.result, disk["events"])
      BY <1>1, <2>1 DEF Due, Numbered
    <3> QED BY <1>6, <2>5, <3>1 DEF Numbered, History
  <2> QED BY <2>6, <2>7, <2>8, <2>9 DEF Due
<1>8. y.wrote \in BOOLEAN /\ y.number \in Nat
  BY <1>2, <1>4, <1>6 DEF SlotOK
<1> QED BY <1>1, <1>3, <1>6, <1>7, <1>8, QuietStage

-----------------------------------------------------------------------------
(* Writing.                                                                *)

Written(files, f, content) == [files EXCEPT ![f] = content]

\* What a slot that held x holds when it has written a file.
Wrote(x) == Onward([x EXCEPT !.wrote = TRUE])

LEMMA WroteIs ==
    ASSUME NEW x, SlotShaped(x)
    PROVE  LET y == Wrote(x)
           IN  /\ SlotShaped(y) /\ y.req = x.req /\ y.todo = Tail(x.todo) /\ y.wrote = TRUE /\ y.old = x.old
               /\ y.snap = x.snap /\ y.result = x.result /\ y.number = x.number /\ y.copy = Nothing
<1> DEFINE c == [x EXCEPT !.wrote = TRUE]
           y == Onward(c)
<1>1. /\ SlotShaped(c) /\ c.req = x.req /\ c.todo = x.todo /\ c.wrote = TRUE /\ c.old = x.old
      /\ c.snap = x.snap /\ c.result = x.result /\ c.number = x.number
  BY DEF SlotShaped, Fields
<1> HIDE DEF c
<1>2. /\ SlotShaped(y) /\ y.req = c.req /\ y.todo = Tail(c.todo) /\ y.wrote = c.wrote /\ y.old = c.old
      /\ y.snap = c.snap /\ y.result = c.result /\ y.number = c.number /\ y.copy = Nothing
  BY <1>1, OnwardIs
<1> HIDE DEF y
<1>3. /\ SlotShaped(y) /\ y.req = x.req /\ y.todo = Tail(x.todo) /\ y.wrote = TRUE /\ y.old = x.old
      /\ y.snap = x.snap /\ y.result = x.result /\ y.number = x.number /\ y.copy = Nothing
  BY <1>1, <1>2
<1> QED BY <1>3 DEF y, c, Wrote

LEMMA WrittenIs ==
    ASSUME NEW Texts, NEW States, NEW files, DiskOK(Texts, States, files), NEW f \in Files, NEW content,
           content # Torn => Shaped(Texts, States, f, content)
    PROVE  LET after == Written(files, f, content)
           IN  /\ DiskOK(Texts, States, after)
               /\ after[f] = content /\ \A g \in Files \ {f} : after[g] = files[g]
<1> DEFINE after == Written(files, f, content)
<1>1. after = [g \in Files |-> IF g = f THEN content ELSE files[g]]
  BY DEF DiskOK, Written
<1> HIDE DEF after
<1>2. DiskOK(Texts, States, after)
  BY <1>1 DEF DiskOK
<1>3. after[f] = content /\ \A g \in Files \ {f} : after[g] = files[g]
  BY <1>1
<1> QED BY <1>2, <1>3 DEF after

\* Only the writer writes, so what it writes is what the file says.
LEMMA Puts ==
    ASSUME NEW Texts, NEW States, NEW w, OneWriter(w), FileInv(Texts, States, w), NEW s \in Slots,
           NEW name \in DOMAIN FileOf, NEW content, NEW c, Put(s, name, content, c),
           \/ Has(s, name) /\ name \in Copying \ {"history"}
           \/ At(s, name) /\ name \in {"keep", "rollback"}
    PROVE  /\ s = w /\ slot[s].todo # <<>> /\ Name(slot[s]) = name
           /\ SlotOK(Texts, States, disk, slot[s]) /\ FileOf[name] \in Files
           /\ Has(s, name) => disk[FileOf[name]] # Torn /\ slot[s].copy = disk[FileOf[name]]
           /\ disk' = Written(disk, FileOf[name], content) /\ slot' = [slot EXCEPT ![s] = Wrote(c)]
<1>1. Writing(s, FileOf[name])
  BY DEF Writing
<1>2. s = w
  BY <1>1, OnlyWriterWrites
<1>3. At(s, name)
  BY DEF Has
<1>4. slot[s].todo # <<>> /\ Name(slot[s]) = name
  BY <1>3, OnlyWriterWrites
<1>5. SlotOK(Texts, States, disk, slot[s])
  BY SlotsAre
<1>6. Has(s, name) => disk[FileOf[name]] # Torn /\ slot[s].copy = disk[FileOf[name]]
  BY <1>4, <1>5 DEF Has, SlotOK
<1>7. \A t \in Slots \ {s} : ~Writing(t, FileOf[name])
  BY <1>2, OnlyWriterWrites
<1>8. disk' = Written(disk, FileOf[name], content)
  BY <1>7 DEF Put, Written
<1>9. slot' = [slot EXCEPT ![s] = Wrote(c)]
  BY DEF Put, Advance, Wrote, Onward
<1>10. FileOf[name] \in Files
  BY DEF FileOf, Files
<1> QED BY <1>2, <1>4, <1>5, <1>6, <1>8, <1>9, <1>10

LEMMA RowsStay ==
    ASSUME NEW files, NEW gone, NEW x, RowsAgree(files, gone, x), x.todo # <<>> => Name(x) # "keep",
           NEW after, after["snapshot"] = files["snapshot"], after["canonical"] = files["canonical"],
           NEW gone2, \A d : <<"canonical", d>> \in gone => <<"canonical", d>> \in gone2, NEW y
    PROVE  RowsAgree(after, gone2, y)
<1>1. \A d : ~Between(x, d)
  BY DEF Between
<1> QED BY <1>1 DEF RowsAgree, Agreed

\* The writer's step, once what it leads to is known.
LEMMA WriteStage ==
    ASSUME NEW Texts, NEW States, NEW w, OneWriter(w), FileInv(Texts, States, w),
           NEW s \in Slots, s = w, slot[s].todo # <<>>,
           NEW y, slot' = [slot EXCEPT ![s] = y], SlotShaped(y), y.req = slot[s].req,
           y.todo = Tail(slot[s].todo), y.copy = Nothing, y.wrote \in BOOLEAN, y.number \in Nat,
           DiskOK(Texts, States, disk'), NumbersOK(disk'), RowsAgree(disk', lost', y),
           Due(Texts, States, disk', y), UNCHANGED <<given, faults>>
    PROVE  FileInv(Texts, States, w)'
<1>1. SlotOK(Texts, States, disk, slot[s])
  BY SlotsAre
<1>2. SlotOK(Texts, States, disk', y)
  BY <1>1, Advances
<1>3. SlotsOK(Texts, States, disk', slot') /\ OthersRead(w, slot') /\ slot'[s] = y
  <2>1. /\ SlotsOK(Texts, States, disk', Moved(slot, s, y)) /\ OthersRead(w, Moved(slot, s, y))
        /\ Moved(slot, s, y)[s] = y /\ (s # w => Moved(slot, s, y)[w] = slot[w])
    BY <1>2, Moves
  <2> QED BY <2>1 DEF Moved
<1>4. given' \subseteq Docs /\ faults' \in 0..MaxFaults
  BY DEF FileInv
<1> QED BY <1>3, <1>4 DEF FileInv

\* The files that neither number a change nor hold a text as it is now.
LEMMA BindKeeps ==
    ASSUME NEW Texts, NEW States, NEW w, OneWriter(w), FileInv(Texts, States, w), NEW s \in Slots,
           Bind(s) \/ SavePolicies(s)
    PROVE  FileInv(Texts, States, w)'
<1>1. PICK f, content :
         /\ f \in {"mounts", "policies"}
         /\ disk' = Written(disk, f, content) /\ Shaped(Texts, States, f, content)
         /\ s = w /\ slot' = [slot EXCEPT ![s] = Wrote(slot[s])]
         /\ slot[s].todo # <<>> /\ Name(slot[s]) \in {"bind", "policies"}
         /\ SlotOK(Texts, States, disk, slot[s]) /\ UNCHANGED <<given, faults, lost>>
  <2>1. CASE Bind(s)
    <3>1. Has(s, "bind") /\ Put(s, "bind", Mounts, slot[s]) /\ "bind" \in DOMAIN FileOf
          /\ FileOf["bind"] = "mounts" /\ "bind" \in Copying \ {"history"}
      BY <2>1 DEF Bind, FileOf, Copying
    <3>2. /\ s = w /\ slot[s].todo # <<>> /\ Name(slot[s]) = "bind" /\ SlotOK(Texts, States, disk, slot[s])
          /\ disk' = Written(disk, "mounts", Mounts) /\ slot' = [slot EXCEPT ![s] = Wrote(slot[s])]
      BY <3>1, Puts
    <3>3. Shaped(Texts, States, "mounts", Mounts)
      BY DEF Shaped
    <3> QED BY <2>1, <3>2, <3>3 DEF Bind
  <2>2. CASE SavePolicies(s)
    <3> DEFINE k == slot[s].req.target[1]
               policy == slot[s].req.target[2]
               rows == slot[s].copy
               new == [x \in (DOMAIN rows \ {k}) \cup (IF policy = Nothing THEN {} ELSE {k}) |->
                          IF x = k THEN policy ELSE rows[x]]
    <3>1. Has(s, "policies") /\ Put(s, "policies", new, slot[s]) /\ "policies" \in DOMAIN FileOf
          /\ FileOf["policies"] = "policies" /\ "policies" \in Copying \ {"history"}
      BY <2>2 DEF SavePolicies, FileOf, Copying
    <3>2. /\ s = w /\ slot[s].todo # <<>> /\ Name(slot[s]) = "policies" /\ SlotOK(Texts, States, disk, slot[s])
          /\ disk["policies"] # Torn /\ slot[s].copy = disk["policies"]
          /\ disk' = Written(disk, "policies", new) /\ slot' = [slot EXCEPT ![s] = Wrote(slot[s])]
      <4> HIDE DEF new
      <4> QED BY <3>1, Puts
    <3>3. slot[s].req.kind = "policy"
      <4>1. Name(slot[s]) \in NamesOf(slot[s].req.kind) /\ slot[s].req.kind \in Kinds
        BY <3>2, SlotParts
      <4> QED BY <3>2, <4>1 DEF NamesOf, Kinds, Recording, History, Purging
    <3>4. k \in Keys /\ DOMAIN rows \subseteq Keys
      <4>1. Shaped(Texts, States, "policies", disk["policies"])
        BY <3>2 DEF FileInv, DiskOK, Files
      <4> QED BY <3>2, <3>3, <4>1 DEF SlotOK, Request, Shaped
    <3>5. Shaped(Texts, States, "policies", new)
      BY <3>4 DEF Shaped
    <3> HIDE DEF new
    <3> QED BY <2>2, <3>2, <3>5 DEF SavePolicies
  <2> QED BY <2>1, <2>2
<1> DEFINE x == slot[s]
           y == Wrote(x)
<1>2. SlotShaped(x) /\ f \in Files /\ DiskOK(Texts, States, disk)
  BY <1>1 DEF SlotOK, Files, FileInv
<1>3. /\ SlotShaped(y) /\ y.req = x.req /\ y.todo = Tail(x.todo) /\ y.wrote = TRUE
      /\ y.number = x.number /\ y.copy = Nothing
  BY <1>2, WroteIs
<1>4. DiskOK(Texts, States, disk') /\ \A g \in Files \ {f} : disk'[g] = disk[g]
  BY <1>1, <1>2, WrittenIs
<1> HIDE DEF y
<1>5. NumbersOK(disk')
  <2>1. disk'["events"] = disk["events"] /\ disk'["paths"] = disk["paths"] /\ disk'["bodyRevs"] = disk["bodyRevs"]
    BY <1>1, <1>4 DEF Files
  <2> QED BY <2>1 DEF NumbersOK, FileInv
<1>6. RowsAgree(disk', lost', y)
  <2>1. disk'["snapshot"] = disk["snapshot"] /\ disk'["canonical"] = disk["canonical"] /\ lost' = lost
    BY <1>1, <1>4 DEF Files
  <2>2. RowsAgree(disk, lost, x) /\ Name(x) # "keep"
    BY <1>1 DEF FileInv
  <2> QED BY <2>1, <2>2, RowsStay
<1>7. Due(Texts, States, disk', y)
  <2>1. x.req.kind \in {"bootstrap", "policy"}
    <3>1. Name(x) \in NamesOf(x.req.kind) /\ x.req.kind \in Kinds
      BY <1>1, SlotParts
    <3> QED BY <1>1, <3>1 DEF NamesOf, Kinds, Recording, History, Purging
  <2>2. Formed(x.req.kind, x.req.doc, y.todo)
    BY <1>1, <1>3, TailFormed DEF SlotOK
  <2> QED BY <1>3, <2>1, <2>2, OthersDue DEF Plans, Kinds
<1>8. y.number \in Nat
  BY <1>1, <1>3 DEF SlotOK
<1>9. slot' = [slot EXCEPT ![s] = y]
  BY <1>1 DEF y
<1> QED BY <1>1, <1>3, <1>4, <1>5, <1>6, <1>7, <1>8, <1>9, WriteStage

\* The text's row goes before the snapshot that shows it: the two may differ
\* until the snapshot is kept.
LEMMA SaveCanonicalKeeps ==
    ASSUME NEW Texts, NEW States, Closed(Texts, States), NEW w, OneWriter(w), FileInv(Texts, States, w),
           NEW s \in Slots, SaveCanonical(s)
    PROVE  FileInv(Texts, States, w)'
<1> DEFINE x == slot[s]
           d == x.req.doc
           kind == x.req.kind
           content == Canonical(x.copy, d, x.result.state)
           y == Wrote(x)
<1>1. Has(s, "canonical") /\ "canonical" \in DOMAIN FileOf /\ FileOf["canonical"] = "canonical"
      /\ "canonical" \in Copying \ {"history"}
  BY DEF SaveCanonical, FileOf, Copying
<1>2. x.todo # <<>> /\ Name(x) = "canonical" /\ SlotOK(Texts, States, disk, x)
  BY <1>1, SlotsAre, OnlyWriterWrites DEF Has
<1>3. kind \in Texting /\ d \in Docs /\ Doc(s) = d
  <2>1. /\ Name(x) \in NamesOf(kind) /\ kind \in Kinds /\ Head(x.todo) = x.todo[1]
        /\ kind # "rewind" => x.todo[1][2] = d
    BY <1>2, SlotParts
  <2>2. kind \in Texting
    BY <1>2, <2>1 DEF NamesOf, Kinds, Texting, Recording, History, Purging
  <2> QED BY <1>2, <2>1, <2>2 DEF Texting, Doc, SlotOK, Request, Plans
<1>4. Put(s, "canonical", content, x)
  BY <1>3 DEF SaveCanonical
<1>5. /\ s = w /\ disk["canonical"] # Torn /\ x.copy = disk["canonical"]
      /\ disk' = Written(disk, "canonical", content) /\ slot' = [slot EXCEPT ![s] = y]
  <2> HIDE DEF content, y
  <2>1. /\ s = w /\ (Has(s, "canonical") => disk[FileOf["canonical"]] # Torn /\ x.copy = disk[FileOf["canonical"]])
        /\ disk' = Written(disk, FileOf["canonical"], content) /\ slot' = [slot EXCEPT ![s] = Wrote(x)]
    BY <1>1, <1>4, Puts
  <2> QED BY <1>1, <2>1 DEF y
<1>6. /\ Due(Texts, States, disk, x) /\ x.result \in Result(Texts, States)
      /\ kind # "update" => x.result.onto = NoState
      /\ x.result.state.text = x.snap.bodies[d]
  BY <1>2, <1>3 DEF SlotOK, Due, Worked
<1>7. disk["canonical"] \in [Docs -> States \cup {NoState}] /\ x.result.state \in States
  BY <1>5, <1>6 DEF FileInv, DiskOK, Shaped, Files, Result
<1>8. content = [disk["canonical"] EXCEPT ![d] = x.result.state]
  BY <1>5 DEF Canonical
<1> HIDE DEF content
<1>9. /\ Shaped(Texts, States, "canonical", content) /\ content[d] = x.result.state
      /\ \A e \in Docs \ {d} : content[e] = disk["canonical"][e]
  BY <1>3, <1>7, <1>8 DEF Shaped
<1>10. SlotShaped(x) /\ DiskOK(Texts, States, disk)
  BY <1>2 DEF SlotOK, FileInv
<1>11. /\ SlotShaped(y) /\ y.req = x.req /\ y.todo = Tail(x.todo) /\ y.wrote = TRUE /\ y.old = x.old
       /\ y.snap = x.snap /\ y.result = x.result /\ y.number = x.number /\ y.copy = Nothing
  BY <1>10, WroteIs
<1>12. /\ DiskOK(Texts, States, disk') /\ disk'["canonical"] = content
       /\ \A g \in Files \ {"canonical"} : disk'[g] = disk[g]
  BY <1>5, <1>9, <1>10, WrittenIs DEF Files
<1> HIDE DEF y
<1>13. disk'["snapshot"] = disk["snapshot"] /\ disk'["events"] = disk["events"]
  BY <1>12 DEF Files
<1>14. y.todo # <<>> /\ Name(y) = "keep"
  <2>1. Formed(kind, d, x.todo)
    BY <1>2 DEF SlotOK
  <2>2. Tail(x.todo) # <<>> => /\ Tail(x.todo)[1] = x.todo[2] /\ Len(x.todo) > 1
                               /\ Leads(kind, x.todo[1], x.todo[2])
    BY <1>2, <2>1, TailFormed
  <2>3. Tail(x.todo) # <<>>
    <3> SUFFICES ASSUME Tail(x.todo) = <<>> PROVE FALSE
      OBVIOUS
    <3>1. Len(x.todo) \in Nat /\ Len(x.todo) > 0 /\ Len(Tail(x.todo)) = Len(x.todo) - 1
      BY <1>2, <2>1, TailParts DEF Formed
    <3>2. Len(x.todo) = 1
      <4>1. Len(Tail(x.todo)) = 0
        BY EmptySeq
      <4> QED BY <3>1, <4>1
    <3>3. x.todo[Len(x.todo)][1] \notin Planning \ {"keep"}
      BY <1>2, <2>1 DEF Formed
    <3> QED BY <1>2, <3>2, <3>3 DEF Planning, Name
  <2>4. x.todo[2][1] = "keep"
    BY <1>2, <1>3, <2>2, <2>3 DEF Leads, Name
  <2> QED BY <1>11, <2>2, <2>3, <2>4 DEF Name
<1>15. NumbersOK(disk')
  <2>1. disk'["paths"] = disk["paths"] /\ disk'["bodyRevs"] = disk["bodyRevs"]
    BY <1>12 DEF Files
  <2> QED BY <1>13, <2>1 DEF NumbersOK, FileInv
<1>16. RowsAgree(disk', lost', y)
  <2> SUFFICES ASSUME disk["snapshot"] # Torn, NEW e \in disk["snapshot"].live
               PROVE  <<"canonical", e>> \in lost' \/ Between(y, e) \/ Agreed(disk', e)
    BY <1>13 DEF RowsAgree
  <2>1. CASE e = d
    BY <1>3, <1>11, <1>14, <2>1 DEF Between
  <2>2. CASE e # d
    <3>1. <<"canonical", e>> \in lost \/ Between(x, e) \/ Agreed(disk, e)
      BY <1>5 DEF FileInv, RowsAgree
    <3>2. ~Between(x, e)
      BY <1>2 DEF Between
    <3>3. CASE <<"canonical", e>> \in lost
      BY <1>3, <2>2, <3>3 DEF SaveCanonical
    <3>4. CASE Agreed(disk, e)
      <4>1. e \in Docs
        BY DEF FileInv, DiskOK, Shaped, Files, Snapshot
      <4>2. disk'["canonical"][e] = disk["canonical"][e]
        BY <1>9, <1>12, <2>2, <4>1
      <4> QED BY <1>13, <3>4, <4>2 DEF Agreed
    <3> QED BY <3>1, <3>2, <3>3, <3>4
  <2> QED BY <2>1, <2>2
<1>17. Due(Texts, States, disk', y)
  <2>1. Len(x.todo) \in Nat /\ Len(y.todo) = Len(x.todo) - 1 /\ \A i \in 1..(Len(x.todo) - 1) : y.todo[i] = x.todo[i + 1]
    BY <1>2, <1>11, TailParts DEF SlotOK, Formed
  <2>2. \A i \in 1..Len(y.todo) : y.todo[i] = x.todo[i + 1] /\ i + 1 \in 1..Len(x.todo)
    BY <2>1
  <2>3. kind \in Plans
    BY <1>3 DEF Texting, Plans
  <2>4. Planned(Texts, y)
    <3>1. /\ Snapshot(Texts, x.old) /\ Snapshot(Texts, x.snap)
          /\ \A i \in 1..Len(x.todo) : x.todo[i][1] = "path" => x.snap.path[x.todo[i][2]] \in Paths
      BY <1>2, <1>6, <2>3 DEF Due, Planned
    <3> QED BY <1>11, <2>2, <3>1 DEF Planned
  <2>5. Kept(disk', y)
    <3>1. Kept(disk, x) /\ Name(x) \in Planning \ {"check", "mount", "snapshot"}
      BY <1>2, <1>6 DEF Due, Planning
    <3> QED BY <1>11, <1>13, <2>3, <3>1 DEF Kept
  <2>6. Begun(y)
    BY <1>14 DEF Begun
  <2>7. Worked(Texts, States, disk', y)
    BY <1>3, <1>6, <1>9, <1>11, <1>12, <1>14 DEF Worked, Texting
  <2>8. Numbered(disk', y)
    BY <1>3, <1>11, <1>14 DEF Numbered, History, Texting
  <2> QED BY <2>4, <2>5, <2>6, <2>7, <2>8 DEF Due
<1>18. y.wrote \in BOOLEAN /\ y.number \in Nat /\ UNCHANGED <<given, faults>>
  BY <1>2, <1>11 DEF SlotOK, SaveCanonical
<1> QED BY <1>2, <1>5, <1>11, <1>12, <1>15, <1>16, <1>17, <1>18, WriteStage

LEMMA KeepSnapshotKeeps ==
    ASSUME NEW Texts, NEW States, Closed(Texts, States), NEW w, OneWriter(w), FileInv(Texts, States, w),
           NEW s \in Slots, KeepSnapshot(s)
    PROVE  FileInv(Texts, States, w)'
<1> DEFINE x == slot[s]
           old == x.old
           new == x.snap
           kind == x.req.kind
           y == Wrote(x)
<1>1. At(s, "keep") /\ "keep" \in DOMAIN FileOf /\ FileOf["keep"] = "snapshot" /\ Put(s, "keep", new, x)
  BY DEF KeepSnapshot, FileOf
<1>2. /\ s = w /\ x.todo # <<>> /\ Name(x) = "keep" /\ SlotOK(Texts, States, disk, x)
      /\ disk' = Written(disk, "snapshot", new) /\ slot' = [slot EXCEPT ![s] = y]
  <2> HIDE DEF y
  <2>1. /\ s = w /\ x.todo # <<>> /\ Name(x) = "keep" /\ SlotOK(Texts, States, disk, x)
        /\ disk' = Written(disk, FileOf["keep"], new) /\ slot' = [slot EXCEPT ![s] = Wrote(x)]
    BY <1>1, Puts
  <2> QED BY <1>1, <2>1 DEF y
<1>3. kind \in Plans
  <2>1. Name(x) \in NamesOf(kind) /\ kind \in Kinds
    BY <1>2, SlotParts
  <2> QED BY <1>2, <2>1 DEF NamesOf, Kinds, Plans, Purging
<1>4. /\ Due(Texts, States, disk, x) /\ Snapshot(Texts, new) /\ Snapshot(Texts, old)
      /\ disk["snapshot"] # Torn /\ old = disk["snapshot"]
      /\ kind # "rewind" => \A d \in new.live : \/ d \in old.live /\ new.bodies[d] = old.bodies[d]
                                                \/ kind \in Texting /\ d = x.req.doc
  BY <1>2, <1>3 DEF SlotOK, Due, Planned, Kept, Planning
<1>5. SlotShaped(x) /\ DiskOK(Texts, States, disk)
  BY <1>2 DEF SlotOK, FileInv
<1>6. /\ SlotShaped(y) /\ y.req = x.req /\ y.todo = Tail(x.todo) /\ y.wrote = TRUE /\ y.old = x.old
      /\ y.snap = x.snap /\ y.result = x.result /\ y.number = x.number /\ y.copy = Nothing
  BY <1>5, WroteIs
<1>7. /\ DiskOK(Texts, States, disk') /\ disk'["snapshot"] = new
      /\ \A g \in Files \ {"snapshot"} : disk'[g] = disk[g]
  <2>1. Shaped(Texts, States, "snapshot", new)
    BY <1>4 DEF Shaped
  <2> QED BY <1>2, <1>5, <2>1, WrittenIs DEF Files
<1> HIDE DEF y
<1>8. /\ disk'["canonical"] = disk["canonical"] /\ disk'["events"] = disk["events"]
      /\ disk'["paths"] = disk["paths"] /\ disk'["bodyRevs"] = disk["bodyRevs"]
  BY <1>7 DEF Files
<1>9. NumbersOK(disk')
  BY <1>8 DEF NumbersOK, FileInv
<1>10. RowsAgree(disk', lost', y)
  <2> SUFFICES ASSUME disk["canonical"] # Torn, NEW d \in new.live
               PROVE  <<"canonical", d>> \in lost' \/ Agreed(disk', d)
    BY <1>7, <1>8 DEF RowsAgree
  <2>1. CASE d \in old.live /\ Shown(old.bodies[d]) = Shown(new.bodies[d]) /\ ~(kind \in Texting /\ d = x.req.doc)
    <3>1. <<"canonical", d>> \in lost \/ Between(x, d) \/ Agreed(disk, d)
      BY <1>2, <1>4, <2>1 DEF FileInv, RowsAgree
    <3>2. ~Between(x, d)
      BY <2>1 DEF Between
    <3>3. CASE <<"canonical", d>> \in lost
      BY <3>3 DEF KeepSnapshot
    <3>4. CASE Agreed(disk, d)
      BY <1>4, <1>7, <1>8, <2>1, <3>4 DEF Agreed
    <3> QED BY <3>1, <3>2, <3>3, <3>4
  <2>2. CASE kind \in Texting /\ d = x.req.doc
    <3>1. /\ x.result \in Result(Texts, States) /\ x.result.state.text = new.bodies[d]
          /\ disk["canonical"][d] = x.result.state
      BY <1>2, <1>4, <2>2 DEF Due, Worked
    <3>2. x.result.state \in States /\ new.bodies[d] \in Texts
      BY <3>1 DEF Result, Closed
    <3>3. Shown(new.bodies[d]) = new.bodies[d] /\ x.result.state # NoState
      BY <3>2, ShownIs DEF Closed
    <3> QED BY <1>7, <1>8, <3>1, <3>3 DEF Agreed
  <2>3. CASE kind = "rewind" /\ ~(d \in old.live /\ Shown(old.bodies[d]) = Shown(new.bodies[d]))
    <3>1. <<"canonical", d>> \in LeftBehind(s)
      BY <2>3 DEF LeftBehind, BodyChanged
    <3> QED BY <3>1 DEF KeepSnapshot
  <2> QED BY <1>4, <2>1, <2>2, <2>3 DEF Texting
<1>11. Due(Texts, States, disk', y)
  BY <1>2, <1>6, <1>8, Inherits
<1>12. y.wrote \in BOOLEAN /\ y.number \in Nat /\ UNCHANGED <<given, faults>>
  BY <1>2, <1>6 DEF SlotOK, KeepSnapshot
<1> QED BY <1>2, <1>6, <1>7, <1>9, <1>10, <1>11, <1>12, WriteStage

\* The event appended is the newest and leaves the others where they are.
LEMMA EventAppended ==
    ASSUME NEW events \in Seq(Event), Rising(events), NEW e \in Event, e.seq = Number(events) + 1
    PROVE  /\ Append(events, e) \in Seq(Event) /\ Rising(Append(events, e)) /\ Row(Append(events, e), e.seq, e.doc)
           /\ \A n, d : Row(events, n, d) => Row(Append(events, e), n, d)
<1> DEFINE n == Len(events)
           after == Append(events, e)
<1>1. /\ n \in Nat /\ after \in Seq(Event) /\ Len(after) = n + 1 /\ after[n + 1] = e
      /\ DOMAIN after = 1..(n + 1) /\ DOMAIN events = 1..n /\ \A i \in 1..n : after[i] = events[i]
  BY LenProperties
<1>2. \A i \in 1..n : events[i].seq \in Nat /\ events[i].seq < e.seq
  <2> SUFFICES ASSUME NEW i \in 1..n PROVE events[i].seq \in Nat /\ events[i].seq < e.seq
    OBVIOUS
  <2>1. events[i] \in Event /\ events[n] \in Event /\ n \in 1..n /\ events # <<>>
    BY <1>1
  <2>2. events[i].seq \in Nat /\ events[n].seq \in Nat
    BY <2>1 DEF Event
  <2>3. Number(events) = events[n].seq
    BY <2>1, NumberIs
  <2>4. i < n => events[i].seq < events[n].seq
    BY <1>1, <2>1 DEF Rising
  <2>5. i = n \/ i < n
    <3> HIDE DEF n, after
    <3> QED BY <1>1
  <2> QED BY <2>2, <2>3, <2>4, <2>5
<1> HIDE DEF after, n
<1>3. Rising(after)
  <2> SUFFICES ASSUME NEW i \in 1..(n + 1), NEW j \in 1..(n + 1), i < j PROVE after[i].seq < after[j].seq
    BY <1>1 DEF Rising
  <2>1. i \in 1..n
    BY <1>1
  <2>2. CASE j = n + 1
    BY <1>1, <1>2, <2>1, <2>2
  <2>3. CASE j # n + 1
    <3>1. j \in 1..n
      BY <1>1, <2>3
    <3> QED BY <1>1, <2>1, <3>1 DEF Rising
  <2> QED BY <2>2, <2>3
<1>4. Row(after, e.seq, e.doc)
  BY <1>1 DEF Row
<1>5. \A k, d : Row(events, k, d) => Row(after, k, d)
  BY <1>1 DEF Row
<1> QED BY <1>1, <1>3, <1>4, <1>5 DEF after

LEMMA SaveEventKeeps ==
    ASSUME NEW Texts, NEW States, NEW w, OneWriter(w), FileInv(Texts, States, w),
           NEW s \in Slots, SaveEvent(s)
    PROVE  FileInv(Texts, States, w)'
<1> DEFINE x == slot[s]
           kind == x.req.kind
           d == x.todo[1][2]
           e == [seq |-> x.number, doc |-> d, kind |-> kind]
           after == Append(disk["events"], e)
           y == Wrote(x)
<1>1. PICK name \in {"event", "audit"} :
         /\ Has(s, name)
         /\ Put(s, name, Append(x.copy, [seq |-> x.number, doc |-> Doc(s), kind |-> kind]), x)
         /\ lost' = lost \ {<<name, Doc(s)>>} /\ UNCHANGED <<given, faults>>
  BY DEF SaveEvent
<1>2. name \in DOMAIN FileOf /\ FileOf[name] = "events" /\ name \in Copying \ {"history"}
  BY DEF FileOf, Copying
<1>3. /\ s = w /\ x.todo # <<>> /\ Name(x) = name /\ SlotOK(Texts, States, disk, x)
      /\ disk["events"] # Torn /\ slot' = [slot EXCEPT ![s] = y] /\ x.copy = disk["events"]
      /\ disk' = Written(disk, "events", Append(x.copy, [seq |-> x.number, doc |-> Doc(s), kind |-> kind]))
  <2> DEFINE content == Append(x.copy, [seq |-> x.number, doc |-> Doc(s), kind |-> kind])
  <2>1. Put(s, name, content, x)
    BY <1>1
  <2> HIDE DEF content, y
  <2>2. /\ s = w /\ x.todo # <<>> /\ Name(x) = name /\ SlotOK(Texts, States, disk, x)
        /\ (Has(s, name) => disk[FileOf[name]] # Torn /\ x.copy = disk[FileOf[name]])
        /\ disk' = Written(disk, FileOf[name], content) /\ slot' = [slot EXCEPT ![s] = Wrote(x)]
    BY <1>1, <1>2, <2>1, Puts
  <2> QED BY <1>1, <1>2, <2>2 DEF y, content
<1>4. Doc(s) = d /\ d \in Docs /\ kind \in Kinds /\ Name(x) \in NamesOf(kind)
  <2>1. /\ Head(x.todo) = x.todo[1] /\ Name(x) \in NamesOf(kind) /\ kind \in Kinds
        /\ Name(x) \in Recording \cup Purging => x.todo[1][2] \in Docs
    BY <1>3, SlotParts
  <2> QED BY <1>3, <2>1 DEF Doc, Recording, Purging
<1>5. disk' = Written(disk, "events", after)
  BY <1>3, <1>4
<1>6. /\ Due(Texts, States, disk, x) /\ x.number \in Nat /\ x.number = Number(disk["events"]) + 1
      /\ kind = "purge" => Covered(x.result, disk["events"])
  BY <1>3 DEF SlotOK, Due, Numbered
<1>7. e \in Event /\ e.seq = x.number /\ e.doc = d
  BY <1>4, <1>6 DEF Event
<1>8. disk["events"] \in Seq(Event) /\ Rising(disk["events"]) /\ DiskOK(Texts, States, disk)
  BY <1>3 DEF FileInv, DiskOK, Shaped, Files, NumbersOK
<1> HIDE DEF e
<1>9. /\ after \in Seq(Event) /\ Rising(after) /\ Row(after, x.number, d)
      /\ \A k, c : Row(disk["events"], k, c) => Row(after, k, c)
  BY <1>6, <1>7, <1>8, EventAppended
<1> HIDE DEF after
<1>10. \A rows : Covered(rows, disk["events"]) => Covered(rows, after)
  BY <1>9 DEF Covered
<1>11. SlotShaped(x)
  BY <1>3 DEF SlotOK
<1>12. /\ SlotShaped(y) /\ y.req = x.req /\ y.todo = Tail(x.todo) /\ y.wrote = TRUE /\ y.old = x.old
       /\ y.snap = x.snap /\ y.result = x.result /\ y.number = x.number /\ y.copy = Nothing
  BY <1>11, WroteIs
<1>13. /\ DiskOK(Texts, States, disk') /\ disk'["events"] = after
       /\ \A g \in Files \ {"events"} : disk'[g] = disk[g]
  <2>1. Shaped(Texts, States, "events", after)
    BY <1>9 DEF Shaped
  <2> QED BY <1>5, <1>8, <2>1, WrittenIs DEF Files
<1> HIDE DEF y
<1>14. NumbersOK(disk')
  <2>1. disk'["paths"] = disk["paths"] /\ disk'["bodyRevs"] = disk["bodyRevs"]
    BY <1>13 DEF Files
  <2>2. \A f \in {"paths", "bodyRevs"} : disk[f] # Torn => Covered(disk[f], disk["events"])
    BY <1>3 DEF FileInv, NumbersOK
  <2> QED BY <1>9, <1>10, <1>13, <2>1, <2>2 DEF NumbersOK
<1>15. RowsAgree(disk', lost', y)
  <2>1. disk'["snapshot"] = disk["snapshot"] /\ disk'["canonical"] = disk["canonical"]
    BY <1>13 DEF Files
  <2>2. RowsAgree(disk, lost, x) /\ Name(x) # "keep"
    BY <1>3 DEF FileInv
  <2>3. \A c : <<"canonical", c>> \in lost => <<"canonical", c>> \in lost'
    BY <1>1
  <2> QED BY <2>1, <2>2, <2>3, RowsStay
<1>16. Due(Texts, States, disk', y)
  <2> SUFFICES ASSUME y.todo # <<>> PROVE Due(Texts, States, disk', y)
    BY DEF Due
  <2>1. Formed(kind, x.req.doc, x.todo)
    BY <1>3 DEF SlotOK
  <2>2. /\ y.todo[1] = x.todo[2] /\ Len(x.todo) > 1 /\ Leads(kind, x.todo[1], y.todo[1])
    <3>1. Tail(x.todo) # <<>> => /\ Tail(x.todo)[1] = x.todo[2] /\ Len(x.todo) > 1
                                 /\ Leads(kind, x.todo[1], x.todo[2])
      BY <1>3, <2>1, TailFormed
    <3> QED BY <1>12, <3>1
  <2>3. /\ Len(x.todo) \in Nat /\ Len(y.todo) = Len(x.todo) - 1
        /\ \A i \in 1..(Len(x.todo) - 1) : y.todo[i] = x.todo[i + 1]
    BY <1>3, <1>12, <2>1, TailParts DEF Formed
  <2>4. \A i \in 1..Len(y.todo) : y.todo[i] = x.todo[i + 1] /\ i + 1 \in 1..Len(x.todo)
    BY <2>3
  <2>5. Name(y) \notin {"event", "audit"}
    BY <1>3, <2>2 DEF Leads, Name
  <2>6. Name(y) \in History => y.todo[1][2] = d
    BY <2>2 DEF Leads, Name
  <2>7. CASE kind = "purge"
    <3>1. Name(x) = "audit"
      BY <1>3, <1>4, <2>7 DEF NamesOf, Purging
    <3>2. x.result \in Seq(BodyRow(Texts, States))
      BY <1>3, <1>6, <2>7, <3>1 DEF Due, Worked
    <3>3. Covered(x.result, after)
      BY <1>6, <1>10, <2>7
    <3>4. Numbered(disk', y)
      BY <1>9, <1>12, <1>13, <2>5, <2>6, <3>3 DEF Numbered
    <3> QED BY <1>12, <2>7, <3>2, <3>4 DEF Due, Planned, Kept, Begun, Worked, Plans, Texting
  <2>8. CASE kind # "purge"
    <3>1. Name(x) = "event" /\ kind \in Plans
      BY <1>3, <1>4, <2>8 DEF NamesOf, Kinds, Recording, History, Plans, Purging
    <3>2. Name(y) \in Recording \cup {"audit"}
      <4>1. 1 \in 1..Len(x.todo) /\ 2 \in 1..Len(x.todo) /\ 1 < 2
        BY <2>2, <2>3
      <4> QED BY <2>1, <2>2, <3>1, <4>1 DEF Formed, Name, Recording
    <3>3. Planned(Texts, y)
      <4>1. /\ Snapshot(Texts, x.old) /\ Snapshot(Texts, x.snap)
            /\ \A i \in 1..Len(x.todo) : x.todo[i][1] = "path" => x.snap.path[x.todo[i][2]] \in Paths
        BY <1>3, <1>6, <3>1 DEF Due, Planned
      <4> QED BY <1>12, <2>4, <4>1 DEF Planned
    <3>4. Kept(disk', y) /\ Begun(y)
      BY <3>2 DEF Kept, Begun, Planning, Recording, History
    <3>5. Worked(Texts, States, disk', y)
      <4>1. kind \in Texting => Name(y) # "number" /\ Name(y) # "keep" /\ Name(y) # "canonical"
        BY <2>2, <3>1, <3>2 DEF Leads, Name, Recording, History
      <4>2. kind \in Texting => x.result \in Result(Texts, States) /\ (kind # "update" => x.result.onto = NoState)
        BY <1>3, <1>6, <3>1 DEF Due, Worked
      <4> QED BY <1>12, <2>8, <4>1, <4>2 DEF Worked
    <3>6. Numbered(disk', y)
      BY <1>9, <1>12, <1>13, <2>5, <2>6, <2>8 DEF Numbered
    <3> QED BY <3>3, <3>4, <3>5, <3>6 DEF Due
  <2> QED BY <2>7, <2>8
<1>17. y.wrote \in BOOLEAN /\ y.number \in Nat
  BY <1>6, <1>12
<1> QED BY <1>1, <1>3, <1>12, <1>13, <1>14, <1>15, <1>16, <1>17, WriteStage

-----------------------------------------------------------------------------
(* The rows of the history.                                                *)

LEMMA HistoryStage ==
    ASSUME NEW Texts, NEW States, NEW w, OneWriter(w), FileInv(Texts, States, w),
           NEW s \in Slots, s = w, slot[s].todo # <<>>, Name(slot[s]) \in {"body", "path", "compact"},
           NEW f \in {"paths", "bodyRevs"}, NEW content, Shaped(Texts, States, f, content),
           disk["events"] # Torn => Covered(content, disk["events"]),
           disk' = Written(disk, f, content), slot' = [slot EXCEPT ![s] = Wrote(slot[s])],
           \A d : <<"canonical", d>> \in lost => <<"canonical", d>> \in lost', UNCHANGED <<given, faults>>
    PROVE  FileInv(Texts, States, w)'
<1> DEFINE x == slot[s]
           y == Wrote(x)
<1>1. SlotOK(Texts, States, disk, x) /\ SlotShaped(x) /\ DiskOK(Texts, States, disk) /\ f \in Files
  BY SlotsAre DEF SlotOK, FileInv, Files
<1>2. /\ SlotShaped(y) /\ y.req = x.req /\ y.todo = Tail(x.todo) /\ y.wrote = TRUE /\ y.old = x.old
      /\ y.snap = x.snap /\ y.result = x.result /\ y.number = x.number /\ y.copy = Nothing
  BY <1>1, WroteIs
<1>3. /\ DiskOK(Texts, States, disk') /\ disk'[f] = content
      /\ \A g \in Files \ {f} : disk'[g] = disk[g]
  BY <1>1, WrittenIs
<1>4. slot' = [slot EXCEPT ![s] = y]
  OBVIOUS
<1> HIDE DEF y
<1>5. /\ disk'["snapshot"] = disk["snapshot"] /\ disk'["canonical"] = disk["canonical"]
      /\ disk'["events"] = disk["events"]
      /\ \A g \in {"paths", "bodyRevs"} : g # f => disk'[g] = disk[g]
  BY <1>3 DEF Files
<1>6. NumbersOK(disk')
  BY <1>3, <1>5 DEF NumbersOK, FileInv
<1>7. RowsAgree(disk', lost', y)
  <2>1. RowsAgree(disk, lost, x) /\ Name(x) # "keep"
    BY DEF FileInv
  <2> QED BY <1>5, <2>1, RowsStay
<1>8. Due(Texts, States, disk', y)
  <2>1. Name(x) \in History
    BY DEF History
  <2> QED BY <1>1, <1>2, <1>5, <2>1, Inherits
<1>9. y.wrote \in BOOLEAN /\ y.number \in Nat
  BY <1>1, <1>2 DEF SlotOK
<1> QED BY <1>2, <1>3, <1>4, <1>6, <1>7, <1>8, <1>9, WriteStage

\* Every row appended or kept has its event.
LEMMA RowAppended ==
    ASSUME NEW S, NEW rows \in Seq(S), NEW r \in S
    PROVE  /\ Append(rows, r) \in Seq(S)
           /\ \A events : Covered(rows, events) /\ Row(events, r.seq, r.doc) => Covered(Append(rows, r), events)
<1> DEFINE n == Len(rows)
           after == Append(rows, r)
<1>1. /\ n \in Nat /\ after \in Seq(S) /\ DOMAIN after = 1..(n + 1) /\ after[n + 1] = r
      /\ DOMAIN rows = 1..n /\ \A i \in 1..n : after[i] = rows[i]
  BY LenProperties
<1> HIDE DEF n, after
<1>2. \A i \in 1..(n + 1) : i \in 1..n \/ i = n + 1
  BY <1>1
<1>3. \A events : Covered(rows, events) /\ Row(events, r.seq, r.doc) => Covered(after, events)
  BY <1>1, <1>2 DEF Covered
<1> QED BY <1>1, <1>3 DEF after

LEMMA SavePathKeeps ==
    ASSUME NEW Texts, NEW States, NEW w, OneWriter(w), FileInv(Texts, States, w), NEW s \in Slots, SavePath(s)
    PROVE  FileInv(Texts, States, w)'
<1> DEFINE x == slot[s]
           d == Doc(s)
           row == [seq |-> x.number, doc |-> d, path |-> x.snap.path[d], live |-> d \in x.snap.live]
           content == Append(x.copy, row)
<1>1. /\ Has(s, "path") /\ Put(s, "path", content, x) /\ lost' = lost \ {<<"path", d>>}
      /\ UNCHANGED <<given, faults>> /\ "path" \in DOMAIN FileOf /\ FileOf["path"] = "paths"
      /\ "path" \in Copying \ {"history"}
  BY DEF SavePath, FileOf, Copying
<1> HIDE DEF content
<1>2. /\ s = w /\ x.todo # <<>> /\ Name(x) = "path" /\ SlotOK(Texts, States, disk, x)
      /\ disk["paths"] # Torn /\ x.copy = disk["paths"]
      /\ disk' = Written(disk, "paths", content) /\ slot' = [slot EXCEPT ![s] = Wrote(x)]
  BY <1>1, Puts
<1>3. /\ d = x.todo[1][2] /\ d \in Docs /\ x.req.kind \in Plans /\ 1 \in 1..Len(x.todo) /\ x.todo[1][1] = "path"
  <2>1. /\ Head(x.todo) = x.todo[1] /\ Name(x) \in NamesOf(x.req.kind) /\ x.req.kind \in Kinds
        /\ Len(x.todo) \in Nat /\ Len(x.todo) > 0
        /\ Name(x) \in Recording \cup Purging => x.todo[1][2] \in Docs
    BY <1>2, SlotParts
  <2> QED BY <1>2, <2>1 DEF Doc, Recording, History, NamesOf, Kinds, Plans, Purging, Name
<1>4. /\ x.number \in Nat /\ Snapshot(Texts, x.snap) /\ x.snap.path[d] \in Paths
      /\ disk["events"] # Torn => Row(disk["events"], x.number, d)
  BY <1>2, <1>3 DEF SlotOK, Due, Planned, Numbered, History
<1>5. row \in PathRow /\ row.seq = x.number /\ row.doc = d
  BY <1>3, <1>4 DEF PathRow
<1>6. disk["paths"] \in Seq(PathRow) /\ (disk["events"] # Torn => Covered(disk["paths"], disk["events"]))
  BY <1>2 DEF FileInv, DiskOK, Shaped, Files, NumbersOK
<1>7. content = Append(disk["paths"], row)
  BY <1>2 DEF content
<1> HIDE DEF row
<1>8. content \in Seq(PathRow) /\ (disk["events"] # Torn => Covered(content, disk["events"]))
  BY <1>4, <1>5, <1>6, <1>7, RowAppended
<1>9. Shaped(Texts, States, "paths", content)
  BY <1>8 DEF Shaped
<1>10. \A c : <<"canonical", c>> \in lost => <<"canonical", c>> \in lost'
  BY <1>1
<1> QED BY <1>1, <1>2, <1>8, <1>9, <1>10, HistoryStage

LEMMA HeldStateIs ==
    ASSUME NEW Texts, NEW States, NEW rows \in Seq(BodyRow(Texts, States)), NEW d
    PROVE  HeldState(rows, d) \in States \cup {NoState}
<1> DEFINE mine == {i \in DOMAIN rows : rows[i].doc = d}
<1>1. CASE mine = {}
  BY <1>1 DEF HeldState
<1>2. CASE mine # {}
  <2>1. Len(rows) \in Nat /\ mine \in SUBSET Nat /\ (\A i \in mine : i <= Len(rows)) /\ mine \subseteq DOMAIN rows
    BY LenProperties
  <2> HIDE DEF mine
  <2>2. \E m \in mine : \A i \in mine : i <= m
    BY <1>2, <2>1, GreatestExists
  <2>3. Max(mine) \in mine
    BY <2>1, <2>2 DEF Max
  <2>4. rows[Max(mine)] \in BodyRow(Texts, States)
    BY <2>1, <2>3, LenProperties
  <2>5. rows[Max(mine)].replayed \in States
    BY <2>4 DEF BodyRow
  <2> QED BY <1>2, <2>5 DEF HeldState, mine
<1> QED BY <1>1, <1>2

LEMMA SaveRevisionKeeps ==
    ASSUME NEW Texts, NEW States, Closed(Texts, States), NEW w, OneWriter(w), FileInv(Texts, States, w),
           NEW s \in Slots, SaveRevision(s)
    PROVE  FileInv(Texts, States, w)'
<1> DEFINE x == slot[s]
           d == Doc(s)
           kind == x.req.kind
           row == Revision(s, x.copy)
           content == Append(x.copy, row)
<1>1. /\ Has(s, "body") /\ Put(s, "body", content, x)
      /\ lost' \in {lost \cup {<<"body", d>>}, lost \ {<<"body", d>>}}
      /\ UNCHANGED <<given, faults>> /\ "body" \in DOMAIN FileOf /\ FileOf["body"] = "bodyRevs"
      /\ "body" \in Copying \ {"history"}
  BY DEF SaveRevision, FileOf, Copying
<1> HIDE DEF content
<1>2. /\ s = w /\ x.todo # <<>> /\ Name(x) = "body" /\ SlotOK(Texts, States, disk, x)
      /\ disk["bodyRevs"] # Torn /\ x.copy = disk["bodyRevs"]
      /\ disk' = Written(disk, "bodyRevs", content) /\ slot' = [slot EXCEPT ![s] = Wrote(x)]
  BY <1>1, Puts
<1>3. d = x.todo[1][2] /\ d \in Docs /\ kind \in Texting \cup {"rewind"}
  <2>1. /\ Head(x.todo) = x.todo[1] /\ Name(x) \in NamesOf(x.req.kind) /\ x.req.kind \in Kinds
        /\ Name(x) \in Recording \cup Purging => x.todo[1][2] \in Docs
    BY <1>2, SlotParts
  <2> QED BY <1>2, <2>1 DEF Doc, Recording, History, NamesOf, Kinds, Texting, Purging
<1>4. /\ x.number \in Nat /\ Snapshot(Texts, x.snap)
      /\ disk["events"] # Torn => Row(disk["events"], x.number, d)
      /\ kind \in Texting => x.result \in Result(Texts, States) /\ (kind # "update" => x.result.onto = NoState)
  BY <1>2, <1>3 DEF SlotOK, Due, Planned, Numbered, Worked, History, Plans, Texting
<1>5. disk["bodyRevs"] \in Seq(BodyRow(Texts, States))
      /\ (disk["events"] # Torn => Covered(disk["bodyRevs"], disk["events"]))
  BY <1>2 DEF FileInv, DiskOK, Shaped, Files, NumbersOK
<1>6. row \in BodyRow(Texts, States) /\ row.seq = x.number /\ row.doc = d
  <2>1. CASE kind = "rewind"
    <3> DEFINE text == Shown(x.snap.bodies[d])
    <3>1. x.snap.bodies[d] \in Texts \cup {NoBody}
      BY <1>3, <1>4 DEF Snapshot
    <3>2. text \in Texts
      BY <3>1, ShownIs
    <3>3. row = [seq |-> x.number, doc |-> d, erased |-> FALSE, own |-> text, replayed |-> Checkpoint(text)]
      BY <2>1 DEF Revision
    <3> HIDE DEF row, text
    <3>4. Checkpoint(text) \in States
      BY <3>2 DEF Closed
    <3> QED BY <1>3, <1>4, <3>2, <3>3, <3>4 DEF BodyRow
  <2>2. CASE kind \in Texting
    <3> DEFINE edit == x.req.edit
               held == HeldState(x.copy, d)
               state == ReplayedState(s, x.copy)
    <3>1. held \in States \cup {NoState}
      BY <1>2, <1>5, HeldStateIs
    <3>2. x.result.own \in Texts /\ Checkpoint(x.result.own) \in States
      BY <1>4, <2>2 DEF Result, Closed
    <3>3. CASE x.result.onto # NoState /\ held # NoState
      <4>1. edit \in [actor : Actors, base : Bases, text : Edits]
        BY <1>2, <1>4, <2>2, <3>3 DEF SlotOK, Request
      <4>2. ApplyUpdate(held, edit.actor, edit.base, edit.text) \in States
        BY <3>1, <3>3, <4>1 DEF Closed
      <4>3. state = ApplyUpdate(held, edit.actor, edit.base, edit.text)
        BY <3>3 DEF ReplayedState
      <4> HIDE DEF state, held
      <4>4. state \in States
        BY <4>2, <4>3
      <4>5. row = [seq |-> x.number, doc |-> d, erased |-> FALSE, own |-> x.result.own, replayed |-> state]
        BY <2>2 DEF Revision, Texting, state
      <4> HIDE DEF row
      <4> QED BY <1>3, <1>4, <3>2, <4>4, <4>5 DEF BodyRow
    <3>4. CASE ~(x.result.onto # NoState /\ held # NoState)
      <4>1. state = Checkpoint(x.result.own)
        BY <3>4 DEF ReplayedState
      <4>2. row = [seq |-> x.number, doc |-> d, erased |-> FALSE, own |-> x.result.own, replayed |-> state]
        BY <2>2 DEF Revision, Texting
      <4> HIDE DEF row, state, held
      <4> QED BY <1>3, <1>4, <3>2, <4>1, <4>2 DEF BodyRow
    <3> QED BY <3>3, <3>4
  <2> QED BY <1>3, <2>1, <2>2
<1>7. content = Append(disk["bodyRevs"], row)
  BY <1>2 DEF content
<1> HIDE DEF row
<1>8. content \in Seq(BodyRow(Texts, States)) /\ (disk["events"] # Torn => Covered(content, disk["events"]))
  BY <1>4, <1>5, <1>6, <1>7, RowAppended
<1>9. Shaped(Texts, States, "bodyRevs", content)
  BY <1>8 DEF Shaped
<1>10. \A c : <<"canonical", c>> \in lost => <<"canonical", c>> \in lost'
  BY <1>1
<1> QED BY <1>1, <1>2, <1>8, <1>9, <1>10, HistoryStage

\* Compaction leaves out rows and rewrites others where they are.
LEMMA CompactedIs ==
    ASSUME NEW Texts, NEW States, Closed(Texts, States), NEW rows \in Seq(BodyRow(Texts, States)), NEW d, NEW policy
    PROVE  /\ Compacted(rows, d, policy) \in Seq(BodyRow(Texts, States))
           /\ \A events : Covered(rows, events) => Covered(Compacted(rows, d, policy), events)
<1> DEFINE older == Cardinality({i \in DOMAIN rows : rows[i].doc = d}) - policy.revisions
           kept == {i \in DOMAIN rows : \/ rows[i].doc # d \/ Index(rows, i) >= older
                                         \/ Index(rows, i) % policy.frequency = 0}
           row(i) == IF rows[i].doc = d THEN AsCheckpoint(rows[i]) ELSE rows[i]
           n == Cardinality(kept)
           after == [k \in 1..n |-> row(NthOf(kept, k))]
<1>1. kept \subseteq DOMAIN rows /\ kept \subseteq Nat /\ IsFiniteSet(kept) /\ n \in Nat
  <2>1. DOMAIN rows = 1..Len(rows) /\ Len(rows) \in Nat /\ DOMAIN rows \subseteq Nat
    BY LenProperties
  <2>2. IsFiniteSet(DOMAIN rows)
    BY <2>1, FS_Interval
  <2>3. kept \subseteq DOMAIN rows
    OBVIOUS
  <2> HIDE DEF kept
  <2>4. IsFiniteSet(kept)
    BY <2>2, <2>3, FS_Subset
  <2> QED BY <2>1, <2>3, <2>4, FS_CardinalityType
<1>2. \A i \in DOMAIN rows : row(i) \in BodyRow(Texts, States) /\ row(i).seq = rows[i].seq /\ row(i).doc = rows[i].doc
  <2> TAKE i \in DOMAIN rows
  <2> DEFINE r == rows[i]
  <2>1. r \in BodyRow(Texts, States)
    BY LenProperties
  <2> HIDE DEF r
  <2>2. r.replayed.text \in Texts /\ Checkpoint(r.replayed.text) \in States
    BY <2>1 DEF BodyRow, Closed
  <2>3. AsCheckpoint(r) \in BodyRow(Texts, States) /\ AsCheckpoint(r).seq = r.seq /\ AsCheckpoint(r).doc = r.doc
    BY <2>1, <2>2 DEF BodyRow, AsCheckpoint
  <2> QED BY <2>1, <2>3 DEF r
<1>3. Compacted(rows, d, policy) = IF older <= 0 THEN rows ELSE after
  BY DEF Compacted
<1> HIDE DEF older, kept, row, n
<1>4. \A k \in 1..n : NthOf(kept, k) \in DOMAIN rows
  <2> TAKE k \in 1..n
  <2>1. PICK i \in kept : RankIn(kept, i) = k
    BY <1>1, RankReached DEF n
  <2> QED BY <1>1, <2>1 DEF NthOf, RankIn
<1>5. /\ after \in Seq(BodyRow(Texts, States)) /\ DOMAIN after = 1..n
      /\ \A k \in 1..n : after[k] = row(NthOf(kept, k))
  BY <1>1, <1>2, <1>4
<1> HIDE DEF after
<1>6. ASSUME NEW events, Covered(rows, events) PROVE Covered(after, events)
  <2> SUFFICES ASSUME NEW k \in 1..n PROVE Row(events, after[k].seq, after[k].doc)
    BY <1>5 DEF Covered
  <2> DEFINE i == NthOf(kept, k)
  <2>1. i \in DOMAIN rows /\ after[k].seq = rows[i].seq /\ after[k].doc = rows[i].doc
    BY <1>2, <1>4, <1>5
  <2> QED BY <1>6, <2>1 DEF Covered
<1> QED BY <1>3, <1>5, <1>6

LEMMA CompactKeeps ==
    ASSUME NEW Texts, NEW States, Closed(Texts, States), NEW w, OneWriter(w), FileInv(Texts, States, w),
           NEW s \in Slots, Compact(s)
    PROVE  FileInv(Texts, States, w)'
<1> DEFINE x == slot[s]
           content == Compacted(x.copy, Doc(s), x.result)
<1>1. Has(s, "compact") /\ "compact" \in DOMAIN FileOf /\ FileOf["compact"] = "bodyRevs"
      /\ "compact" \in Copying \ {"history"} /\ UNCHANGED <<given, faults, lost>>
  BY DEF Compact, FileOf, Copying
<1>2. x.todo # <<>> /\ Name(x) = "compact" /\ SlotOK(Texts, States, disk, x)
  BY <1>1, SlotsAre, OnlyWriterWrites DEF Has
<1>3. CASE content = x.copy
  <2> DEFINE y == Onward(x)
  <2>1. slot' = [slot EXCEPT ![s] = y] /\ UNCHANGED disk
    BY <1>3 DEF Compact, Advance, Onward
  <2>2. SlotShaped(x)
    BY <1>2 DEF SlotOK
  <2>3. /\ SlotShaped(y) /\ y.req = x.req /\ y.todo = Tail(x.todo) /\ y.wrote = x.wrote /\ y.old = x.old
        /\ y.snap = x.snap /\ y.result = x.result /\ y.number = x.number /\ y.copy = Nothing
    BY <2>2, OnwardIs
  <2> HIDE DEF y
  <2>4. Due(Texts, States, disk, y)
    <3>1. Name(x) \in History
      BY <1>2 DEF History
    <3> QED BY <1>2, <2>3, <3>1, Inherits
  <2>5. y.wrote \in BOOLEAN /\ y.number \in Nat
    BY <1>2, <2>3 DEF SlotOK
  <2> QED BY <1>1, <1>2, <2>1, <2>3, <2>4, <2>5, QuietStage
<1>4. CASE content # x.copy
  <2>1. Put(s, "compact", content, x)
    BY <1>4 DEF Compact
  <2> HIDE DEF content
  <2>2. /\ s = w /\ disk["bodyRevs"] # Torn /\ x.copy = disk["bodyRevs"]
        /\ disk' = Written(disk, "bodyRevs", content) /\ slot' = [slot EXCEPT ![s] = Wrote(x)]
    BY <1>1, <2>1, Puts
  <2>3. disk["bodyRevs"] \in Seq(BodyRow(Texts, States))
        /\ (disk["events"] # Torn => Covered(disk["bodyRevs"], disk["events"]))
    BY <2>2 DEF FileInv, DiskOK, Shaped, Files, NumbersOK
  <2>4. content = Compacted(disk["bodyRevs"], Doc(s), x.result)
    BY <2>2 DEF content
  <2>5. content \in Seq(BodyRow(Texts, States)) /\ (disk["events"] # Torn => Covered(content, disk["events"]))
    BY <2>3, <2>4, CompactedIs
  <2>6. Shaped(Texts, States, "bodyRevs", content)
    BY <2>5 DEF Shaped
  <2> QED BY <1>1, <1>2, <2>2, <2>5, <2>6, HistoryStage
<1> QED BY <1>3, <1>4

-----------------------------------------------------------------------------
(* Purging.                                                                *)

LEMMA PurgeStage ==
    ASSUME NEW Texts, NEW States, NEW w, OneWriter(w), FileInv(Texts, States, w),
           NEW s \in Slots, s = w, slot[s].todo # <<>>, Name(slot[s]) \in {"erase", "rollback"},
           NEW content \in Seq(BodyRow(Texts, States)), disk["events"] # Torn => Covered(content, disk["events"]),
           NEW c, SlotShaped(c), c.req = slot[s].req, c.todo = slot[s].todo, c.number = slot[s].number,
           c.result \in Seq(BodyRow(Texts, States)), disk["events"] # Torn => Covered(c.result, disk["events"]),
           disk' = Written(disk, "bodyRevs", content), slot' = [slot EXCEPT ![s] = Wrote(c)],
           UNCHANGED <<given, faults, lost>>
    PROVE  FileInv(Texts, States, w)'
<1> DEFINE x == slot[s]
           kind == x.req.kind
           y == Wrote(c)
<1>1. SlotOK(Texts, States, disk, x) /\ DiskOK(Texts, States, disk)
  BY SlotsAre DEF FileInv
<1>2. /\ SlotShaped(y) /\ y.req = x.req /\ y.todo = Tail(x.todo) /\ y.wrote = TRUE
      /\ y.result = c.result /\ y.number = x.number /\ y.copy = Nothing
  BY WroteIs
<1>3. /\ DiskOK(Texts, States, disk') /\ disk'["bodyRevs"] = content
      /\ \A g \in Files \ {"bodyRevs"} : disk'[g] = disk[g]
  <2>1. Shaped(Texts, States, "bodyRevs", content)
    BY DEF Shaped
  <2> QED BY <1>1, <2>1, WrittenIs DEF Files
<1>4. slot' = [slot EXCEPT ![s] = y]
  OBVIOUS
<1> HIDE DEF y
<1>5. /\ disk'["snapshot"] = disk["snapshot"] /\ disk'["canonical"] = disk["canonical"]
      /\ disk'["events"] = disk["events"] /\ disk'["paths"] = disk["paths"]
  BY <1>3 DEF Files
<1>6. NumbersOK(disk')
  BY <1>3, <1>5 DEF NumbersOK, FileInv
<1>7. RowsAgree(disk', lost', y)
  <2>1. RowsAgree(disk, lost, x) /\ Name(x) # "keep"
    BY DEF FileInv
  <2> QED BY <1>5, <2>1, RowsStay
<1>8. Due(Texts, States, disk', y)
  <2> SUFFICES ASSUME y.todo # <<>> PROVE Due(Texts, States, disk', y)
    BY DEF Due
  <2>1. kind = "purge"
    <3>1. Name(x) \in NamesOf(kind) /\ kind \in Kinds
      BY <1>1, SlotParts
    <3> QED BY <3>1 DEF NamesOf, Kinds, Recording, History, Purging
  <2>2. Formed(kind, x.req.doc, x.todo)
    BY <1>1 DEF SlotOK
  <2>3. Formed(kind, x.req.doc, y.todo) /\ Leads(kind, x.todo[1], y.todo[1])
    <3>1. /\ Formed(kind, x.req.doc, Tail(x.todo))
          /\ Tail(x.todo) # <<>> => Tail(x.todo)[1] = x.todo[2] /\ Leads(kind, x.todo[1], x.todo[2])
      BY <2>2, TailFormed
    <3> QED BY <1>2, <3>1
  <2>4. Name(y) \notin {"event", "audit"} \cup History
    BY <2>3 DEF Leads, Name, History
  <2>5. Numbered(disk', y)
    BY <1>2, <1>5, <2>4 DEF Numbered
  <2> QED BY <1>2, <2>1, <2>5 DEF Due, Planned, Kept, Begun, Worked, Plans, Texting
<1>9. y.wrote \in BOOLEAN /\ y.number \in Nat
  BY <1>1, <1>2 DEF SlotOK
<1> QED BY <1>2, <1>3, <1>4, <1>6, <1>7, <1>8, <1>9, WriteStage

LEMMA EraseKeeps ==
    ASSUME NEW Texts, NEW States, Closed(Texts, States), NEW w, OneWriter(w), FileInv(Texts, States, w),
           NEW s \in Slots, Erase(s)
    PROVE  FileInv(Texts, States, w)'
<1> DEFINE x == slot[s]
           d == x.req.doc
           rows == x.copy
           content == [i \in DOMAIN rows |-> IF rows[i].doc = d THEN Erased(rows[i]) ELSE rows[i]]
           c == [x EXCEPT !.result = rows]
<1>1. /\ Has(s, "erase") /\ Put(s, "erase", content, c) /\ UNCHANGED <<given, faults, lost>>
      /\ "erase" \in DOMAIN FileOf /\ FileOf["erase"] = "bodyRevs" /\ "erase" \in Copying \ {"history"}
  BY DEF Erase, FileOf, Copying
<1>2. SlotShaped(x)
  BY SlotsAre DEF SlotOK
<1>3. /\ SlotShaped(c) /\ c.req = x.req /\ c.todo = x.todo /\ c.number = x.number /\ c.result = rows
  BY <1>2 DEF SlotShaped, Fields
<1> HIDE DEF c, content
<1>4. /\ s = w /\ x.todo # <<>> /\ Name(x) = "erase" /\ disk["bodyRevs"] # Torn /\ rows = disk["bodyRevs"]
      /\ disk' = Written(disk, "bodyRevs", content) /\ slot' = [slot EXCEPT ![s] = Wrote(c)]
  BY <1>1, Puts
<1>5. rows \in Seq(BodyRow(Texts, States)) /\ (disk["events"] # Torn => Covered(rows, disk["events"]))
  BY <1>4 DEF FileInv, DiskOK, Shaped, Files, NumbersOK
<1>6. \A i \in DOMAIN rows : /\ Erased(rows[i]) \in BodyRow(Texts, States) /\ rows[i] \in BodyRow(Texts, States)
                             /\ Erased(rows[i]).seq = rows[i].seq /\ Erased(rows[i]).doc = rows[i].doc
  <2> TAKE i \in DOMAIN rows
  <2> DEFINE r == rows[i]
  <2>1. r \in BodyRow(Texts, States)
    BY <1>5, LenProperties
  <2> HIDE DEF r
  <2>2. Empty \in Texts /\ Checkpoint(Empty) \in States
    BY DEF Closed
  <2>3. Erased(r) \in BodyRow(Texts, States) /\ Erased(r).seq = r.seq /\ Erased(r).doc = r.doc
    BY <2>1, <2>2 DEF BodyRow, Erased
  <2> QED BY <2>1, <2>3 DEF r
<1>7. /\ content \in Seq(BodyRow(Texts, States)) /\ DOMAIN content = DOMAIN rows
      /\ \A i \in DOMAIN rows : content[i].seq = rows[i].seq /\ content[i].doc = rows[i].doc
  <2>1. DOMAIN rows = 1..Len(rows) /\ Len(rows) \in Nat
    BY <1>5, LenProperties
  <2> QED BY <1>6, <2>1 DEF content
<1>8. disk["events"] # Torn => Covered(content, disk["events"])
  BY <1>5, <1>7 DEF Covered
<1> QED BY <1>1, <1>3, <1>4, <1>5, <1>7, <1>8, PurgeStage

LEMMA RollBackKeeps ==
    ASSUME NEW Texts, NEW States, NEW w, OneWriter(w), FileInv(Texts, States, w), NEW s \in Slots, RollBack(s)
    PROVE  FileInv(Texts, States, w)'
<1> DEFINE x == slot[s]
<1>1. /\ At(s, "rollback") /\ Put(s, "rollback", x.result, x) /\ UNCHANGED <<given, faults, lost>>
      /\ "rollback" \in DOMAIN FileOf /\ FileOf["rollback"] = "bodyRevs"
  BY DEF RollBack, FileOf
<1>2. /\ s = w /\ x.todo # <<>> /\ Name(x) = "rollback" /\ SlotOK(Texts, States, disk, x)
      /\ disk' = Written(disk, "bodyRevs", x.result) /\ slot' = [slot EXCEPT ![s] = Wrote(x)]
  BY <1>1, Puts
<1>3. x.req.kind = "purge"
  <2>1. Name(x) \in NamesOf(x.req.kind) /\ x.req.kind \in Kinds
    BY <1>2, SlotParts
  <2> QED BY <1>2, <2>1 DEF NamesOf, Kinds, Recording, History
<1>4. /\ SlotShaped(x) /\ x.result \in Seq(BodyRow(Texts, States))
      /\ disk["events"] # Torn => Covered(x.result, disk["events"])
  BY <1>2, <1>3 DEF SlotOK, Due, Worked, Numbered
<1> QED BY <1>1, <1>2, <1>4, PurgeStage

-----------------------------------------------------------------------------
(* What goes wrong.                                                        *)

\* Files cut short say nothing wrong.
LEMMA CutShort ==
    ASSUME NEW Texts, NEW States, NEW files, DiskOK(Texts, States, files), NumbersOK(files),
           NEW after, after = [f \in Files |-> after[f]], \A f \in Files : after[f] \in {files[f], Torn}
    PROVE  /\ DiskOK(Texts, States, after) /\ NumbersOK(after)
           /\ \A gone, gone2, x, y :
                RowsAgree(files, gone, x) /\ gone \subseteq gone2
                /\ (\A d : Between(x, d) => <<"canonical", d>> \in gone2 \/ Between(y, d))
                => RowsAgree(after, gone2, y)
<1>1. \A f \in Files : after[f] # Torn => after[f] = files[f] /\ files[f] # Torn
  OBVIOUS
<1>2. DiskOK(Texts, States, after)
  BY <1>1 DEF DiskOK
<1>3. NumbersOK(after)
  BY <1>1 DEF NumbersOK, Files
<1>4. ASSUME NEW gone, NEW gone2, NEW x, NEW y, RowsAgree(files, gone, x), gone \subseteq gone2,
             \A d : Between(x, d) => <<"canonical", d>> \in gone2 \/ Between(y, d)
      PROVE  RowsAgree(after, gone2, y)
  <2> SUFFICES ASSUME after["snapshot"] # Torn, after["canonical"] # Torn, NEW d \in after["snapshot"].live
               PROVE  <<"canonical", d>> \in gone2 \/ Between(y, d) \/ Agreed(after, d)
    BY DEF RowsAgree
  <2>1. /\ files["snapshot"] # Torn /\ files["canonical"] # Torn
        /\ after["snapshot"] = files["snapshot"] /\ after["canonical"] = files["canonical"]
    BY <1>1 DEF Files
  <2>2. <<"canonical", d>> \in gone \/ Between(x, d) \/ Agreed(files, d)
    BY <1>4, <2>1 DEF RowsAgree
  <2> QED BY <1>4, <2>1, <2>2 DEF Agreed
<1> QED BY <1>2, <1>3, <1>4

\* A request cut off between its two writings of a text leaves the row behind.
LEMMA BetweenBroken ==
    ASSUME NEW Texts, NEW States, NEW w, FileInv(Texts, States, w), NEW s \in Slots, NEW d, Between(slot[s], d)
    PROVE  <<"canonical", d>> \in Broken(s)
<1> DEFINE x == slot[s]
<1>1. SlotOK(Texts, States, disk, x)
  BY SlotsAre
<1>2. x.wrote /\ x.req.doc = d /\ x.todo # <<>> /\ x.todo[1][1] = "keep"
  BY <1>1 DEF Between, SlotOK, Due, Worked, Name
<1>3. x.todo[1] \in ToSet(x.todo)
  <2>1. x.todo \in Seq(Stage) /\ 1 \in 1..Len(x.todo)
    BY <1>1, <1>2, SlotParts
  <2> QED BY <2>1 DEF ToSet
<1> QED BY <1>2, <1>3 DEF Broken

LEMMA BreakOffKeeps ==
    ASSUME NEW Texts, NEW States, NEW w, OneWriter(w), FileInv(Texts, States, w), NEW s \in Slots,
           slot[s].todo # <<>>, BreakOff(s),
           disk' = [f \in Files |-> disk'[f]], \A f \in Files : disk'[f] \in {disk[f], Torn},
           s # w => disk' = disk, given' = given, faults' \in 0..MaxFaults
    PROVE  FileInv(Texts, States, w)'
<1> DEFINE x == slot[s]
           undo == <<<<"rollback", Doc(s)>>>>
           c == [x EXCEPT !.todo = undo, !.copy = Nothing]
           y == IF At(s, "audit") THEN c ELSE Idle
<1>1. SlotOK(Texts, States, disk, x) /\ DiskOK(Texts, States, disk) /\ NumbersOK(disk)
      /\ RowsAgree(disk, lost, slot[w]) /\ (s # w => x.req.kind \in {"none", "changes"})
  BY SlotsAre DEF FileInv
<1>2. undo # <<>>
  <2>1. Len(undo) = 1 /\ Len(<<>>) = 0
    OBVIOUS
  <2> QED BY <2>1
<1>3. /\ slot' = [slot EXCEPT ![s] = y]
      /\ lost' = IF At(s, "audit") THEN lost ELSE lost \cup Broken(s)
  BY <1>2 DEF BreakOff, FailureStages
<1>4. At(s, "audit") => Name(x) = "audit" /\ s = w
  BY OnlyWriterWrites
<1>5. SlotOK(Texts, States, disk', y) /\ (s # w => y.req.kind \in {"none", "changes"})
      /\ (At(s, "audit") \/ y.todo = <<>>)
  <2>1. CASE ~At(s, "audit")
    BY <2>1, IdleOK
  <2>2. CASE At(s, "audit")
    <3>1. /\ Name(x) \in NamesOf(x.req.kind) /\ x.req.kind \in Kinds /\ Head(x.todo) = x.todo[1]
          /\ Name(x) \in Recording \cup Purging => x.todo[1][2] \in Docs
          /\ x.req.kind # "rewind" => x.todo[1][2] = x.req.doc
      BY <1>1, SlotParts
    <3>2. x.req.kind = "purge" /\ Doc(s) = x.req.doc /\ x.req.doc \in Docs /\ x.req.doc \in Nat
      BY <1>1, <1>4, <2>2, <3>1 DEF NamesOf, Kinds, Recording, History, Purging, Doc, SlotOK, Request
    <3>3. /\ undo \in Seq(Stage) /\ Len(undo) = 1 /\ undo[1] = <<"rollback", x.req.doc>>
      <4>1. <<"rollback", x.req.doc>> \in Stage
        BY <3>2 DEF Stage, FileOf
      <4> QED BY <3>2, <4>1
    <3> HIDE DEF undo
    <3>4. Formed("purge", x.req.doc, undo)
      BY <3>2, <3>3 DEF Formed, NamesOf, Purging, Recording, History, Planning, Leads
    <3>5. /\ SlotShaped(c) /\ c.req = x.req /\ c.todo = undo /\ c.wrote = x.wrote /\ c.result = x.result
          /\ c.number = x.number /\ c.copy = Nothing
      BY <1>1 DEF SlotOK, SlotShaped, Fields
    <3> HIDE DEF c
    <3>6. /\ x.result \in Seq(BodyRow(Texts, States))
          /\ disk["events"] # Torn => Covered(x.result, disk["events"])
      BY <1>1, <1>4, <2>2, <3>2 DEF SlotOK, Due, Worked, Numbered
    <3>7. disk'["events"] # Torn => disk'["events"] = disk["events"] /\ disk["events"] # Torn
      BY DEF Files
    <3>8. Name(c) = "rollback"
      BY <3>3, <3>5 DEF Name
    <3>9. Due(Texts, States, disk', c)
      <4>1. Planned(Texts, c) /\ Kept(disk', c) /\ Begun(c)
        BY <3>2, <3>5 DEF Planned, Kept, Begun, Plans
      <4>2. Worked(Texts, States, disk', c)
        BY <3>2, <3>5, <3>6 DEF Worked, Texting
      <4>3. Numbered(disk', c)
        BY <3>5, <3>6, <3>7, <3>8 DEF Numbered, History
      <4> QED BY <4>1, <4>2, <4>3 DEF Due
    <3>10. SlotOK(Texts, States, disk', c)
      BY <1>1, <3>2, <3>4, <3>5, <3>9 DEF SlotOK
    <3> QED BY <1>4, <2>2, <3>10
  <2> QED BY <2>1, <2>2
<1> HIDE DEF y
<1>6. /\ SlotsOK(Texts, States, disk', slot') /\ OthersRead(w, slot')
      /\ slot'[s] = y /\ (s # w => slot'[w] = slot[w])
  <2>1. /\ SlotsOK(Texts, States, disk', Moved(slot, s, y)) /\ OthersRead(w, Moved(slot, s, y))
        /\ Moved(slot, s, y)[s] = y /\ (s # w => Moved(slot, s, y)[w] = slot[w])
    BY <1>5, Moves
  <2> QED BY <1>3, <2>1 DEF Moved
<1>7. lost \subseteq lost'
  BY <1>3
<1>8. \A d : Between(slot[w], d) => <<"canonical", d>> \in lost' \/ Between(slot'[w], d)
  <2> SUFFICES ASSUME NEW d, Between(slot[w], d), s = w PROVE <<"canonical", d>> \in lost'
    BY <1>6
  <2>1. Name(x) = "keep"
    BY DEF Between
  <2>2. ~At(s, "audit")
    BY <1>4, <2>1
  <2>3. <<"canonical", d>> \in Broken(s)
    BY BetweenBroken
  <2> QED BY <1>3, <2>2, <2>3
<1>9. DiskOK(Texts, States, disk') /\ NumbersOK(disk')
  BY <1>1, CutShort
<1>10. RowsAgree(disk', lost', slot'[w])
  BY <1>1, <1>7, <1>8, CutShort
<1>11. given' \subseteq Docs /\ faults' \in 0..MaxFaults
  BY DEF FileInv
<1> QED BY <1>6, <1>9, <1>10, <1>11 DEF FileInv

LEMMA FailKeeps ==
    ASSUME NEW Texts, NEW States, NEW w, OneWriter(w), FileInv(Texts, States, w), NEW s \in Slots,
           Fail(s) \/ FailToWrite(s)
    PROVE  FileInv(Texts, States, w)'
<1>1. DiskOK(Texts, States, disk) /\ disk = [f \in Files |-> disk[f]] /\ faults \in 0..MaxFaults /\ MaxFaults \in Nat
  BY FilesAssumption DEF FileInv, DiskOK
<1>2. CASE Fail(s)
  <2>1. PICK f \in DOMAIN disk : ReadsNext(s, f)
    BY <1>2 DEF Fail
  <2>2. slot[s].todo # <<>>
    BY <2>1 DEF ReadsNext, Has, At
  <2>3. BreakOff(s) /\ UNCHANGED <<disk, given, faults>>
    BY <1>2 DEF Fail
  <2> QED BY <1>1, <2>2, <2>3, BreakOffKeeps
<1>3. CASE FailToWrite(s)
  <2>1. PICK f \in DOMAIN disk : Writing(s, f) /\ disk' \in {disk, [disk EXCEPT ![f] = Torn]}
    BY <1>3 DEF FailToWrite
  <2>2. slot[s].todo # <<>> /\ s = w
    <3>1. slot[s].todo # <<>>
      BY <2>1 DEF Writing, Has, At
    <3> QED BY <2>1, <3>1, OnlyWriterWrites
  <2>3. f \in Files
    BY <1>1, <2>1
  <2>4. disk' = [g \in Files |-> disk'[g]] /\ \A g \in Files : disk'[g] \in {disk[g], Torn}
    BY <1>1, <2>1, <2>3
  <2>5. BreakOff(s) /\ given' = given /\ faults' \in 0..MaxFaults
    BY <1>1, <1>3 DEF FailToWrite
  <2> QED BY <2>2, <2>4, <2>5, BreakOffKeeps
<1> QED BY <1>2, <1>3

LEMMA CrashKeeps ==
    ASSUME NEW Texts, NEW States, NEW w, OneWriter(w), FileInv(Texts, States, w), NEW torn, Crash(torn)
    PROVE  FileInv(Texts, States, w)'
<1>1. /\ DiskOK(Texts, States, disk) /\ NumbersOK(disk) /\ RowsAgree(disk, lost, slot[w])
      /\ disk = [f \in Files |-> disk[f]] /\ faults \in 0..MaxFaults /\ MaxFaults \in Nat /\ given \subseteq Docs
  BY FilesAssumption DEF FileInv, DiskOK
<1>2. disk' = [f \in DOMAIN disk |-> IF f \in torn THEN Torn ELSE disk[f]]
  BY DEF Crash
<1>3. disk' = [f \in Files |-> disk'[f]] /\ \A f \in Files : disk'[f] \in {disk[f], Torn}
  BY <1>1, <1>2
<1>4. slot' = [s \in Slots |-> Idle] /\ lost' = lost \cup UNION {Broken(s) : s \in Slots}
  BY DEF Crash
<1>5. SlotsOK(Texts, States, disk', slot') /\ OthersRead(w, slot')
  <2>1. SlotOK(Texts, States, disk', Idle) /\ Idle.req.kind = "none"
    BY IdleOK
  <2> QED BY <1>4, <2>1 DEF SlotsOK, OthersRead
<1>6. \A d : Between(slot[w], d) => <<"canonical", d>> \in lost'
  <2> SUFFICES ASSUME NEW d, Between(slot[w], d) PROVE <<"canonical", d>> \in lost'
    OBVIOUS
  <2>1. w \in Slots
    BY DEF OneWriter
  <2>2. <<"canonical", d>> \in Broken(w)
    BY <2>1, BetweenBroken
  <2> QED BY <1>4, <2>1, <2>2
<1>7. DiskOK(Texts, States, disk') /\ NumbersOK(disk')
  BY <1>1, <1>3, CutShort
<1>8. RowsAgree(disk', lost', slot'[w])
  BY <1>1, <1>3, <1>4, <1>6, CutShort
<1>9. given' \subseteq Docs /\ faults' \in 0..MaxFaults
  BY <1>1 DEF Crash
<1> QED BY <1>5, <1>7, <1>8, <1>9 DEF FileInv

-----------------------------------------------------------------------------
(* The changes of a rewind.                                                *)

Joined(seqs) ==
    LET flatten[i \in 1..Len(seqs)] == IF i = 1 THEN seqs[i] ELSE flatten[i - 1] \o seqs[i]
    IN  flatten

LEMMA FlattenUnfolds ==
    ASSUME NEW seqs
    PROVE  FlattenSeq(seqs) = IF Len(seqs) = 0 THEN seqs ELSE Joined(seqs)[Len(seqs)]
  BY DEF FlattenSeq, Joined

LEMMA JoinedUnfolds ==
    ASSUME NEW S, NEW R \in SUBSET Seq(S), <<>> \in R, \A a \in R, b \in R : a \o b \in R,
           NEW q \in Seq(R)
    PROVE  \A k \in 1..Len(q) : Joined(q)[k] = IF k = 1 THEN q[k] ELSE Joined(q)[k - 1] \o q[k]
<1> DEFINE n == Len(q)
           g == [p \in (1..n) \X R |-> p[2] \o q[p[1]]]
           Follows(h) == h = [i \in 1..n |-> IF i = 1 THEN q[i] ELSE h[i - 1] \o q[i]]
           h == Joined(q)
<1>1. n \in Nat /\ \A k \in 1..n : q[k] \in R
  BY LenProperties
<1>2. g \in [(1..n) \X R -> R] /\ \A k \in 1..n, a \in R : g[<<k, a>>] = a \o q[k]
  <2> HIDE DEF n
  <2> QED BY <1>1
<1>3. PICK f \in [0..n -> R] : Iterates(f, n, <<>>, g)
  <2>1. n <= n
    BY <1>1
  <2> HIDE DEF g, n
  <2> QED BY <1>1, <1>2, <2>1, IterationExists
<1>4. Follows([i \in 1..n |-> f[i]])
  <2> HIDE DEF g, n
  <2>1. \A k \in 0..n : f[k] = IF k = 0 THEN <<>> ELSE g[<<k, f[k - 1]>>]
    BY <1>3 DEF Iterates
  <2>2. \A k \in 1..n : k - 1 \in 0..n /\ k \in 0..n /\ k # 0 /\ (k # 1 => k - 1 \in 1..n)
    BY <1>1
  <2>3. \A k \in 1..n : f[k] = f[k - 1] \o q[k]
    BY <1>2, <1>3, <2>1, <2>2
  <2>4. 1 \in 1..n => f[1] = q[1]
    <3> SUFFICES ASSUME 1 \in 1..n PROVE f[1] = q[1]
      OBVIOUS
    <3>1. f[0] = <<>> /\ f[1] = f[0] \o q[1]
      <4>1. 0 \in 0..n
        BY <1>1
      <4>2. f[0] = <<>>
        BY <2>1, <4>1
      <4>3. 1 - 1 = 0
        OBVIOUS
      <4>4. f[1] = f[1 - 1] \o q[1]
        BY <2>3, Zenon
      <4> QED BY <4>2, <4>3, <4>4
    <3>2. q[1] \in Seq(S)
      BY <1>1
    <3>3. <<>> \o q[1] = q[1]
      BY <3>2
    <3> QED BY <3>1, <3>3
  <2>5. \A k \in 1..n : f[k] = IF k = 1 THEN q[k] ELSE f[k - 1] \o q[k]
    BY <2>3, <2>4
  <2> QED BY <2>2, <2>5
<1>5. Follows(h)
  BY <1>4, Zenon DEF Joined
<1>6. \A k \in 1..n : h[k] = IF k = 1 THEN q[k] ELSE h[k - 1] \o q[k]
  <2> HIDE DEF h, n
  <2> QED BY <1>5
<1> QED BY <1>6 DEF n, h

\* What joining does not lead out of it does not lead out of.
LEMMA FlattenStays ==
    ASSUME NEW S, NEW R \in SUBSET Seq(S), <<>> \in R, \A a \in R, b \in R : a \o b \in R,
           NEW q \in Seq(R)
    PROVE  FlattenSeq(q) \in R
<1> DEFINE n == Len(q)
           h == Joined(q)
<1>1. n \in Nat /\ \A k \in 1..n : q[k] \in R
  BY LenProperties
<1>2. \A k \in 1..n : h[k] = IF k = 1 THEN q[k] ELSE h[k - 1] \o q[k]
  BY JoinedUnfolds
<1> DEFINE T == {k \in Nat : k \in 1..n => h[k] \in R}
<1> HIDE DEF h, n
<1>3. 0 \in T
  OBVIOUS
<1>4. ASSUME NEW k \in Nat, k \in T PROVE k + 1 \in T
  <2> SUFFICES ASSUME k + 1 \in 1..n PROVE h[k + 1] \in R
    OBVIOUS
  <2>1. CASE k = 0
    <3>1. k + 1 = 1 /\ 1 \in 1..n
      BY <2>1
    <3>2. h[1] = q[1]
      BY <1>2, <3>1
    <3> QED BY <1>1, <3>1, <3>2
  <2>2. CASE k # 0
    <3>1. k \in 1..n /\ k + 1 # 1 /\ (k + 1) - 1 = k
      BY <1>1, <2>2
    <3>2. h[k + 1] = h[k] \o q[k + 1]
      BY <1>2, <3>1
    <3> QED BY <1>1, <1>4, <3>1, <3>2
  <2> QED BY <2>1, <2>2
<1>5. Nat \subseteq T
  <2> HIDE DEF T
  <2> QED BY <1>3, <1>4, Induction
<1>6. CASE n = 0
  <2>1. q = <<>>
    BY <1>6, EmptySeq DEF n
  <2> QED BY <1>6, <2>1, FlattenUnfolds DEF n
<1>7. CASE n # 0
  <2>1. n \in 1..n /\ n \in T
    BY <1>1, <1>5, <1>7
  <2>2. h[n] \in R
    BY <2>1
  <2> QED BY <1>7, <2>2, FlattenUnfolds DEF n, h
<1> QED BY <1>6, <1>7

\* The stages that record changes, of documents the snapshot has a place for.
Records(snap, q) ==
    /\ q \in Seq(Stage)
    /\ \A i \in 1..Len(q) : /\ q[i][1] \in Recording /\ q[i][2] \in Docs
                            /\ q[i][1] = "path" => snap.path[q[i][2]] \in Paths
    /\ \A i \in 1..(Len(q) - 1) : Leads("rewind", q[i], q[i + 1])
    /\ q # <<>> => q[1][1] = "number" /\ q[Len(q)][1] = "path"

LEMMA RecordsJoin ==
    ASSUME NEW snap, NEW a, Records(snap, a), NEW b, Records(snap, b)
    PROVE  Records(snap, a \o b)
<1> DEFINE q == a \o b
           m == Len(a)
           n == Len(b)
<1>1. a \in Seq(Stage) /\ b \in Seq(Stage) /\ m \in Nat /\ n \in Nat
  BY DEF Records
<1>2. /\ q \in Seq(Stage) /\ Len(q) = m + n
      /\ \A i \in 1..(m + n) : q[i] = IF i <= m THEN a[i] ELSE b[i - m]
  BY <1>1, ConcatProperties
<1> HIDE DEF q
<1>3. \A i \in 1..(m + n) : (i <= m => i \in 1..m) /\ (~(i <= m) => i - m \in 1..n)
  BY <1>1
<1>4. (a # <<>> <=> m > 0) /\ (b # <<>> <=> n > 0)
  BY <1>1, EmptySeq
<1> HIDE DEF m, n
<1>5. \A i \in 1..Len(q) : /\ q[i][1] \in Recording /\ q[i][2] \in Docs
                           /\ q[i][1] = "path" => snap.path[q[i][2]] \in Paths
  <2> TAKE i \in 1..Len(q)
  <2>1. CASE i <= m
    BY <1>2, <1>3, <2>1 DEF Records, m
  <2>2. CASE ~(i <= m)
    BY <1>2, <1>3, <2>2 DEF Records, n
  <2> QED BY <2>1, <2>2
<1>6. \A i \in 1..(Len(q) - 1) : Leads("rewind", q[i], q[i + 1])
  <2> TAKE i \in 1..(Len(q) - 1)
  <2>1. i \in 1..(m + n) /\ i + 1 \in 1..(m + n)
    BY <1>1, <1>2
  <2>2. CASE i + 1 <= m
    <3>1. q[i] = a[i] /\ q[i + 1] = a[i + 1] /\ i \in 1..(m - 1)
      BY <1>1, <1>2, <2>1, <2>2
    <3> QED BY <3>1 DEF Records, m
  <2>3. CASE i = m
    <3>1. q[i] = a[m] /\ q[i + 1] = b[1] /\ m > 0 /\ n > 0
      <4>1. (i + 1) - m = 1 /\ ~(i + 1 <= m) /\ i <= m
        BY <1>1, <2>3
      <4>2. m > 0 /\ n > 0
        BY <1>1, <2>1, <2>3
      <4> QED BY <1>2, <2>1, <2>3, <4>1, <4>2
    <3>2. q[i][1] = "path" /\ q[i + 1][1] = "number"
      BY <1>4, <3>1 DEF Records, m
    <3> QED BY <3>2 DEF Leads, History, Texting
  <2>4. CASE i > m
    <3> DEFINE j == i - m
    <3>1. j \in 1..(n - 1) /\ (i + 1) - m = j + 1 /\ ~(i <= m) /\ ~(i + 1 <= m)
      BY <1>1, <2>1, <2>4
    <3>2. q[i] = b[j] /\ q[i + 1] = b[j + 1]
      BY <1>2, <2>1, <3>1
    <3> HIDE DEF j
    <3> QED BY <3>1, <3>2 DEF Records, n
  <2>5. i + 1 <= m \/ i = m \/ i > m
    BY <1>1
  <2> QED BY <2>2, <2>3, <2>4, <2>5
<1>7. q # <<>> => q[1][1] = "number" /\ q[Len(q)][1] = "path"
  <2> SUFFICES ASSUME q # <<>> PROVE q[1][1] = "number" /\ q[Len(q)][1] = "path"
    OBVIOUS
  <2>1. m + n > 0
    BY <1>1, <1>2, EmptySeq
  <2>2. q[1][1] = "number"
    <3>1. CASE m > 0
      <4>1. q[1] = a[1]
        BY <1>1, <1>2, <3>1
      <4> QED BY <1>4, <3>1, <4>1 DEF Records
    <3>2. CASE m = 0
      <4>1. q[1] = b[1] /\ n > 0
        BY <1>1, <1>2, <2>1, <3>2
      <4> QED BY <1>4, <4>1 DEF Records
    <3> QED BY <1>1, <3>1, <3>2
  <2>3. q[m + n][1] = "path"
    <3>1. CASE n > 0
      <4>1. m + n \in 1..(m + n) /\ ~(m + n <= m) /\ (m + n) - m = n
        BY <1>1, <3>1
      <4>2. q[m + n] = b[n]
        BY <1>2, <4>1
      <4> QED BY <1>4, <3>1, <4>2 DEF Records, n
    <3>2. CASE n = 0
      <4>1. m + n = m /\ m \in 1..(m + n) /\ m > 0
        BY <1>1, <2>1, <3>2
      <4>2. q[m + n] = a[m]
        BY <1>2, <4>1
      <4> QED BY <1>4, <4>1, <4>2 DEF Records, m
    <3> QED BY <1>1, <3>1, <3>2
  <2> QED BY <1>2, <2>2, <2>3
<1>8. Records(snap, q)
  BY <1>2, <1>5, <1>6, <1>7 DEF Records
<1> QED BY <1>8 DEF q

LEMMA ChangeRecords ==
    ASSUME NEW old, NEW new, NEW d \in Docs, new.path[d] \in Paths
    PROVE  Records(new, StagesOfChange(old, new, d))
<1> DEFINE long == <<"number", "event", "body", "entry", "policy", "compact", "path">>
           short == <<"number", "event", "path">>
           names == IF d \in new.live /\ BodyChanged(old, new, d) THEN long ELSE short
           q == ForDoc(names, d)
           n == Len(names)
<1>1. d \in Nat
  BY FilesAssumption
<1>2. /\ n \in Nat \ {0} /\ DOMAIN names = 1..n /\ names[1] = "number" /\ names[n] = "path"
      /\ \A i \in 1..n : names[i] \in Recording \cap DOMAIN FileOf
      /\ \A i \in 1..(n - 1) : Leads("rewind", <<names[i], d>>, <<names[i + 1], d>>)
  <2>1. CASE names = long
    <3>1. n = 7 /\ DOMAIN names = 1..7 /\ names[1] = "number" /\ names[7] = "path"
      BY <2>1
    <3>2. \A i \in 1..7 : names[i] \in Recording \cap DOMAIN FileOf
      BY <2>1 DEF Recording, History, FileOf
    <3>3. \A i \in 1..6 : Leads("rewind", <<names[i], d>>, <<names[i + 1], d>>)
      BY <2>1 DEF Leads, Texting, History
    <3> HIDE DEF n, names
    <3> QED BY <3>1, <3>2, <3>3
  <2>2. CASE names = short
    <3>1. n = 3 /\ DOMAIN names = 1..3 /\ names[1] = "number" /\ names[3] = "path"
      BY <2>2
    <3>2. \A i \in 1..3 : names[i] \in Recording \cap DOMAIN FileOf
      BY <2>2 DEF Recording, History, FileOf
    <3>3. \A i \in 1..2 : Leads("rewind", <<names[i], d>>, <<names[i + 1], d>>)
      BY <2>2 DEF Leads, Texting, History
    <3> HIDE DEF n, names
    <3> QED BY <3>1, <3>2, <3>3
  <2> QED BY <2>1, <2>2
<1>3. StagesOfChange(old, new, d) = q
  BY DEF StagesOfChange
<1>4. q = [i \in 1..n |-> <<names[i], d>>]
  BY <1>2 DEF ForDoc
<1> HIDE DEF names, n, q
<1>5. \A i \in 1..n : <<names[i], d>> \in Stage
  BY <1>1, <1>2 DEF Stage
<1>6. q \in Seq(Stage) /\ Len(q) = n /\ \A i \in 1..n : q[i] = <<names[i], d>>
  BY <1>2, <1>4, <1>5
<1>7. \A i \in 1..(n - 1) : i \in 1..n /\ i + 1 \in 1..n
  BY <1>2
<1>8. \A i \in 1..(Len(q) - 1) : Leads("rewind", q[i], q[i + 1])
  BY <1>2, <1>6, <1>7
<1>9. q[1][1] = "number" /\ q[Len(q)][1] = "path"
  BY <1>2, <1>6
<1>10. \A i \in 1..Len(q) : /\ q[i][1] \in Recording /\ q[i][2] \in Docs
                            /\ q[i][1] = "path" => new.path[q[i][2]] \in Paths
  BY <1>2, <1>6
<1> QED BY <1>3, <1>6, <1>8, <1>9, <1>10 DEF Records

\* What the history says of a document is of the shape a snapshot has.
LEMMA RewoundIs ==
    ASSUME NEW Texts, NEW States, Closed(Texts, States), NEW old, Snapshot(Texts, old),
           NEW paths \in Seq(PathRow), NEW revs \in Seq(BodyRow(Texts, States)), NEW c
    PROVE  LET new == Rewound(old, paths, revs, c)
           IN  /\ Snapshot(Texts, new)
               /\ \A d \in Changed(old, new) : new.path[d] \in Paths
<1> DEFINE new == Rewound(old, paths, revs, c)
           there == There(paths, c)
<1>1. \A d : HistoryPath(paths, d, c) \subseteq Paths
  <2> SUFFICES ASSUME NEW d, NEW p \in HistoryPath(paths, d, c) PROVE p \in Paths
    OBVIOUS
  <2>1. PICK r \in PathAt(paths, d, c) : p = r.path
    BY DEF HistoryPath
  <2>2. PICK k \in DOMAIN paths : r = paths[k]
    BY <2>1 DEF PathAt, Upto
  <2>3. paths[k] \in PathRow
    BY LenProperties
  <2> QED BY <2>1, <2>2, <2>3 DEF PathRow
<1>2. \A d : HistoryText(revs, d, c) \in Texts \cup {NoBody}
  <2> SUFFICES ASSUME NEW d, BodyAt(revs, d, c) # {} PROVE HistoryText(revs, d, c) \in Texts
    BY DEF HistoryText
  <2> DEFINE row == CHOOSE r \in BodyAt(revs, d, c) : TRUE
  <2>1. row \in BodyAt(revs, d, c)
    OBVIOUS
  <2> HIDE DEF row
  <2>2. PICK k \in DOMAIN revs : row = revs[k]
    BY <2>1 DEF BodyAt, Upto
  <2>3. revs[k] \in BodyRow(Texts, States)
    BY LenProperties
  <2>4. row.replayed.text \in Texts
    BY <2>2, <2>3 DEF BodyRow, Closed
  <2> QED BY <2>4 DEF HistoryText, row
<1>3. there \subseteq Docs /\ \A d \in Docs : d \in there <=> HistoryPath(paths, d, c) # {}
  BY DEF There
<1>4. /\ DOMAIN new = {"path", "live", "bodies"} /\ new.live = there
      /\ new.path = [d \in Docs |-> IF HistoryPath(paths, d, c) = {} THEN old.path[d]
                                    ELSE CHOOSE p \in HistoryPath(paths, d, c) : TRUE]
      /\ new.bodies = [d \in Docs |-> IF d \in there THEN HistoryText(revs, d, c) ELSE NoBody]
  BY DEF Rewound, Placed
<1> HIDE DEF new, there
<1>5. \A d \in Docs : /\ d \in there => new.path[d] \in Paths
                      /\ d \notin there => new.path[d] = old.path[d]
  <2> TAKE d \in Docs
  <2>1. CASE d \in there
    <3> DEFINE p == CHOOSE p \in HistoryPath(paths, d, c) : TRUE
    <3>1. HistoryPath(paths, d, c) # {}
      BY <1>3, <2>1
    <3>2. p \in HistoryPath(paths, d, c)
      BY <3>1
    <3>3. new.path[d] = p
      BY <1>4, <3>1
    <3> HIDE DEF p
    <3> QED BY <1>1, <2>1, <3>2, <3>3
  <2>2. CASE d \notin there
    BY <1>3, <1>4, <2>2
  <2> QED BY <2>1, <2>2
<1>6. Snapshot(Texts, new)
  <2>1. new.path \in [Docs -> Paths \cup {NoPath}]
    <3>1. \A d \in Docs : new.path[d] \in Paths \cup {NoPath}
      BY <1>5 DEF Snapshot
    <3> QED BY <1>4, <3>1
  <2>2. new.bodies \in [Docs -> Texts \cup {NoBody}]
    BY <1>2, <1>4
  <2> QED BY <1>3, <1>4, <1>5, <2>1, <2>2 DEF Snapshot
<1>7. \A d \in Changed(old, new) : new.path[d] \in Paths
  <2> SUFFICES ASSUME NEW d \in Changed(old, new) PROVE new.path[d] \in Paths
    OBVIOUS
  <2>1. d \in Docs /\ (d \in old.live \/ d \in there)
    BY <1>4 DEF Changed
  <2> QED BY <1>5, <2>1 DEF Snapshot
<1> QED BY <1>6, <1>7 DEF new

\* The changes follow what the rewind began with.
LEMMA RewindFormed ==
    ASSUME NEW doc, NEW todo, Formed("rewind", doc, todo), todo # <<>>,
           \A i \in 1..Len(todo) : todo[i][1] \in Planning,
           NEW snap, NEW q, Records(snap, q)
    PROVE  /\ Formed("rewind", doc, todo \o q) /\ (todo \o q)[1] = todo[1] /\ todo \o q # <<>>
           /\ \A i \in 1..Len(todo \o q) :
                (todo \o q)[i][1] = "path" => snap.path[(todo \o q)[i][2]] \in Paths
<1> DEFINE a == todo \o q
           m == Len(todo)
           n == Len(q)
<1>1. todo \in Seq(Stage) /\ q \in Seq(Stage) /\ m \in Nat /\ n \in Nat
  BY DEF Records, Formed
<1>2. m > 0
  BY <1>1, EmptySeq
<1>3. /\ a \in Seq(Stage) /\ Len(a) = m + n
      /\ \A i \in 1..(m + n) : a[i] = IF i <= m THEN todo[i] ELSE q[i - m]
  BY <1>1, ConcatProperties
<1> HIDE DEF a
<1>4. \A i \in 1..(m + n) : (i <= m => i \in 1..m) /\ (~(i <= m) => i - m \in 1..n)
  BY <1>1
<1>5. q # <<>> <=> n > 0
  BY <1>1, EmptySeq
<1> HIDE DEF m, n
<1>6. \A i \in 1..Len(a) : /\ i <= m => a[i] = todo[i] /\ i \in 1..m /\ a[i][1] \in Planning
                           /\ ~(i <= m) => /\ a[i] = q[i - m] /\ i - m \in 1..n
                                           /\ a[i][1] \in Recording /\ a[i][2] \in Docs
                                           /\ a[i][1] = "path" => snap.path[a[i][2]] \in Paths
  BY <1>3, <1>4 DEF Records, m, n
<1>7. \A i \in 1..Len(a) :
          /\ a[i][1] \in NamesOf("rewind")
          /\ a[i][1] \in Recording \cup Purging => a[i][2] \in Docs
          /\ a[i][1] = "path" => snap.path[a[i][2]] \in Paths
  <2> TAKE i \in 1..Len(a)
  <2>1. CASE i <= m
    <3>1. a[i][1] \in NamesOf("rewind") /\ (a[i][1] \in Recording \cup Purging => a[i][2] \in Docs)
      BY <1>6, <2>1 DEF Formed, m
    <3>2. a[i][1] # "path"
      BY <1>6, <2>1 DEF Planning
    <3> QED BY <3>1, <3>2
  <2>2. CASE ~(i <= m)
    BY <1>6, <2>2 DEF NamesOf
  <2> QED BY <2>1, <2>2
<1>8. todo[m][1] = "keep"
  <2>1. m \in 1..m
    BY <1>1, <1>2
  <2>2. todo[m][1] \notin Planning \ {"keep"} /\ todo[m][1] \in Planning
    BY <2>1 DEF Formed, m
  <2> QED BY <2>2
<1>9. \A i \in 1..(Len(a) - 1) : Leads("rewind", a[i], a[i + 1])
  <2> TAKE i \in 1..(Len(a) - 1)
  <2>1. i \in 1..(m + n) /\ i + 1 \in 1..(m + n)
    BY <1>1, <1>3
  <2>2. CASE i + 1 <= m
    <3>1. a[i] = todo[i] /\ a[i + 1] = todo[i + 1] /\ i \in 1..(m - 1)
      BY <1>1, <1>3, <2>1, <2>2
    <3> QED BY <3>1 DEF Formed, m
  <2>3. CASE i = m
    <3>1. a[i] = todo[m] /\ a[i + 1] = q[1] /\ n > 0
      <4>1. (i + 1) - m = 1 /\ ~(i + 1 <= m) /\ i <= m
        BY <1>1, <2>1, <2>3
      <4>2. n > 0
        BY <1>1, <2>1, <2>3
      <4> QED BY <1>3, <2>1, <2>3, <4>1, <4>2
    <3>2. a[i][1] = "keep" /\ a[i + 1][1] = "number"
      BY <1>5, <1>8, <3>1 DEF Records, n
    <3> QED BY <3>2 DEF Leads, History, Texting
  <2>4. CASE i > m
    <3> DEFINE j == i - m
    <3>1. j \in 1..(n - 1) /\ (i + 1) - m = j + 1 /\ ~(i <= m) /\ ~(i + 1 <= m)
      BY <1>1, <2>1, <2>4
    <3>2. a[i] = q[j] /\ a[i + 1] = q[j + 1]
      BY <1>3, <2>1, <3>1
    <3> HIDE DEF j
    <3> QED BY <3>1, <3>2 DEF Records, n
  <2>5. i + 1 <= m \/ i = m \/ i > m
    BY <1>1, <2>1
  <2> QED BY <2>2, <2>3, <2>4, <2>5
<1>10. \A i, j \in 1..Len(a) :
          i < j /\ a[i][1] \in {"keep"} \cup Recording => a[j][1] \in Recording \cup {"audit"}
  <2> SUFFICES ASSUME NEW i \in 1..Len(a), NEW j \in 1..Len(a), i < j, a[i][1] \in {"keep"} \cup Recording
               PROVE  a[j][1] \in Recording \cup {"audit"}
    OBVIOUS
  <2>1. CASE ~(j <= m)
    BY <1>6, <2>1
  <2>2. CASE j <= m
    <3>1. i <= m
      BY <1>1, <1>3, <2>2
    <3>2. a[i] = todo[i] /\ a[j] = todo[j] /\ i \in 1..m /\ j \in 1..m
      BY <1>6, <2>2, <3>1
    <3> QED BY <3>2 DEF Formed, m
  <2> QED BY <2>1, <2>2
<1>11. a[Len(a)][1] \in {"keep", "path"}
  <2>1. CASE n > 0
    <3>1. m + n \in 1..(m + n) /\ ~(m + n <= m) /\ (m + n) - m = n
      BY <1>1, <2>1
    <3>2. a[m + n] = q[n]
      BY <1>3, <3>1
    <3> QED BY <1>3, <1>5, <2>1, <3>2 DEF Records, n
  <2>2. CASE n = 0
    <3>1. m + n = m /\ m \in 1..(m + n)
      BY <1>1, <1>2, <2>2
    <3> QED BY <1>3, <1>8, <3>1
  <2> QED BY <1>1, <2>1, <2>2
<1>12. a[1] = todo[1] /\ a # <<>>
  <2>1. 1 \in 1..(m + n) /\ 1 <= m /\ m + n > 0
    BY <1>1, <1>2
  <2>2. a # <<>>
    BY <1>3, <2>1, EmptySeq
  <2> QED BY <1>3, <2>1, <2>2
<1>13. Formed("rewind", doc, a)
  <2>1. a[Len(a)][1] \notin (Planning \ {"keep"}) \cup {"entry", "policy"}
    BY <1>11 DEF Planning
  <2>2. a \in Seq(Stage)
    BY <1>3
  <2> QED BY <1>7, <1>9, <1>10, <2>1, <2>2 DEF Formed
<1> QED BY <1>7, <1>12, <1>13 DEF a

LEMMA PlanRewindKeeps ==
    ASSUME NEW Texts, NEW States, Closed(Texts, States), NEW w, OneWriter(w), FileInv(Texts, States, w),
           NEW s \in Slots, PlanRewind(s)
    PROVE  FileInv(Texts, States, w)'
<1> DEFINE x == slot[s]
           old == x.old
           new == Rewound(old, x.copy, disk["bodyRevs"], x.req.target)
           changes == Changed(old, new)
           change(i) == StagesOfChange(old, new, NthOf(changes, i))
           seqs == [i \in 1..Cardinality(changes) |-> change(i)]
           stages == FlattenSeq(seqs)
           todo == x.todo \o stages
           c == [x EXCEPT !.snap = new, !.todo = @ \o stages]
           y == Onward(c)
<1>1. Has(s, "history") /\ disk["bodyRevs"] # Torn /\ UNCHANGED <<disk, given, faults, lost>>
  BY DEF PlanRewind
<1>2. slot' = [slot EXCEPT ![s] = y]
  BY DEF PlanRewind, Advance, Onward
<1>3. /\ x.todo # <<>> /\ Name(x) = "history" /\ SlotOK(Texts, States, disk, x)
      /\ disk["paths"] # Torn /\ x.copy = disk["paths"]
  <2>1. x.todo # <<>> /\ Name(x) = "history" /\ SlotOK(Texts, States, disk, x)
    BY <1>1, SlotsAre, OnlyWriterWrites DEF Has
  <2>2. FileOf["history"] = "paths"
    BY DEF FileOf
  <2> QED BY <1>1, <2>1, <2>2 DEF Has, SlotOK
<1>4. x.req.kind = "rewind"
  <2>1. Name(x) \in NamesOf(x.req.kind) /\ x.req.kind \in Kinds
    BY <1>3, SlotParts
  <2> QED BY <1>3, <2>1 DEF NamesOf, Kinds, Recording, History, Purging
<1>5. /\ Snapshot(Texts, old) /\ disk["snapshot"] # Torn /\ old = disk["snapshot"]
      /\ \A i \in 1..Len(x.todo) : x.todo[i][1] \in Planning
      /\ Formed("rewind", x.req.doc, x.todo)
  BY <1>3, <1>4 DEF SlotOK, Due, Planned, Kept, Begun, Planning, Plans
<1>6. x.copy \in Seq(PathRow) /\ disk["bodyRevs"] \in Seq(BodyRow(Texts, States))
  BY <1>1, <1>3 DEF FileInv, DiskOK, Shaped, Files
<1>7. Snapshot(Texts, new) /\ \A d \in changes : new.path[d] \in Paths
  BY <1>5, <1>6, RewoundIs
<1> HIDE DEF new
<1>8. changes \subseteq Docs /\ changes \subseteq Nat /\ IsFiniteSet(changes)
  <2>1. changes \subseteq Docs
    BY DEF Changed
  <2> HIDE DEF changes
  <2> QED BY <2>1, FilesAssumption, FS_Subset
<1> HIDE DEF changes
<1>9. Cardinality(changes) \in Nat /\ \A i \in 1..Cardinality(changes) : Records(new, change(i))
  <2>1. Cardinality(changes) \in Nat
    BY <1>8, FS_CardinalityType
  <2> SUFFICES ASSUME NEW i \in 1..Cardinality(changes) PROVE Records(new, change(i))
    BY <2>1
  <2> DEFINE d == NthOf(changes, i)
  <2>2. PICK k \in changes : RankIn(changes, k) = i
    BY <1>8, RankReached
  <2>3. d \in changes
    BY <2>2 DEF NthOf, RankIn
  <2> HIDE DEF d
  <2>4. Records(new, StagesOfChange(old, new, d))
    BY <1>7, <1>8, <2>3, ChangeRecords
  <2> QED BY <2>4 DEF d
<1>10. Records(new, stages)
  <2> DEFINE R == {q \in Seq(Stage) : Records(new, q)}
  <2>1. \A i \in 1..Cardinality(changes) : change(i) \in R
    BY <1>9 DEF Records
  <2> HIDE DEF change
  <2>2. seqs \in Seq(R)
    BY <1>9, <2>1
  <2>3. <<>> \in R
    <3>1. <<>> \in Seq(Stage) /\ Len(<<>>) = 0
      OBVIOUS
    <3> QED BY <3>1 DEF Records
  <2>4. \A a \in R, b \in R : a \o b \in R
    <3> SUFFICES ASSUME NEW a \in R, NEW b \in R PROVE a \o b \in R
      OBVIOUS
    <3>1. Records(new, a \o b)
      BY RecordsJoin
    <3> QED BY <3>1 DEF Records
  <2>5. R \in SUBSET Seq(Stage)
    OBVIOUS
  <2> HIDE DEF R, seqs
  <2>6. FlattenSeq(seqs) \in R
    BY <2>2, <2>3, <2>4, <2>5, FlattenStays
  <2> QED BY <2>6 DEF R
<1> HIDE DEF stages
<1>11. /\ Formed("rewind", x.req.doc, todo) /\ todo[1] = x.todo[1] /\ todo # <<>>
       /\ \A i \in 1..Len(todo) : todo[i][1] = "path" => new.path[todo[i][2]] \in Paths
  BY <1>3, <1>5, <1>10, RewindFormed
<1>12. /\ SlotShaped(c) /\ c.req = x.req /\ c.todo = todo /\ c.wrote = x.wrote /\ c.old = x.old
       /\ c.snap = new /\ c.result = x.result /\ c.number = x.number
  BY <1>3 DEF SlotOK, SlotShaped, Fields
<1> HIDE DEF c, todo
<1>13. /\ SlotShaped(y) /\ y.req = x.req /\ y.todo = Tail(todo) /\ y.wrote = x.wrote /\ y.old = x.old
       /\ y.snap = new /\ y.result = x.result /\ y.number = x.number /\ y.copy = Nothing
  BY <1>12, OnwardIs
<1> HIDE DEF y
<1>14. /\ Formed("rewind", x.req.doc, Tail(todo))
       /\ Tail(todo) # <<>> => Tail(todo)[1] = todo[2] /\ Leads("rewind", todo[1], todo[2])
  BY <1>11, TailFormed
<1>15. Due(Texts, States, disk, y)
  <2> SUFFICES ASSUME y.todo # <<>> PROVE Due(Texts, States, disk, y)
    BY DEF Due
  <2>1. Leads("rewind", x.todo[1], y.todo[1]) /\ x.todo[1][1] = "history"
    BY <1>3, <1>11, <1>13, <1>14 DEF Name
  <2>2. Len(todo) \in Nat /\ Len(y.todo) = Len(todo) - 1 /\ \A i \in 1..(Len(todo) - 1) : y.todo[i] = todo[i + 1]
    BY <1>11, <1>13, TailParts DEF Formed
  <2>3. \A i \in 1..Len(y.todo) : y.todo[i] = todo[i + 1] /\ i + 1 \in 1..Len(todo)
    BY <2>2
  <2>4. Planned(Texts, y)
    <3>1. \A i \in 1..Len(y.todo) : y.todo[i][1] = "path" => y.snap.path[y.todo[i][2]] \in Paths
      BY <1>11, <1>13, <2>3
    <3> QED BY <1>5, <1>7, <1>13, <3>1 DEF Planned
  <2>5. Kept(disk, y)
    BY <1>4, <1>5, <1>13 DEF Kept
  <2>6. Name(y) \notin {"check", "snapshot", "history", "event", "audit"} \cup History
    BY <2>1 DEF Leads, Name, History
  <2>7. Begun(y) /\ Worked(Texts, States, disk, y) /\ Numbered(disk, y)
    BY <1>4, <1>13, <2>6 DEF Begun, Worked, Numbered, Texting
  <2> QED BY <2>4, <2>5, <2>7 DEF Due
<1>16. SlotOK(Texts, States, disk, y)
  BY <1>3, <1>4, <1>13, <1>14, <1>15 DEF SlotOK
<1>17. given' \subseteq Docs /\ faults' \in 0..MaxFaults
  BY <1>1 DEF FileInv
<1>18. s # w => y.req.kind \in {"none", "changes"}
  BY <1>1, OnlyWriterWrites
<1> QED BY <1>1, <1>2, <1>3, <1>16, <1>17, <1>18, Quiet

-----------------------------------------------------------------------------
(* The invariant holds in every state.                                     *)

LEMMA InitOK ==
    ASSUME NEW Texts, NEW States, NEW w, OneWriter(w), Init
    PROVE  FileInv(Texts, States, w)
<1>1. /\ disk = [f \in Files |-> disk[f]]
      /\ disk["mounts"] = {} /\ disk["canonical"] = [d \in Docs |-> NoState]
      /\ disk["snapshot"] = [path |-> [d \in Docs |-> NoPath], live |-> {}, bodies |-> [d \in Docs |-> NoBody]]
      /\ disk["events"] = <<>> /\ disk["paths"] = <<>> /\ disk["bodyRevs"] = <<>>
      /\ disk["policies"] = [k \in {} |-> DefaultPolicy]
  BY DEF Init, Files
<1>2. Snapshot(Texts, disk["snapshot"]) /\ disk["snapshot"].live = {}
  BY <1>1 DEF Snapshot
<1>3. DiskOK(Texts, States, disk)
  <2>1. \A S : <<>> \in Seq(S)
    OBVIOUS
  <2>2. /\ Shaped(Texts, States, "events", disk["events"])
        /\ Shaped(Texts, States, "paths", disk["paths"])
        /\ Shaped(Texts, States, "bodyRevs", disk["bodyRevs"])
    BY <1>1, <2>1 DEF Shaped
  <2>3. /\ Shaped(Texts, States, "mounts", disk["mounts"])
        /\ Shaped(Texts, States, "snapshot", disk["snapshot"])
        /\ Shaped(Texts, States, "canonical", disk["canonical"])
        /\ Shaped(Texts, States, "policies", disk["policies"])
    BY <1>1, <1>2 DEF Shaped
  <2> QED BY <1>1, <2>2, <2>3 DEF DiskOK, Files
<1>4. NumbersOK(disk)
  <2>1. DOMAIN <<>> = {}
    OBVIOUS
  <2> QED BY <1>1, <2>1 DEF NumbersOK, Rising, Covered
<1>5. RowsAgree(disk, lost, slot[w])
  BY <1>2 DEF RowsAgree
<1>6. slot = [s \in Slots |-> Idle]
  BY DEF Init
<1>7. SlotsOK(Texts, States, disk, slot) /\ OthersRead(w, slot)
  BY <1>6, IdleOK DEF SlotsOK, OthersRead
<1>8. given \subseteq Docs /\ faults \in 0..MaxFaults
  BY FilesAssumption DEF Init
<1> QED BY <1>3, <1>4, <1>5, <1>7, <1>8 DEF FileInv

LEMMA WorkKeeps ==
    ASSUME NEW Texts, NEW States, Closed(Texts, States), NEW w, OneWriter(w), FileInv(Texts, States, w),
           NEW s \in Slots, Work(s)
    PROVE  FileInv(Texts, States, w)'
<1>1. CASE Check(s) \/ Fetch(s) \/ Refuse(s) \/ Fail(s) \/ FailToWrite(s) \/ Answer(s)
  BY <1>1, CheckKeeps, FetchKeeps, RefuseKeeps, FailKeeps
<1>2. CASE PlanCreate(s) \/ PlanDelete(s) \/ PlanMove(s) \/ PlanUpdate(s) \/ Merge(s)
  BY <1>2, PlanCreateKeeps, PlanDeleteKeeps, PlanMoveKeeps, PlanUpdateKeeps, MergeKeeps
<1>3. CASE PlanRestore(s) \/ LoadRevision(s) \/ BeginRewind(s) \/ PlanRewind(s)
  BY <1>3, PlanRestoreKeeps, LoadRevisionKeeps, PlanUpdateKeeps, PlanRewindKeeps
<1>4. CASE Bind(s) \/ SaveCanonical(s) \/ KeepSnapshot(s) \/ TakeNumber(s) \/ SaveEvent(s)
  BY <1>4, BindKeeps, SaveCanonicalKeeps, KeepSnapshotKeeps, TakeNumberKeeps, SaveEventKeeps
<1>5. CASE SaveRevision(s) \/ SavePath(s) \/ SavePolicies(s)
  BY <1>5, SaveRevisionKeeps, SavePathKeeps, BindKeeps
<1>6. CASE FindEntry(s) \/ FindPolicy(s) \/ Compact(s) \/ Erase(s) \/ RollBack(s)
  BY <1>6, FindEntryKeeps, FindPolicyKeeps, CompactKeeps, EraseKeeps, RollBackKeeps
<1>7. CASE ReadSince(s) \/ ReadDelta(s) \/ ReadChanged(s)
  BY <1>7, ReadSinceKeeps, ReadDeltaKeeps, ReadChangedKeeps
<1> QED BY <1>1, <1>2, <1>3, <1>4, <1>5, <1>6, <1>7 DEF Work

LEMMA NextKeeps ==
    ASSUME NEW Texts, NEW States, Closed(Texts, States), NEW w, OneWriter(w), FileInv(Texts, States, w),
           [Next]_vars
    PROVE  FileInv(Texts, States, w)'
<1>1. CASE \E s \in Slots : Work(s)
  BY <1>1, WorkKeeps
<1>2. CASE \E s \in Slots : \E kind \in Serves[s] : \E r \in Asked(kind) : Ask(s, r)
  BY <1>2, AskKeeps
<1>3. CASE \E torn \in SUBSET {f \in DOMAIN disk : \E s \in Slots : Writing(s, f)} : Crash(torn)
  BY <1>3, CrashKeeps
<1>4. CASE UNCHANGED vars
  BY <1>4 DEF vars, FileInv
<1> QED BY <1>1, <1>2, <1>3, <1>4 DEF Next

LEMMA FileInvAlways ==
    ASSUME NEW Texts, NEW States, Closed(Texts, States), NEW w, OneWriter(w)
    PROVE  Spec => []FileInv(Texts, States, w)
<1>1. Init => FileInv(Texts, States, w)
  BY InitOK
<1>2. FileInv(Texts, States, w) /\ [Next]_vars => FileInv(Texts, States, w)'
  BY NextKeeps
<1> QED BY <1>1, <1>2, PTL DEF Spec

\* With one slot that writes, every file has the shape its reader expects or
\* was cut short, whatever crashes and refused writes there were: what the
\* requests of bodies.rs, manifest_file.rs and history_file.rs write is what
\* the next ones parse.
THEOREM FilesKeepTypes ==
    ASSUME NEW Texts, NEW States, Closed(Texts, States), NEW w, OneWriter(w)
    PROVE  Spec => []TypeOK
<1>1. FileInv(Texts, States, w) => TypeOK
  <2> SUFFICES ASSUME FileInv(Texts, States, w) PROVE TypeOK
    OBVIOUS
  <2>1. \A f \in Files : disk[f] # Torn => Shaped(Texts, States, f, disk[f])
    BY DEF FileInv, DiskOK
  <2>2. disk["mounts"] # Torn => disk["mounts"] \in {{}, Mounts}
    BY <2>1 DEF Shaped, Files
  <2>3. disk["snapshot"] # Torn =>
          /\ disk["snapshot"].path \in [Docs -> Paths \cup {NoPath}]
          /\ \A d \in disk["snapshot"].live : disk["snapshot"].path[d] # NoPath
          /\ DOMAIN disk["snapshot"].bodies = Docs
    BY <2>1, FilesAssumption DEF Shaped, Files, Snapshot
  <2>4. disk["canonical"] # Torn => DOMAIN disk["canonical"] = Docs
    BY <2>1 DEF Shaped, Files
  <2>5. \A S : \A q \in Seq(S) : ToSet(q) \subseteq S
    BY DEF ToSet
  <2>6. disk["events"] # Torn => \A e \in ToSet(disk["events"]) : e.seq \in Nat /\ e.doc \in Docs
    <3>1. disk["events"] # Torn => disk["events"] \in Seq(Event)
      BY <2>1 DEF Shaped, Files
    <3> QED BY <2>5, <3>1 DEF Event
  <2>7. disk["paths"] # Torn =>
          \A r \in ToSet(disk["paths"]) : r.seq \in Nat /\ r.doc \in Docs /\ r.path \in Paths
    <3>1. disk["paths"] # Torn => disk["paths"] \in Seq(PathRow)
      BY <2>1 DEF Shaped, Files
    <3> QED BY <2>5, <3>1 DEF PathRow
  <2>8. disk["bodyRevs"] # Torn => \A r \in ToSet(disk["bodyRevs"]) : r.seq \in Nat /\ r.doc \in Docs
    <3>1. disk["bodyRevs"] # Torn => disk["bodyRevs"] \in Seq(BodyRow(Texts, States))
      BY <2>1 DEF Shaped, Files
    <3> QED BY <2>5, <3>1 DEF BodyRow
  <2>9. disk["policies"] # Torn => DOMAIN disk["policies"] \subseteq Keys
    BY <2>1 DEF Shaped, Files
  <2>10. faults \in 0..MaxFaults /\ given \subseteq Docs
    BY DEF FileInv
  <2> QED BY <2>2, <2>3, <2>4, <2>6, <2>7, <2>8, <2>9, <2>10 DEF TypeOK, Whole
<1>2. Spec => []FileInv(Texts, States, w)
  BY FileInvAlways
<1> QED BY <1>1, <1>2, PTL

\* With one slot that writes no two events share a number, and no row of the
\* history is of another request's event: a request that breaks off after
\* file_workspace_cursor gave it a number leaves no row that the next taker of
\* the number would be confused with.
THEOREM NumbersStayUnique ==
    ASSUME NEW Texts, NEW States, Closed(Texts, States), NEW w, OneWriter(w)
    PROVE  Spec => []NumbersUnique
<1>1. FileInv(Texts, States, w) => NumbersUnique
  <2> SUFFICES ASSUME FileInv(Texts, States, w), disk["events"] # Torn
               PROVE  /\ \A i, j \in DOMAIN disk["events"] : disk["events"][i].seq = disk["events"][j].seq => i = j
                      /\ \A f \in {"paths", "bodyRevs"} : disk[f] # Torn =>
                           \A r \in ToSet(disk[f]) : \E e \in ToSet(disk["events"]) : e.seq = r.seq /\ e.doc = r.doc
    BY DEF NumbersUnique, Whole
  <2> DEFINE events == disk["events"]
  <2>1. events \in Seq(Event)
    BY DEF FileInv, DiskOK, Shaped, Files
  <2>2. /\ Rising(events)
        /\ \A f \in {"paths", "bodyRevs"} : disk[f] # Torn => Covered(disk[f], events)
    BY DEF FileInv, NumbersOK
  <2> HIDE DEF events
  <2>3. \A i, j \in DOMAIN events : events[i].seq = events[j].seq => i = j
    <3> SUFFICES ASSUME NEW i \in DOMAIN events, NEW j \in DOMAIN events, events[i].seq = events[j].seq
                 PROVE  i = j
      OBVIOUS
    <3>1. i \in Nat /\ j \in Nat /\ events[i].seq \in Nat /\ events[j].seq \in Nat
      <4>1. DOMAIN events = 1..Len(events) /\ Len(events) \in Nat /\ \A k \in 1..Len(events) : events[k] \in Event
        BY <2>1
      <4>2. i \in 1..Len(events) /\ j \in 1..Len(events) /\ events[i] \in Event /\ events[j] \in Event
        BY <4>1
      <4> QED BY <4>1, <4>2 DEF Event
    <3>2. ~(i < j) /\ ~(j < i)
      BY <2>2, <3>1 DEF Rising
    <3> QED BY <3>1, <3>2
  <2>4. ASSUME NEW f \in {"paths", "bodyRevs"}, disk[f] # Torn, NEW r \in ToSet(disk[f])
        PROVE  \E e \in ToSet(events) : e.seq = r.seq /\ e.doc = r.doc
    <3>1. PICK i \in DOMAIN disk[f] : r = disk[f][i]
      BY <2>4 DEF ToSet
    <3>2. Row(events, r.seq, r.doc)
      BY <2>2, <2>4, <3>1 DEF Covered
    <3>3. \A j \in DOMAIN events : events[j] \in ToSet(events)
      BY DEF ToSet
    <3> QED BY <3>2, <3>3 DEF Row
  <2> QED BY <2>3, <2>4 DEF events
<1>2. Spec => []FileInv(Texts, States, w)
  BY FileInvAlways
<1> QED BY <1>1, <1>2, PTL

\* With one slot that writes, and between its requests, the canonical row of a
\* live document reads as the body in the snapshot, unless a request broke off
\* between writing the one and the other or a rewind changed the text since:
\* load_current_state (body_persistence.rs), which prefers the canonical row,
\* then gives the next edit the text that readers see.
THEOREM RowsStayAgreed ==
    ASSUME NEW Texts, NEW States, Closed(Texts, States), NEW w, OneWriter(w)
    PROVE  Spec => []BodiesAgree
<1>1. FileInv(Texts, States, w) => BodiesAgree
  <2> SUFFICES ASSUME FileInv(Texts, States, w), Writers = {}, disk["snapshot"] # Torn, disk["canonical"] # Torn,
                      NEW d \in disk["snapshot"].live, <<"canonical", d>> \notin lost
               PROVE  Agreed(disk, d)
    BY DEF BodiesAgree, Whole, Agreed
  <2>1. w \in Slots /\ (slot[w] = Idle \/ slot[w].req.kind = "changes")
    BY DEF Writers, OneWriter
  <2>2. slot[w].req.kind \notin Texting
    BY <2>1, IdleOK DEF Texting
  <2>3. ~Between(slot[w], d)
    BY <2>2 DEF Between
  <2> QED BY <2>3 DEF FileInv, RowsAgree
<1>2. Spec => []FileInv(Texts, States, w)
  BY FileInvAlways
<1> QED BY <1>1, <1>2, PTL
=============================================================================
