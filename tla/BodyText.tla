------------------------------ MODULE BodyText ------------------------------
(***************************************************************************)
(* How the server converges document texts (storage/body_state.rs).  A text *)
(* is a sequence of characters; characters are numbers and sort as such.   *)
(*                                                                         *)
(* A document's state is its text and the shape of the CRDT behind it.  The *)
(* server never keeps a CRDT alive: it builds one from a text (FlatShape), lets  *)
(* an edit delete all of its base text and insert all of the new text, and  *)
(* applies that edit to the current state.  So a shape is a flat text, how  *)
(* many of its leading characters edits have deleted, and the insertions.   *)
(***************************************************************************)
EXTENDS Integers, Sequences, FiniteSets

LOCAL INSTANCE SequencesExt

CONSTANT Newline

EmptyText == <<>>

\* str::contains
ContainsText(t, u) == \E i \in 0..(Len(t) - Len(u)) : SubSeq(t, i + 1, i + Len(u)) = u

\* The byte order of strings.
Precedes(t, u) ==
    \E k \in 0..Len(t) :
       /\ k <= Len(u) /\ SubSeq(t, 1, k) = SubSeq(u, 1, k)
       /\ IF k = Len(t) THEN k < Len(u) ELSE k < Len(u) /\ t[k + 1] < u[k + 1]

\* split_inclusive('\n'): every line keeps its newline.
Lines(t) ==
    LET ends == {i \in 1..Len(t) : t[i] = Newline \/ i = Len(t)}
        start(e) == IF \E f \in ends : f < e THEN 1 + CHOOSE f \in ends : f < e /\ \A g \in ends : g < e => g <= f
                    ELSE 1
        stops == SetToSortSeq(ends, <)
    IN  [i \in 1..Len(stops) |-> SubSeq(t, start(stops[i]), stops[i])]

EndsInNewline(t) == t # EmptyText /\ t[Len(t)] = Newline

\* append_unique_variant: on a line of its own; trailing newlines become one.
AppendVariant(merged, variant) ==
    LET opened == IF merged = EmptyText \/ EndsInNewline(merged) THEN merged
                  ELSE Append(merged, Newline)
        length == CHOOSE k \in 0..Len(variant) :
                    /\ k = 0 \/ variant[k] # Newline
                    /\ \A j \in (k + 1)..Len(variant) : variant[j] = Newline
        body == opened \o SubSeq(variant, 1, length)
    IN  IF variant = EmptyText THEN merged
        ELSE IF EndsInNewline(variant) THEN Append(body, Newline) ELSE body

\* Both variants, in their own order rather than in the order they arrived.
AppendBoth(merged, t, u) ==
    IF t = u THEN AppendVariant(merged, t)
    ELSE IF Precedes(t, u) THEN AppendVariant(AppendVariant(merged, t), u)
    ELSE AppendVariant(AppendVariant(merged, u), t)

\* One line of the union of two texts with as many lines as their base.  All
\* lines but the last end in a newline, so they merge independently.
MergeLine(base, current, incoming) ==
    IF current = incoming \/ incoming = base THEN current
    ELSE IF current = base THEN incoming
    ELSE AppendBoth(EmptyText, current, incoming)

\* deterministic_concurrent_text_union
UnionText(base, current, incoming) ==
    LET old == Lines(base)  here == Lines(current)  there == Lines(incoming)
    IN  IF ContainsText(current, incoming) THEN current
        ELSE IF ContainsText(incoming, current) THEN incoming
        ELSE IF old # EmptyText /\ Len(old) = Len(here) /\ Len(old) = Len(there)
        THEN FlattenSeq([k \in DOMAIN old |-> MergeLine(old[k], here[k], there[k])])
        ELSE AppendBoth(EmptyText, current, incoming)

-----------------------------------------------------------------------------
(* The CRDT, modelled from the edits body_state.rs makes with it.           *)

\* A fresh checkpoint's text is all of one synthetic client.
FlatShape(text) == [flat |-> text, gone |-> 0, added |-> <<>>]

ShapeText(shape) ==
    SubSeq(shape.flat, shape.gone + 1, Len(shape.flat)) \o FlattenSeq([k \in DOMAIN shape.added |-> shape.added[k].text])

Checkpoint(text) == [text |-> text, shape |-> FlatShape(text)]

\* An edit deletes the synthetic characters its base text stands for, wherever
\* they came from, and inserts the new text behind the last of them, unless
\* the state has no such character.  It is identified by actor, base and text,
\* so it is inserted once.  Insertions behind later characters stay in front.
ApplyEdit(state, actor, base, text) ==
    LET shape == state.shape
        edit == [actor |-> actor, base |-> base, text |-> text]
        fits == text # EmptyText /\ Len(base) <= Len(shape.flat)
        known == \E k \in DOMAIN shape.added : shape.added[k] = edit
        place == CHOOSE k \in 0..Len(shape.added) :
                   /\ \A j \in 1..k : Len(shape.added[j].base) >= Len(base)
                   /\ k < Len(shape.added) => Len(shape.added[k + 1].base) < Len(base)
        gone == IF Len(base) > Len(shape.flat) THEN Len(shape.flat) ELSE Len(base)
        next == [shape EXCEPT !.gone = IF gone > @ THEN gone ELSE @,
                              !.added = IF fits /\ ~known THEN InsertAt(@, place + 1, edit) ELSE @]
    IN  [text |-> ShapeText(next), shape |-> next]

\* apply_update for a document whose CRDT is flat.
ConvergedText(base, current, incoming) ==
    LET merged == ApplyEdit(Checkpoint(current), 0, base, incoming).text
    IN  IF current = base THEN incoming
        ELSE IF ContainsText(merged, current) /\ ContainsText(merged, incoming) THEN merged
        ELSE UnionText(base, current, incoming)

-----------------------------------------------------------------------------
(* The same for texts as sequences of lines, when every line ends in a      *)
(* newline and all are of one length: a line is then a character.           *)

BothLines(t, u) == IF Precedes(t, u) THEN t \o u ELSE u \o t

ConvergedLine(b, c, i) ==
    IF c = i \/ i = b THEN <<c>> ELSE IF c = b THEN <<i>> ELSE BothLines(<<c>>, <<i>>)

\* The edit applied to the flat current text: as many characters as the base
\* has are deleted, and what is left stays in front.
AppliedLines(base, current, incoming) ==
    SubSeq(current, Len(base) + 1, Len(current)) \o (IF Len(base) > Len(current) THEN EmptyText ELSE incoming)

ConvergedLines(base, current, incoming) ==
    IF current = base THEN incoming
    ELSE IF /\ ContainsText(AppliedLines(base, current, incoming), current)
            /\ ContainsText(AppliedLines(base, current, incoming), incoming)
    THEN AppliedLines(base, current, incoming)
    ELSE IF ContainsText(current, incoming) THEN current
    ELSE IF ContainsText(incoming, current) THEN incoming
    ELSE IF Len(base) = Len(current) /\ Len(base) = Len(incoming)
    THEN FlattenSeq([k \in DOMAIN base |-> ConvergedLine(base[k], current[k], incoming[k])])
    ELSE BothLines(current, incoming)
=============================================================================
