-------------------------- MODULE MCCheckoutSync --------------------------
(* Finite instances of CheckoutSync.  A file is a sequence of lines, each a *)
(* number.                                                                  *)
EXTENDS CheckoutSync, Sequences, TLC

CONSTANTS a, b, x, y

LOCAL Body == INSTANCE BodyText WITH Newline <- 0

MCConverge(base, current, incoming) == Body!ConvergedLines(base, current, incoming)

\* Converging by lines is converging by characters, lines ending in newlines.
Characters(t) == [i \in 1..(2 * Len(t)) |-> IF i % 2 = 1 THEN t[(i + 1) \div 2] ELSE 0]
FewLines == UNION {[1..n -> 1..3] : n \in 0..2} \cup {<<1, 2, 3>>, <<1, 3, 2>>, <<2, 3, 1>>}

ASSUME LinesConverge ==
    \A base, current, incoming \in FewLines :
        Characters(Body!ConvergedLines(base, current, incoming))
          = Body!ConvergedText(Characters(base), Characters(current), Characters(incoming))

MCLinesOf(t) == {t[i] : i \in DOMAIN t}

\* What the proofs assume of converging (KeepsAdditions in SyncProofs).
ASSUME AdditionsKept ==
    \A base, current, incoming \in FewLines :
        MCLinesOf(incoming) \ MCLinesOf(base) \subseteq MCLinesOf(MCConverge(base, current, incoming))

\* A fresh line is put at the end or replaces the file; a line is taken out.
MCEdited(t, n) ==
    IF t = NoText THEN {<<10 + n>>}
    ELSE {Append(t, 10 + n)} \cup {[t EXCEPT ![i] = 10 + n] : i \in DOMAIN t}
          \cup (IF Len(t) > 1 THEN {Tail(t)} ELSE {})
MCBlank == <<>>

MCNothing == {NoText}
MCSeed == {<<1, 2>>}
MCSeedLine == {<<1>>}
MCSymmetry == Permutations(Clients)
=============================================================================
