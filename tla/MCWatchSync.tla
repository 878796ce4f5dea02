---------------------------- MODULE MCWatchSync ----------------------------
(* Finite instances of WatchSync, with the texts of MCCheckoutSync.         *)
EXTENDS WatchSync, Sequences, TLC

CONSTANTS a, x, y

LOCAL Body == INSTANCE BodyText WITH Newline <- 0

MCConverge(base, current, incoming) == Body!ConvergedLines(base, current, incoming)

MCLinesOf(t) == {t[i] : i \in DOMAIN t}

\* A fresh line is put at the end or replaces the file; a line is taken out.
MCEdited(t, n) ==
    IF t = NoText THEN {<<10 + n>>}
    ELSE {Append(t, 10 + n)} \cup {[t EXCEPT ![i] = 10 + n] : i \in DOMAIN t}
          \cup (IF Len(t) > 1 THEN {Tail(t)} ELSE {})
MCBlank == <<>>

MCSeedLine == {<<1>>}
=============================================================================
