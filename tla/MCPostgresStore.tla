-------------------------- MODULE MCPostgresStore --------------------------
(* Finite instances of PostgresStore, with the texts of BodyText.           *)
EXTENDS PostgresStore

CONSTANTS m, alice, editor

Text == INSTANCE BodyText WITH Newline <- 0

MCPaths == {<<m, "x">>, <<m, "y">>}
MCMountOf == [p \in Paths |-> p[1]]
MCChain == [p \in Paths |-> <<p[1]>>]
MCKeys == {m}
MCPolicies == {[revisions |-> 1, frequency |-> 2]}
MCLargePolicy == [revisions |-> 100, frequency |-> 10]

MCEmpty == <<>>
A == <<1>>
B == <<2>>
MCEdits == {MCEmpty, A, B \o A}
MCBases == {MCEmpty, A}
MCSecrets == {A, B \o A}
Marker == <<7, 8>>

MCFlat(t) == Text!FlatShape(t)
MCApplyUpdate(s, actor, base, t) == Text!ApplyEdit(s, actor, base, t)
MCContains(t, u) == Text!ContainsText(t, u)
MCUnion(base, t, u) == Text!UnionText(base, t, u)

\* str::replace: every occurrence, from the left, by the marker.
MCRedacted(t, secret) ==
    LET from[i \in 1..(Len(t) + 1)] ==
          IF i > Len(t) THEN MCEmpty
          ELSE IF i + Len(secret) - 1 <= Len(t) /\ SubSeq(t, i, i + Len(secret) - 1) = secret
          THEN Marker \o from[i + Len(secret)]
          ELSE <<t[i]>> \o from[i + 1]
    IN  from[1]

MCNoBody == <<99>>

\* What the proof of RedactionHides assumes (MergesHide in
\* PostgresStoreProofs), of a secret that is one character.
FewTexts == UNION {[1..n -> 1..2] : n \in 0..2}
FewStates == {Text!Checkpoint(t) : t \in FewTexts}
EditedStates == {MCApplyUpdate(s, alice, b, t) : s \in FewStates, b \in FewTexts, t \in FewTexts}

ASSUME SecretStaysOut ==
    /\ ~MCContains(MCEmpty, A)
    /\ \A t \in FewTexts : /\ ~MCContains(MCRedacted(t, A), A)
                           /\ MCContains(t, A) \/ MCRedacted(t, A) = t
    /\ \A s \in FewStates \cup EditedStates, b \in FewTexts, t \in FewTexts :
          MCContains(MCApplyUpdate(s, alice, b, t).text, A) =>
             MCContains(s.text, A) \/ MCContains(b, A) \/ MCContains(t, A)
=============================================================================
