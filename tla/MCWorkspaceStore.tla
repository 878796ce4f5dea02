------------------------- MODULE MCWorkspaceStore -------------------------
(* Finite instances of WorkspaceStore, with the texts of BodyText.          *)
EXTENDS WorkspaceStore, Sequences

CONSTANTS m, n, alice

Text == INSTANCE BodyText WITH Newline <- 0

MCOnePath == {<<m, "x">>}
MCTwoPaths == {<<m, "x">>, <<m, "y">>}
MCThreePaths == {<<m, "x">>, <<m, "y">>, <<n, "x">>}
MCMountOf == [p \in Paths |-> p[1]]
MCChain == [p \in Paths |-> <<p, p[1]>>]
MCKeys == Paths \cup {p[1] : p \in Paths}

MCNoPolicies == {}
MCSmallPolicies == {[revisions |-> 1, frequency |-> 2], [revisions |-> 2, frequency |-> 2]}
MCLargePolicy == [revisions |-> 100, frequency |-> 10]

A == <<1>>
B == <<2>>
MCNone == {}
MCOneText == {A}
MCEmpty == <<>>
MCThreeTexts == {MCEmpty, A, B \o A}

MCFlat(t) == Text!FlatShape(t)
MCApplyUpdate(s, actor, base, t) == Text!ApplyEdit(s, actor, base, t)
MCContains(t, u) == Text!ContainsText(t, u)
MCUnion(base, t, u) == Text!UnionText(base, t, u)

MCUnbound == {"unbound"}
MCNoBody == <<99>>
=============================================================================
