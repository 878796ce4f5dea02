---------------------------- MODULE MCFileStore ----------------------------
(* Finite instances of FileStore, with the texts of BodyText.               *)
EXTENDS FileStore, TLC

CONSTANTS m, x, y, writer, reader, alice

LinesOf == INSTANCE BodyText WITH Newline <- 0

MCOnePath == {<<m, x>>}
MCTwoPaths == {<<m, x>>, <<m, y>>}
MCSymmetry == Permutations({x, y})
MCMountOf == [p \in Paths |-> p[1]]
MCKeys == {m}
MCChain == [p \in Paths |-> <<m>>]

MCNoPolicies == {}
MCTight == [revisions |-> 1, frequency |-> 1]
MCLarge == [revisions |-> 100, frequency |-> 10]
MCOnePolicy == {MCTight}

MCEmpty == <<>>
MCOneText == {<<1>>}
MCTwoTexts == {<<1>>, <<2, 1>>}
MCThreeTexts == {<<1>>, <<2, 1>>, <<3>>}
MCOneBase == {<<1>>}
MCNoBody == <<99>>

MCFlat(t) == LinesOf!FlatShape(t)
MCApplyUpdate(s, actor, base, t) == LinesOf!ApplyEdit(s, actor, base, t)
MCContains(t, u) == LinesOf!ContainsText(t, u)
MCUnion(base, t, u) == LinesOf!UnionText(base, t, u)

\* One request at a time, of every kind; ...
MCEverything ==
    [s \in Slots |-> {"bootstrap", "create", "update", "delete", "move", "restore", "rewind", "purge"}]
\* ... a client asking for changes while another writes; ...
MCReader ==
    [s \in Slots |-> IF s = writer THEN {"bootstrap", "create", "update", "delete", "move", "rewind", "policy"}
                     ELSE {"changes"}]
\* ... two writers.
MCManifest == [s \in Slots |-> {"bootstrap", "create", "delete", "move"}]
MCRewrites == [s \in Slots |-> {"bootstrap", "create", "update", "rewind"}]
=============================================================================
