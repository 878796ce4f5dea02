-------------------------- MODULE SharedWorkspace --------------------------
(***************************************************************************)
(* What the server promises the checkouts of one workspace, history aside: *)
(* a set of documents at unique paths, each with a text, under a cursor    *)
(* that advances with every change and stamps the documents that changed.  *)
(* changes_since is answered from those stamps.  WorkspaceStore implements *)
(* this specification; CheckoutSync is built on it.                        *)
(***************************************************************************)
EXTENDS Naturals

CONSTANTS Docs, Paths, NoPath, NoText

VARIABLES
    path,      \* the manifest entry of every document ever created
    live,      \* the documents whose entry is not deleted
    text,      \* the body of every live document
    cursor,    \* the workspace cursor
    stamp      \* the cursor of each document's latest event

shared == <<path, live, text, cursor, stamp>>

Created == {d \in Docs : path[d] # NoPath}

Free(p, d) == \A e \in live \ {d} : path[e] # p

Stamp(d) ==
    /\ cursor' = cursor + 1
    /\ stamp' = [stamp EXCEPT ![d] = cursor + 1]

SharedInit ==
    /\ path = [d \in Docs |-> NoPath]
    /\ live = {}
    /\ text = [d \in Docs |-> NoText]
    /\ cursor = 0
    /\ stamp = [d \in Docs |-> 0]

\* Bringing d to path p with text t: a creation, or a restored revision.
Place(d, p, t) ==
    /\ Free(p, d)
    /\ path' = [path EXCEPT ![d] = p]
    /\ live' = live \cup {d}
    /\ text' = [text EXCEPT ![d] = t]
    /\ Stamp(d)

\* The text of a live document becomes t, whatever converging it gave.
Rewrite(d, t) ==
    /\ d \in live
    /\ text' = [text EXCEPT ![d] = t]
    /\ Stamp(d)
    /\ UNCHANGED <<path, live>>

\* The entry keeps the path it had.
Delete(d) ==
    /\ d \in live
    /\ live' = live \ {d}
    /\ text' = [text EXCEPT ![d] = NoText]
    /\ Stamp(d)
    /\ UNCHANGED path

Move(d, p) ==
    /\ d \in live
    /\ Free(p, d)
    /\ path' = [path EXCEPT ![d] = p]
    /\ Stamp(d)
    /\ UNCHANGED <<live, text>>

\* A rewind changes any documents ever created, each under a number of its own.
Same(d) == (d \in live' <=> d \in live) /\ path'[d] = path[d] /\ text'[d] = text[d]

Rewind ==
    /\ cursor' >= cursor
    /\ \A d \in Docs : path'[d] = NoPath <=> path[d] = NoPath
    /\ \A d \in Docs : \/ Same(d) /\ stamp'[d] = stamp[d]
                       \/ stamp'[d] > cursor /\ stamp'[d] <= cursor'
    /\ \A d, e \in Docs : stamp'[d] = stamp'[e] /\ stamp'[d] > cursor => d = e
    /\ \A d, e \in live' : path'[d] = path'[e] => d = e

SharedNext ==
    \/ \E d \in Docs, p \in Paths : Place(d, p, text'[d])
    \/ \E d \in Docs : Rewrite(d, text'[d])
    \/ \E d \in Docs : Delete(d)
    \/ \E d \in Docs, p \in Paths : Move(d, p)
    \/ Rewind

SharedSpec == SharedInit /\ [][SharedNext]_shared
=============================================================================
