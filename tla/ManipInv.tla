------------------------------- MODULE ManipInv -------------------------------
(***************************************************************************)
(* The inductive invariant behind the properties of Manip about links.  Its *)
(* witness par names the container of every item that is in a list, which  *)
(* the C structure does not store; NULL stands for "in no list".           *)
(***************************************************************************)
EXTENDS Manip

HeapOK(h) ==
    /\ h \in Heap
    /\ h.isReference \subseteq h.live
    /\ h.stringIsConst \subseteq h.live

\* Items in no list have no links; the client holds each of them, but for
\* the references that could not be named.
TopItems(h, R, par) ==
    /\ R \subseteq h.live
    /\ \A r \in R : par[r] = NULL
    /\ \A n \in h.live : par[n] = NULL =>
        /\ h.next[n] = NULL /\ h.prev[n] = NULL
        /\ n \in R \/ (n \in h.isReference /\ h.string[n] = NULL)

\* An item in the list of p has a predecessor in it; the one of the first
\* element is an element without a successor.
Listed(h, par) ==
    \A n \in h.live : par[n] # NULL =>
        /\ par[n] \in h.live /\ par[n] \notin h.isReference
        /\ h.child[par[n]] # NULL
        /\ h.prev[n] \in h.live /\ par[h.prev[n]] = par[n]
        /\ h.next[h.prev[n]] = IF h.child[par[n]] = n THEN NULL ELSE n

Forward(h, par) ==
    \A n \in h.live : h.next[n] # NULL =>
        /\ h.next[n] \in h.live /\ h.prev[h.next[n]] = n
        /\ par[h.next[n]] = par[n] /\ h.child[par[n]] # h.next[n]

FirstChild(h, par) ==
    \A p \in h.live : p \notin h.isReference /\ h.child[p] # NULL =>
        h.child[p] \in h.live /\ par[h.child[p]] = p

OneTail(h, par) ==
    \A m, n \in h.live :
        par[m] = par[n] /\ par[m] # NULL /\ h.next[m] = NULL /\ h.next[n] = NULL => m = n

Tops(h, par) == {n \in h.live : par[n] = NULL}
Reached(h, par) == h.live \subseteq Reach(h, Tops(h, par))

Linked(h, R, par) ==
    /\ par \in [Node -> NodePtr]
    /\ TopItems(h, R, par) /\ Listed(h, par) /\ Forward(h, par)
    /\ FirstChild(h, par) /\ OneTail(h, par) /\ Reached(h, par)

LinksInv(h, R) == HeapOK(h) /\ \E par \in [Node -> NodePtr] : Linked(h, R, par)
===============================================================================
