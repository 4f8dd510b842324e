-------------------------------- MODULE Forest --------------------------------
(***************************************************************************)
(* What the item API promises: a forest of ordered trees.  Each item has a *)
(* sequence of children, an item has one place in the forest, and every    *)
(* call moves one subtree or changes nothing.  No pointers, no memory.     *)
(***************************************************************************)
EXTENDS Sequences, FiniteSets, SequencesExt

CONSTANT Item

VARIABLES
    items,     \* the items that exist
    kids,      \* the children of each item, in order
    held       \* the items the client holds

fvars == <<items, kids, held>>

\* i and its descendants, where ks gives the children
Subtree(ks, i) ==
    {j \in Item : \A C \in SUBSET Item :
        i \in C /\ (\A k \in C : ToSet(ks[k]) \subseteq C) => j \in C}

Position(s, j) == CHOOSE k \in DOMAIN s : s[k] = j
Without(s, j) == RemoveAt(s, Position(s, j))
InsertBefore(s, j, i) == InsertAt(s, Position(s, j), i)
Substitute(s, j, i) == ReplaceAt(s, Position(s, j), i)

\* the children that remain when everything in D ceases to exist
Drop(ks, D) == [i \in Item |-> IF i \in D THEN <<>> ELSE ks[i]]

Init == items = {} /\ kids = [i \in Item |-> <<>>] /\ held = {}

-----------------------------------------------------------------------------
(* One action per kind of change; ks is the children before it.              *)

\* a new childless item in the client's hands
Create(ks, i) == items' = items \cup {i} /\ held' = held \cup {i} /\ kids' = ks

\* a new item that nobody holds
Lose(ks, i) == items' = items \cup {i} /\ held' = held /\ kids' = ks

\* a new item straight at the end of p
CreateIn(ks, p, i) ==
    /\ items' = items \cup {i} /\ held' = held
    /\ kids' = [ks EXCEPT ![p] = Append(@, i)]

\* "Append item to the specified array/object." (cJSON.h)
Store(ks, p, i) ==
    /\ items' = items /\ held' = held \ {i}
    /\ kids' = [ks EXCEPT ![p] = Append(@, i)]

\* "Shifts pre-existing items to the right." (cJSON.h)
Insert(ks, p, j, i) ==
    /\ items' = items /\ held' = held \ {i}
    /\ kids' = [ks EXCEPT ![p] = InsertBefore(@, j, i)]

Replace(ks, p, j, i) ==
    LET D == Subtree(ks, j) IN
    /\ items' = items \ D /\ held' = held \ {i}
    /\ kids' = Drop([ks EXCEPT ![p] = Substitute(@, j, i)], D)

TakeOut(ks, p, j) ==
    /\ items' = items /\ held' = held \cup {j}
    /\ kids' = [ks EXCEPT ![p] = Without(@, j)]

Discard(ks, p, j) ==
    LET D == Subtree(ks, j) IN
    /\ items' = items \ D /\ held' = held
    /\ kids' = Drop([ks EXCEPT ![p] = Without(@, j)], D)

Release(ks, j) ==
    LET D == Subtree(ks, j) IN
    /\ items' = items \ D /\ held' = held \ {j}
    /\ kids' = Drop(ks, D)

Next ==
    LET ks == kids IN
    \/ \E i \in Item \ items :
        Create(ks, i) \/ Lose(ks, i) \/ \E p \in items : CreateIn(ks, p, i)
    \/ \E j \in held : Release(ks, j)
    \/ \E p \in items, i \in held :
        /\ p \notin Subtree(ks, i)
        /\ \/ Store(ks, p, i)
           \/ \E j \in ToSet(ks[p]) : Insert(ks, p, j, i) \/ Replace(ks, p, j, i)
    \/ \E p \in items : \E j \in ToSet(ks[p]) : TakeOut(ks, p, j) \/ Discard(ks, p, j)

Spec == Init /\ [][Next]_fvars
=============================================================================
