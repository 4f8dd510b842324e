--------------------------------- MODULE Grown ---------------------------------
(***************************************************************************)
(* A client that builds two values with the item API, in the order of their *)
(* texts: every tree of up to so many items, members in any order.  Strings *)
(* and keys are the client's literals, borrowed; numbers are left out.      *)
(***************************************************************************)
EXTENDS ItemLists

CONSTANT
    Palettes    \* what a client builds with: the types of the items, strings
                \* apart; the values of the strings; the keys; how many items;
                \* and the pointers it follows

ASSUME PaletteAssumption ==
    \A p \in Palettes :
        /\ p.kinds \subseteq Type \ {"Invalid", "Number", "String"}
        /\ p.literals \subseteq Name /\ p.keys \subseteq Name
        /\ p.size \in 0..Cardinality(Node)

VARIABLES
    palette,   \* the client's palette
    heap,
    open       \* the containers whose text is not complete, outermost first

vars == <<palette, heap, open>>

-----------------------------------------------------------------------------
(* The client *)

\* an item of type t, or a string with a literal for its value
NewValue(n, t, value) ==
    IF value = NULL THEN NewItem(heap, n, t)
    ELSE [NewItem(heap, n, "String") EXCEPT
            !.isReference = @ \cup {n}, !.valuestring[n] = value]

Values == {<<t, NULL>> : t \in palette.kinds} \cup {<<"String", x>> : x \in palette.literals}

\* keys are borrowed; a member added with cJSON_AddItemToArray has none
Keys(p) == IF heap.type[p] = "Object" THEN palette.keys \cup {NULL} ELSE {NULL}

Room == Cardinality(heap.live) < palette.size

StartValue ==
    /\ Room /\ Len(SelectSeq(open, LAMBDA p : p = NULL)) < 2
    /\ heap' = NewItem(heap, FreshNode(heap), "Object")
    /\ open' = open \o <<NULL, FreshNode(heap)>>
    /\ UNCHANGED palette

Grow ==
    /\ Room /\ UNCHANGED palette
    /\ \E k \in DOMAIN open : \E v \in Values :
        /\ open[k] # NULL /\ \A j \in k..Len(open) : open[j] # NULL
        /\ \E key \in Keys(open[k]) :
            LET n == FreshNode(heap)
                new == NewValue(n, v[1], v[2])
            IN  /\ heap' = IF key = NULL THEN AddItemToArray(new, open[k], n)
                           ELSE AddItemToObject(new, open[k], key, n, NULL, TRUE)
                /\ open' = SubSeq(open, 1, k) \o (IF v[1] \in ContainerType THEN <<n>> ELSE <<>>)

Init == palette \in Palettes /\ heap = EmptyHeap /\ open = <<>>

Next == StartValue \/ Grow

Spec == Init /\ [][Next]_vars

-----------------------------------------------------------------------------
(* What the values say *)

\* the items of the first value while there is no second: what a walk down from
\* an item finds does not depend on it
Alone == IF \E k \in 2..Len(open) : open[k] = NULL THEN {} ELSE heap.live

\* the first value while its members have none: a lookup does not go deeper
Flat == {p \in Alone : heap.live = {p} \cup ChildSet(heap, p)}

SameName(m, n, cs) == heap.string[m] # NULL /\ SameKey(heap, heap.string[m], heap.string[n], cs)

\* every member below n has a key, and no object has one twice
RECURSIVE Unambiguous(_, _)
Unambiguous(n, cs) ==
    /\ heap.type[n] = "Object" => \A i, j \in ChildSet(heap, n) :
        heap.string[i] # NULL /\ (i # j => ~SameName(i, j, cs))
    /\ \A m \in ChildSet(heap, n) : Unambiguous(m, cs)

\* two items say the same: arrays element by element, objects member by
\* member in any order
RECURSIVE SameValue(_, _, _)
SameValue(m, n, cs) ==
    /\ heap.type[m] = heap.type[n]
    /\ Text(heap, heap.valuestring[m]) = Text(heap, heap.valuestring[n])
    /\ Len(Children(heap, m)) = Len(Children(heap, n))
    /\ IF heap.type[m] = "Object"
       THEN \A i \in ChildSet(heap, m) : \E j \in ChildSet(heap, n) :
                SameName(i, j, cs) /\ SameValue(i, j, cs)
       ELSE \A k \in DOMAIN Children(heap, m) :
                SameValue(Children(heap, m)[k], Children(heap, n)[k], cs)

\* and with the members in the same order
RECURSIVE SameInOrder(_, _, _)
SameInOrder(m, n, cs) ==
    LET a == Children(heap, m)
        b == Children(heap, n)
    IN  /\ heap.type[m] = heap.type[n]
        /\ Text(heap, heap.valuestring[m]) = Text(heap, heap.valuestring[n])
        /\ Len(a) = Len(b)
        /\ \A k \in DOMAIN a :
            /\ heap.type[m] = "Object" => SameName(a[k], b[k], cs)
            /\ SameInOrder(a[k], b[k], cs)
=============================================================================
