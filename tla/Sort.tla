--------------------------------- MODULE Sort ---------------------------------
(***************************************************************************)
(* cJSONUtils_SortObject (src/utils.rs): a merge sort of the children by   *)
(* key, on the links themselves.  It leaves prev of the first child alone  *)
(* or NULL, where every other operation expects the last child.            *)
(*                                                                         *)
(* SortSpec is the client of Manip with sorting added.  CarefulSpec is one *)
(* that never appends to an object it has sorted.                          *)
(***************************************************************************)
EXTENDS Manip, SortLists

VARIABLE sorted  \* the objects the client has sorted

svars == <<heap, roots, sorted>>

-----------------------------------------------------------------------------
(* The client *)

\* what becomes of sorted when items go away
StillSorted == sorted' = {p \in sorted \cap heap'.live : heap'.child[p] # NULL}

Sort(p, cs) ==
    /\ heap' = SortObject(heap, p, cs)
    /\ sorted' = sorted \cup {p}
    /\ UNCHANGED roots

SortAny == \E p \in Owners, cs \in BOOLEAN : Sort(p, cs)

\* cJSON_AddItemToObjectCS
Append(p, i, key) ==
    /\ heap' = AddItemToObject(heap, p, key, i, NULL, TRUE)
    /\ roots' = IF AddItemToObjectAccepts(p, i, NULL, TRUE) THEN roots \ {i} ELSE roots
    /\ UNCHANGED sorted

AppendTo(P) == \E p \in P : \E i \in Storable(p), key \in Name : Append(p, i, key)

\* cJSON_InsertItemInArray at an index the list has
InsertBefore ==
    \E p \in Containers : \E after \in Members(heap, p), i \in Placeable(p) :
        /\ heap.string[i] # NULL
        /\ heap' = InsertItemInArray(heap, p, after, i)
        /\ roots' = roots \ {i}
        /\ UNCHANGED sorted

SortInit == Init /\ sorted = {}

CarefulNext ==
    \/ CreateItem /\ UNCHANGED sorted
    \/ AppendTo(Containers \ sorted)
    \/ InsertBefore
    \/ (Detach \/ DeleteFromContainer \/ DeleteRoot \/ ReplaceItem) /\ StillSorted
    \/ SortAny

CarefulSpec == SortInit /\ [][CarefulNext]_svars

\* the client that knows nothing of the lost tail
SortNext ==
    \/ CreateItem /\ UNCHANGED sorted
    \/ AppendTo(Containers)
    \/ SortAny

SortSpec == SortInit /\ [][SortNext]_svars

-----------------------------------------------------------------------------
(* Properties *)

\* A client that does not append to what it sorted keeps every list linked
\* both ways, whatever sort_list left in prev of the first child; the lists it
\* never sorted still know their tail; and no item is lost.
LinkedAfterSort ==
    /\ \A n \in heap.live : heap.next[n] # NULL =>
        heap.next[n] \in heap.live /\ heap.prev[heap.next[n]] = n
    /\ \A p \in Owners \ sorted :
        LET tail == heap.prev[heap.child[p]]
        IN  tail \in Members(heap, p) /\ heap.next[tail] = NULL
    /\ Lost = {}

\* SortObject permutes the children, and puts a child before every child with
\* a greater key, when all have keys; it promises nothing for equal keys.
SortOrders ==
    [][\A p \in Owners, cs \in BOOLEAN : Sort(p, cs) =>
        /\ Members(heap', p) = Members(heap, p)
        /\ (\A m \in Members(heap, p) : heap.string[m] # NULL) =>
            \A m, n \in Members(heap, p) :
                NodeBelow(heap, m, n, cs) => n \in ListFrom(heap', m)]_svars

\* "Append item to the specified array/object." (cJSON.h): an accepted add
\* leaves the item in the object and keeps what was there.
AppendAppends ==
    [][\A p \in Containers : \A i \in Storable(p) \ {p}, key \in Name : Append(p, i, key) =>
        Members(heap', p) = Members(heap, p) \cup {i}]_svars
=============================================================================
