------------------------------- MODULE SortLists -------------------------------
(***************************************************************************)
(* sort_object (src/utils.rs) as an operator on heaps: a merge sort of the  *)
(* children by key, on the links themselves.  It leaves prev of the first   *)
(* child alone or NULL, where every other operation expects the last child. *)
(***************************************************************************)
EXTENDS CJsonHeap

CONSTANT Rank    \* the byte order of the contents, as strcmp sees them

ASSUME RankAssumption ==
    /\ Rank \in [Name -> Nat]
    /\ \A x, y \in Name : Rank[x] = Rank[y] => x = y

-----------------------------------------------------------------------------
(* compare_strings says of two keys whether the first is below the second;  *)
(* a missing key is below nothing.                                          *)

Below(h, p, q, caseSensitive) ==
    LET key(x) == IF caseSensitive THEN Rank[Text(h, x)] ELSE Rank[Lower[Text(h, x)]]
    IN  p # NULL /\ q # NULL /\ key(p) < key(q)

NodeBelow(h, m, n, cs) == Below(h, h.string[m], h.string[n], cs)

\* the k-th element after list
RECURSIVE Walk(_, _, _)
Walk(h, list, k) == IF k = 0 \/ list = NULL THEN list ELSE Walk(h, h.next[list], k - 1)

Length(h, list) ==
    CHOOSE k \in 0..Cardinality(Node) :
        Walk(h, list, k) = NULL /\ \A j \in 0..(k - 1) : Walk(h, list, j) # NULL

\* faulty variant: only the first pair is compared
StrictlySortedAtFront(h, list, cs) == NodeBelow(h, list, h.next[list], cs)

\* "Test for list sorted": strictly, so equal keys do not count as sorted
StrictlySorted(h, list, cs) ==
    \A k \in 1..(Length(h, list) - 1) :
        NodeBelow(h, Walk(h, list, k - 1), Walk(h, list, k), cs)

\* the pair of pointers that finds the middle, then the split
Middle(h, list) == Walk(h, list, (Length(h, list) + 1) \div 2)

Split(h, second) ==
    IF h.prev[second] = NULL THEN h
    ELSE [h EXCEPT !.next[h.prev[second]] = NULL, !.prev[second] = NULL]

\* faulty variant: the backward link is not set
LinkForwardOnly(h, tail, x) == IF tail = NULL THEN h ELSE [h EXCEPT !.next[tail] = x]

\* append x to the merged list that ends in tail
Link(h, tail, x) == IF tail = NULL THEN h ELSE SuffixObject(h, tail, x)

RECURSIVE Merge(_, _, _, _, _)
Merge(h, first, second, tail, cs) ==
    IF first = NULL \/ second = NULL
    THEN LET rest == IF first = NULL THEN second ELSE first
         IN  IF rest = NULL THEN h ELSE Link(h, tail, rest)
    ELSE IF NodeBelow(h, first, second, cs)
    THEN Merge(Link(h, tail, first), h.next[first], second, first, cs)
    ELSE Merge(Link(h, tail, second), first, h.next[second], second, cs)

\* the first element of the merged list
MergeHead(h, first, second, cs) ==
    IF first # NULL /\ (second = NULL \/ NodeBelow(h, first, second, cs))
    THEN first ELSE second

\* sort_list: the heap and the first element afterwards
RECURSIVE SortList(_, _, _)
SortList(h, list, cs) ==
    IF list = NULL \/ h.next[list] = NULL \/ StrictlySorted(h, list, cs)
    THEN [heap |-> h, head |-> list]
    ELSE LET second == Middle(h, list)
             left == SortList(Split(h, second), list, cs)
             right == SortList(left.heap, second, cs)
         IN  [heap |-> Merge(right.heap, left.head, right.head, NULL, cs),
              head |-> MergeHead(right.heap, left.head, right.head, cs)]

\* sort_object
SortObject(h, object, cs) ==
    LET done == SortList(h, h.child[object], cs)
    IN  [done.heap EXCEPT !.child[object] = done.head]
=============================================================================
