------------------------------ MODULE Duplicates ------------------------------
(***************************************************************************)
(* cJSON_Duplicate (src/manip.rs) as an operator on heaps, for the modules  *)
(* whose code calls it.  A call is given the number of allocations that     *)
(* still succeed.                                                           *)
(***************************************************************************)
EXTENDS ItemLists

CONSTANT CircularLimit   \* CJSON_CIRCULAR_LIMIT

ASSUME LimitAssumption == CircularLimit \in Nat

-----------------------------------------------------------------------------
(* A result is the heap, the new node (NULL on failure) and the number of   *)
(* allocations that still succeed.                                           *)

CanAllocNode(h, left) == left > 0 /\ FreeNodes(h) # {}
CanAllocStr(h, left) == left > 0 /\ FreeStrings(h) # {}

Made(h, n, left) == [heap |-> h, node |-> n, left |-> left]

\* faulty variant: the half-built copy is not deleted
FailLeaks(h, n, left) == Made(h, NULL, left)

\* goto_fail
Fail(h, n, left) == Made(DeleteWalk(h, n), NULL, left)

\* faulty variant: the copy of a reference is marked a reference
CopyFlagsKeepsReference(h, n, item) ==
    [NewItem(h, n, h.type[item]) EXCEPT
        !.isReference = IF item \in h.isReference THEN @ \cup {n} ELSE @,
        !.stringIsConst = IF item \in h.stringIsConst THEN @ \cup {n} ELSE @ \ {n}]

\* the item's own type flags, IS_REFERENCE cleared
CopyFlags(h, n, item) ==
    [NewItem(h, n, h.type[item]) EXCEPT
        !.stringIsConst = IF item \in h.stringIsConst THEN @ \cup {n} ELSE @ \ {n}]

\* valuestring, when there is one; NULL when its strdup failed
CopyValue(h, n, item, left) ==
    IF h.valuestring[item] = NULL THEN Made(h, n, left)
    ELSE IF ~CanAllocStr(h, left) THEN Fail(h, n, left)
    ELSE LET s == FreshStr(h)
         IN  Made([Strdup(h, s, h.valuestring[item]) EXCEPT !.valuestring[n] = s], n, left - 1)

\* faulty variant: an owned key is shared as well
CopyKeyShares(h, n, item, left) == Made([h EXCEPT !.string[n] = h.string[item]], n, left)

\* string; a borrowed key is shared
CopyKey(h, n, item, left) ==
    IF h.string[item] = NULL THEN Made(h, n, left)
    ELSE IF item \in h.stringIsConst
    THEN Made([h EXCEPT !.string[n] = h.string[item]], n, left)
    ELSE IF ~CanAllocStr(h, left) THEN Fail(h, n, left)
    ELSE LET s == FreshStr(h)
         IN  Made([Strdup(h, s, h.string[item]) EXCEPT !.string[n] = s], n, left - 1)

\* after the walk prev of the first child points to the last one
CloseList(h, n, last) == IF h.child[n] = NULL THEN h ELSE [h EXCEPT !.prev[h.child[n]] = last]

RECURSIVE DuplicateRec(_, _, _, _, _), DuplicateChildren(_, _, _, _, _, _),
          LinkCopy(_, _, _, _, _)

\* duplicate_rec
DuplicateRec(h, item, depth, recurse, left) ==
    IF ~CanAllocNode(h, left) THEN Made(h, NULL, left)
    ELSE LET n == FreshNode(h)
             value == CopyValue(CopyFlags(h, n, item), n, item, left - 1)
             named == IF value.node = NULL THEN value
                      ELSE CopyKey(value.heap, n, item, value.left)
         IN  IF named.node = NULL \/ ~recurse THEN named
             ELSE DuplicateChildren(named.heap, n, h.child[item], NULL, depth, named.left)

\* its loop over the children, from child on; last is the latest copy
DuplicateChildren(h, n, child, last, depth, left) ==
    IF child = NULL THEN Made(CloseList(h, n, last), n, left)
    ELSE IF depth >= CircularLimit THEN Fail(h, n, left)
    ELSE LinkCopy(DuplicateRec(h, child, depth + 1, TRUE, left), n, h.next[child], last, depth)

LinkCopy(new, n, next, last, depth) ==
    IF new.node = NULL THEN Fail(new.heap, n, new.left)
    ELSE DuplicateChildren(IF last = NULL THEN [new.heap EXCEPT !.child[n] = new.node]
                           ELSE SuffixObject(new.heap, last, new.node),
                           n, next, new.node, depth, new.left)
=============================================================================
