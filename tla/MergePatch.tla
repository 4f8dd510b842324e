------------------------------- MODULE MergePatch -------------------------------
(***************************************************************************)
(* cJSONUtils_MergePatch and cJSONUtils_GenerateMergePatch (src/utils.rs):  *)
(* merging a patch into a target, and generating one from two values, as    *)
(* functions on heaps.                                                      *)
(***************************************************************************)
EXTENDS PatchSteps

KeyOf(h, m) == Text(h, h.string[m])

-----------------------------------------------------------------------------
(* merge_patch *)

\* add_item_to_object with a copied key; without an object or memory for the
\* key the item is not stored
Store(h, object, key, item, rest) ==
    LET room == rest > 0 /\ FreeStrings(h) # {}
        s == IF room THEN FreshStr(h) ELSE NULL
    IN  IF object = NULL \/ item = NULL THEN Made(h, object, rest)
        ELSE Made(AddItemToObject(h, object, key, item, s, FALSE), object,
                  IF room THEN rest - 1 ELSE rest)

\* faulty variant: a null is stored like any other value
IsNullNever(h, m) == FALSE

IsNull(h, m) == h.type[m] = "Null"

\* faulty variant: what is no object is forgotten, not deleted
ForgetTarget(h, object) == h

DeleteTarget(h, object) == DeleteWalk(h, object)

RECURSIVE Merged(_, _, _, _, _), MergeMembers(_, _, _, _, _), MergeNext(_, _, _, _),
          MergeInto(_, _, _, _)

Merged(h, object, p, case, rest) ==
    LET dropped == DeleteTarget(h, object)
        fresh == IF CanAllocNode(dropped, rest) THEN FreshNode(dropped) ELSE NULL
    IN  IF h.type[p] # "Object" THEN DuplicateRec(dropped, p, 0, TRUE, rest)
        ELSE IF object # NULL /\ h.type[object] = "Object"
        THEN MergeMembers(h, object, h.child[p], case, rest)
        ELSE MergeMembers(NewItem(dropped, fresh, "Object"), fresh, h.child[p], case,
                          IF fresh = NULL THEN rest ELSE rest - 1)

\* the loop over the members of the patch, from m on
MergeMembers(h, object, m, case, rest) ==
    LET old == IF object = NULL THEN NULL ELSE Lookup(h, h.child[object], KeyOf(h, m), case)
        without == IF old = NULL THEN h ELSE DetachItem(h, object, old)
    IN  IF m = NULL THEN Made(h, object, rest)
        ELSE IF IsNull(h, m)
        THEN MergeMembers(DeleteWalk(without, old), object, h.next[m], case, rest)
        ELSE MergeInto(Merged(without, old, m, case, rest), object, m, case)

\* new is the value of the member m
MergeInto(new, object, m, case) ==
    IF new.node = NULL THEN Made(DeleteWalk(new.heap, object), NULL, new.left)
    ELSE MergeNext(Store(new.heap, object, KeyOf(new.heap, m), new.node, new.left), object, m, case)

MergeNext(stored, object, m, case) ==
    MergeMembers(stored.heap, object, stored.heap.next[m], case, stored.left)

-----------------------------------------------------------------------------
(* generate_merge_patch.  Its allocations are not modelled to fail.          *)

\* the keys are compared with regard to case, whatever the lists are sorted by
KeyBelow(h, m, n) == m # NULL /\ (n = NULL \/ Rank[KeyOf(h, m)] < Rank[KeyOf(h, n)])

\* faulty variant: what is to be removed is passed over
StoreNullForgets(h, object, key) == h

StoreNull(h, object, key) ==
    Store(NewItem(h, FreshNode(h), "Null"), object, key, FreshNode(h), Plenty).heap

\* what has been made for a key, NULL when there is nothing
StoreMade(made, object, key) == Store(made.heap, object, key, made.node, Plenty).heap

\* an empty patch is none
NonEmpty(h, p) ==
    IF h.child[p] = NULL THEN Made(DeleteWalk(h, p), NULL, Plenty) ELSE Made(h, p, Plenty)

RECURSIVE Generated(_, _, _, _), GeneratedSorted(_, _, _, _), GenerateMembers(_, _, _, _, _),
          GenerateBoth(_, _, _, _, _)

\* the patch, NULL when there is nothing to change
Generated(h, a, b, case) ==
    IF h.type[a] # "Object" \/ h.type[b] # "Object" THEN Copied(h, b, Plenty)
    ELSE GeneratedSorted(SortObject(SortObject(h, a, case), b, case), a, b, case)

GeneratedSorted(h, a, b, case) ==
    LET p == FreshNode(h)
    IN  NonEmpty(GenerateMembers(NewItem(h, p, "Object"), p, h.child[a], h.child[b], case), p)

GenerateMembers(h, p, m, n, case) ==
    IF m = NULL /\ n = NULL THEN h
    ELSE IF KeyBelow(h, m, n)
    THEN GenerateMembers(StoreNull(h, p, KeyOf(h, m)), p, h.next[m], n, case)
    ELSE IF KeyBelow(h, n, m)
    THEN GenerateMembers(StoreMade(Copied(h, n, Plenty), p, KeyOf(h, n)), p, m, h.next[n], case)
    ELSE GenerateMembers(GenerateBoth(CompareJson(h, m, n, case), p, m, n, KeyOf(h, n)),
                         p, h.next[m], h.next[n], case)

\* a member of both has been compared, with regard to case or without; its patch
\* is always generated without
GenerateBoth(compared, p, m, n, key) ==
    IF compared.same THEN compared.heap
    ELSE StoreMade(Generated(compared.heap, m, n, FALSE), p, key)
=================================================================================
