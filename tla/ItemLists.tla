------------------------------- MODULE ItemLists -------------------------------
(***************************************************************************)
(* The walks of src/manip.rs over lists of children, step by step: lookup   *)
(* by key and deletion, as the code makes them.                             *)
(***************************************************************************)
EXTENDS CJsonHeap, SequencesExt

RECURSIVE Items(_, _), Lookup(_, _, _, _)

\* the items a walk along next from m on visits, in order
Items(h, m) == IF m = NULL THEN <<>> ELSE <<m>> \o Items(h, h.next[m])
Children(h, p) == Items(h, h.child[p])
ChildSet(h, p) == ToSet(Children(h, p))

\* faulty variant: a member without a key does not stop the walk
LookupSkipsKeyless(h, m, name, cs) ==
    IF m = NULL THEN NULL
    ELSE IF SameKey(h, h.string[m], name, cs) THEN m
    ELSE Lookup(h, h.next[m], name, cs)

\* get_object_item, step by step
Lookup(h, m, name, cs) ==
    IF m = NULL \/ (cs /\ h.string[m] = NULL) THEN NULL
    ELSE IF SameKey(h, h.string[m], name, cs) THEN m
    ELSE Lookup(h, h.next[m], name, cs)
\* get_array_item of src/utils.rs, and the walks like it: NULL past the end
RECURSIVE Nth(_, _, _)
Nth(h, m, index) == IF m = NULL \/ index = 0 THEN m ELSE Nth(h, h.next[m], index - 1)

-----------------------------------------------------------------------------
(* cJSON_Delete, step by step *)

FreeNode(h, n) ==
    IF n \notin h.live THEN [h EXCEPT !.fault = TRUE]
    ELSE [h EXCEPT !.live = @ \ {n}, !.next[n] = NULL, !.prev[n] = NULL, !.child[n] = NULL,
                   !.type[n] = "Invalid", !.isReference = @ \ {n}, !.stringIsConst = @ \ {n},
                   !.string[n] = NULL, !.valuestring[n] = NULL]

\* faulty variant: the children of a reference are freed as well
RECURSIVE DeleteWalkIntoReferences(_, _)
DeleteWalkIntoReferences(h, item) ==
    IF item = NULL THEN h
    ELSE IF item \notin h.live THEN [h EXCEPT !.fault = TRUE]
    ELSE LET below == DeleteWalkIntoReferences(h, h.child[item])
             value == FreeString(below, OwnedValue(h, item))
             key == FreeString(value, OwnedKey(h, item))
         IN  DeleteWalkIntoReferences(FreeNode(key, item), h.next[item])

\* item, the siblings after it, and what they own; a step on freed memory is a
\* fault
RECURSIVE DeleteWalk(_, _)
DeleteWalk(h, item) ==
    IF item = NULL THEN h
    ELSE IF item \notin h.live THEN [h EXCEPT !.fault = TRUE]
    ELSE LET below == IF item \in h.isReference THEN h ELSE DeleteWalk(h, h.child[item])
             value == FreeString(below, OwnedValue(h, item))
             key == FreeString(value, OwnedKey(h, item))
         IN  DeleteWalk(FreeNode(key, item), h.next[item])
=============================================================================
