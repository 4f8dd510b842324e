--------------------------------- MODULE Copy ---------------------------------
(***************************************************************************)
(* The calls of src/manip.rs that build a whole tree and have to undo it   *)
(* when memory runs out half-way: cJSON_Duplicate and cJSON_Create*Array.  *)
(* A call is given the number of allocations that still succeed.  The      *)
(* client first builds a source tree, references and cycles included, then *)
(* copies, and may delete the source while it keeps the copy.              *)
(***************************************************************************)
EXTENDS Manip, Duplicates

CONSTANTS
    MaxSource,       \* bound on the items of the source
    MaxCount         \* bound on the elements of a created array

ASSUME BoundAssumption == MaxSource \in Nat /\ MaxCount \in Nat

VARIABLE copied      \* what the last call copied, and how

NotCopied == [item |-> NULL, node |-> NULL, recurse |-> FALSE]

cvars == <<heap, roots, copied>>

-----------------------------------------------------------------------------
(* cJSON_Create*Array *)

\* cJSON_CreateNumber or cJSON_CreateString for one element
Element(h, isString, left) ==
    IF ~CanAllocNode(h, left) THEN Made(h, NULL, left)
    ELSE LET n == FreshNode(h) IN
         IF ~isString THEN Made(NewItem(h, n, "Null"), n, left - 1)
         ELSE IF ~CanAllocStr(h, left - 1) THEN Made(CreateString(h, n, NULL, NULL), NULL, left - 1)
         ELSE Made(CreateString(h, n, FreshStr(h), CHOOSE x \in Name : TRUE), n, left - 2)

\* create_number_array: i elements are in, the last one is p
RECURSIVE CreateElements(_, _, _, _, _, _)
CreateElements(h, a, p, todo, isString, left) ==
    IF todo = 0 THEN Made(CloseList(h, a, p), a, left)
    ELSE LET new == Element(h, isString, left)
             linked == IF p = NULL THEN [new.heap EXCEPT !.child[a] = new.node]
                       ELSE SuffixObject(new.heap, p, new.node)
         IN  IF new.node = NULL THEN Fail(new.heap, a, new.left)
             ELSE CreateElements(linked, a, new.node, todo - 1, isString, new.left)

CreateNumberArray(h, count, isString, left) ==
    IF ~CanAllocNode(h, left) THEN Made(h, NULL, left)
    ELSE LET a == FreshNode(h)
         IN  CreateElements(NewItem(h, a, "Array"), a, NULL, count, isString, left - 1)

-----------------------------------------------------------------------------
(* The client *)

Building == copied = NotCopied /\ Cardinality(heap.live) < MaxSource

StartTree ==
    /\ Building /\ roots = {}
    /\ heap' = NewItem(heap, FreshNode(heap), "Object")
    /\ roots' = {FreshNode(heap)}
    /\ UNCHANGED copied

\* cJSON_AddObjectToObject, cJSON_AddStringToObject, cJSON_AddItemToObjectCS and
\* cJSON_AddItemReferenceToArray
GrowTree ==
    /\ Building /\ FreeNodes(heap) # {}
    /\ \E p \in Containers, key \in Name :
        LET n == FreshNode(heap)
            new == NewItem(heap, n, "Object")
            free == FreeStrings(heap)
        IN  \/ free # {} /\ heap' = AddItemToObject(new, p, key, n, FreshStr(heap), FALSE)
            \/ heap' = AddItemToObject(new, p, key, n, NULL, TRUE)
            \/ free # {} /\ heap' = AddItemToArray(CreateString(heap, n, FreshStr(heap), key), p, n)
            \/ \E i \in heap.live : heap' = AddItemToArray(CreateReference(heap, n, i), p, n)
    /\ UNCHANGED <<roots, copied>>

Allocations == 0..(Cardinality(Node) + Cardinality(Str))

Duplicate(item, recurse, left) ==
    LET made == DuplicateRec(heap, item, 0, recurse, left)
    IN  /\ copied = NotCopied
        /\ heap' = made.heap
        /\ roots' = roots \cup ({made.node} \ {NULL})
        /\ copied' = [item |-> item, node |-> made.node, recurse |-> recurse]

DuplicateItem ==
    \E item \in heap.live, recurse \in BOOLEAN, left \in Allocations :
        Duplicate(item, recurse, left)

CreateArray(count, isString, left) ==
    LET made == CreateNumberArray(heap, count, isString, left)
    IN  /\ copied = NotCopied
        /\ heap' = made.heap
        /\ roots' = roots \cup ({made.node} \ {NULL})
        /\ copied' = [NotCopied EXCEPT !.node = made.node, !.recurse = TRUE]

CreateAnyArray ==
    \E count \in 0..MaxCount, isString \in BOOLEAN, left \in Allocations :
        CreateArray(count, isString, left)

\* the source goes, the copy stays
DeleteSource ==
    /\ copied.node # NULL
    /\ \E item \in roots \ {copied.node} :
        heap' = Delete(heap, item) /\ roots' = roots \ {item}
    /\ copied' = [copied EXCEPT !.item = NULL]

CopyInit == Init /\ copied = NotCopied

CopyNext == StartTree \/ GrowTree \/ DuplicateItem \/ CreateAnyArray \/ DeleteSource

CopySpec == CopyInit /\ [][CopyNext]_cvars

-----------------------------------------------------------------------------
(* Properties *)

\* m is n again: type, key and value, and to the same depth its children,
\* but owned where n's are borrowed.
RECURSIVE Equal(_, _, _), EqualLists(_, _, _)
Equal(n, m, deep) ==
    /\ heap.type[n] = heap.type[m] /\ m \notin heap.isReference
    /\ Text(heap, heap.string[n]) = Text(heap, heap.string[m])
    /\ Text(heap, heap.valuestring[n]) = Text(heap, heap.valuestring[m])
    /\ IF deep THEN EqualLists(heap.child[n], heap.child[m], deep) ELSE heap.child[m] = NULL
EqualLists(i, j, deep) ==
    IF i = NULL \/ j = NULL THEN i = j
    ELSE Equal(i, j, deep) /\ EqualLists(heap.next[i], heap.next[j], deep)

\* A duplicate equals its source down to the last item and shares no item
\* with it, so that deleting either leaves the other whole.
CopyIsFaithful ==
    copied.item # NULL /\ copied.node # NULL =>
        /\ Equal(copied.item, copied.node, copied.recurse)
        /\ \A r \in roots \ {copied.node} :
            Reach(heap, {r}) \cap Reach(heap, {copied.node}) = {}
        /\ Reach(heap, {copied.node}) \cap heap.isReference = {}

\* A call that runs out of memory or of depth, at whichever allocation, leaves
\* memory exactly as it found it: all it had built is freed, once.
FailureRestores ==
    [][/\ \A item \in heap.live, recurse \in BOOLEAN, left \in Allocations :
            Duplicate(item, recurse, left) /\ copied'.node = NULL => heap' = heap
       /\ \A count \in 0..MaxCount, isString \in BOOLEAN, left \in Allocations :
            CreateArray(count, isString, left) /\ copied'.node = NULL => heap' = heap]_cvars

\* Copies and created arrays are items like any other: both ends of a list know
\* each other, so the next append finds the tail, and every string is the
\* copy's own, unless both keys are the client's.
CopiesAreWhole == ListsWellLinked /\ StringsOwnedOnce /\ NoFault

\* The recursion of cJSON_Delete frees exactly the items its closed form names,
\* and steps on freed memory exactly when that form says it is not safe:
\* references, cycles and half-owned copies included.
DeletesWhatItReaches ==
    \A item \in heap.live :
        LET walked == DeleteWalk(heap, item)
            freed == Delete(heap, item)
        IN  walked.fault = freed.fault /\ (~walked.fault => walked = freed)
=============================================================================
