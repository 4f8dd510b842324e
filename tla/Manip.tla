-------------------------------- MODULE Manip --------------------------------
(***************************************************************************)
(* A client driving the item API of src/manip.rs: one action per family of *)
(* API calls, every allocation free to fail, in any order the header       *)
(* permits.  The client owns the trees in roots; a call that stores an     *)
(* item takes it from the client and one that detaches hands it back.      *)
(***************************************************************************)
EXTENDS CJsonHeap

CONSTANTS
    Kind,      \* the types of items the client creates, strings apart
    MayFail,   \* the allocator may return NULL
    Borrow     \* the client creates references and const keys

ASSUME FlagsAssumption ==
    Kind \subseteq Type \ {"Invalid", "String"} /\ MayFail \in BOOLEAN /\ Borrow \in BOOLEAN

VARIABLES
    heap,
    roots      \* the items the client holds and has to delete

vars == <<heap, roots>>

-----------------------------------------------------------------------------
(* What the allocator can answer, and the arguments a legal call can have.   *)

NewNodes == FreeNodes(heap) \cup (IF MayFail THEN {NULL} ELSE {})
NewStrings == FreeStrings(heap) \cup (IF MayFail THEN {NULL} ELSE {})

\* containers a client changes: arrays and objects that own their children
Containers ==
    {p \in heap.live : heap.type[p] \in ContainerType /\ p \notin heap.isReference}

\* an item the client owns may go into any container outside its own tree;
\* the container itself is passed too, where the code refuses it
Storable(p) == {i \in roots : p \notin Reach(heap, {i}) \ {i}}
Placeable(p) == Storable(p) \ {p}

\* a key argument: a literal, or the item's own key
KeyArgs(i) == Name \cup {p \in {heap.string[i]} : p # NULL}

-----------------------------------------------------------------------------
(* Creating and deleting *)

CreateItem ==
    \E n \in NewNodes, t \in Kind :
        /\ heap' = NewItem(heap, n, t)
        /\ roots' = roots \cup ({n} \ {NULL})

CreateStringItem ==
    \E n \in NewNodes, s \in NewStrings, name \in Name :
        /\ heap' = CreateString(heap, n, s, name)
        /\ roots' = IF s = NULL THEN roots ELSE roots \cup ({n} \ {NULL})

CreateStringReference ==
    /\ Borrow
    /\ \E n \in FreeNodes(heap), name \in Name :
        /\ heap' = [NewItem(heap, n, "String") EXCEPT
                        !.isReference = @ \cup {n}, !.valuestring[n] = name]
        /\ roots' = roots \cup {n}

\* cJSON_CreateArrayReference and cJSON_CreateObjectReference
CreateContainerReference ==
    /\ Borrow
    /\ \E n \in FreeNodes(heap), t \in ContainerType, c \in heap.live :
        /\ heap' = [NewItem(heap, n, t) EXCEPT
                        !.isReference = @ \cup {n}, !.child[n] = c]
        /\ roots' = roots \cup {n}

DeleteRoot ==
    \E item \in roots :
        /\ heap' = Delete(heap, item)
        /\ roots' = roots \ {item}

-----------------------------------------------------------------------------
(* Storing *)

AddToArray ==
    \E p \in Containers : \E i \in Storable(p) :
        /\ heap' = AddItemToArray(heap, p, i)
        /\ roots' = IF AddItemToArrayAccepts(p, i) THEN roots \ {i} ELSE roots

AddToObject ==
    \E p \in Containers : \E i \in Storable(p), s \in NewStrings :
        \E key \in KeyArgs(i) :
            /\ heap' = AddItemToObject(heap, p, key, i, s, FALSE)
            /\ roots' = IF AddItemToObjectAccepts(p, i, s, FALSE)
                        THEN roots \ {i} ELSE roots

\* cJSON_AddItemToObjectCS: the literal itself becomes the key
AddToObjectCS ==
    /\ Borrow
    /\ \E p \in Containers : \E i \in Storable(p), key \in Name :
        /\ heap' = AddItemToObject(heap, p, key, i, NULL, TRUE)
        /\ roots' = IF AddItemToObjectAccepts(p, i, NULL, TRUE)
                    THEN roots \ {i} ELSE roots

\* cJSON_AddItemReferenceToArray
AddReferenceToArray ==
    /\ Borrow
    /\ \E p \in Containers, i \in heap.live, n \in NewNodes :
        /\ heap' = AddItemToArray(CreateReference(heap, n, i), p, n)
        /\ UNCHANGED roots

\* cJSON_AddItemReferenceToObject: the reference is created first and nobody
\* holds it when the key cannot be copied
AddReferenceToObject ==
    /\ Borrow
    /\ \E p \in Containers, i \in heap.live, n \in NewNodes, s \in NewStrings, key \in Name :
        /\ heap' = AddItemToObject(CreateReference(heap, n, i), p, key, n, s, FALSE)
        /\ UNCHANGED roots

\* faulty variant: the item that could not be stored is forgotten
AddNewToObjectForgets(h, p, key, n, s) == AddItemToObject(h, p, key, n, s, FALSE)

\* add_to_object!, cJSON_AddBoolToObject, cJSON_AddNumberToObject: the new
\* item is deleted when it cannot be stored
AddNewToObjectResult(h, p, key, n, s) ==
    LET added == AddItemToObject(h, p, key, n, s, FALSE)
    IN  IF AddItemToObjectAccepts(p, n, s, FALSE) THEN added
        ELSE Delete(added, n)

AddNewToObject ==
    \E p \in Containers, n \in NewNodes, s \in NewStrings, key \in Name,
       t \in Kind :
        /\ heap' = AddNewToObjectResult(NewItem(heap, n, t), p, key, n, s)
        /\ UNCHANGED roots

\* cJSON_AddStringToObject and cJSON_AddRawToObject
AddStringToObject ==
    \E p \in Containers, n \in NewNodes, v \in NewStrings, key \in Name, value \in Name :
        LET created == CreateString(heap, n, v, value)
            item == IF v = NULL THEN NULL ELSE n
        IN  \E s \in (NewStrings \ {v}) \cup (IF MayFail THEN {NULL} ELSE {}) :
            /\ heap' = AddNewToObjectResult(created, p, key, item, s)
            /\ UNCHANGED roots

InsertIntoArray ==
    \E p \in Containers : \E after \in Members(heap, p) \cup {NULL} :
        \E i \in IF after = NULL THEN Storable(p) ELSE Placeable(p) :
            /\ heap' = InsertItemInArray(heap, p, after, i)
            /\ roots' = IF p = i THEN roots ELSE roots \ {i}

-----------------------------------------------------------------------------
(* Taking out and replacing.  The index, the key or the pointer a call is    *)
(* given selects some element of the list, or none.                          *)

Detach ==
    \E p \in Containers : \E i \in Members(heap, p) :
        /\ heap' = DetachItem(heap, p, i)
        /\ roots' = roots \cup {i}

\* cJSON_DeleteItemFromArray, cJSON_DeleteItemFromObject[CaseSensitive]
DeleteFromContainer ==
    \E p \in Containers : \E i \in Members(heap, p) :
        /\ heap' = Delete(DetachItem(heap, p, i), i)
        /\ UNCHANGED roots

\* cJSON_ReplaceItemViaPointer and cJSON_ReplaceItemInArray
ReplaceItem ==
    \E p \in Containers : \E i \in Members(heap, p) \cup {NULL} :
        \E r \in Placeable(p) \cup ({i} \ {NULL}) :
            /\ heap' = ReplaceItemViaPointer(heap, p, i, r)
            /\ roots' = IF ReplaceItemAccepts(heap, p, i) THEN roots \ {r} ELSE roots

\* cJSON_ReplaceItemInObject[CaseSensitive]; the key argument must not be
\* the replacement's own key, which the call frees before it copies it
ReplaceInObject ==
    \E p \in Containers, key \in Name, s \in NewStrings, cs \in BOOLEAN :
        \E r \in Placeable(p) :
            LET renamed == RenameReplacement(heap, r, key, s)
                i == GetObjectItem(renamed, p, key, cs)
            IN  IF s = NULL \/ ~ReplaceItemAccepts(renamed, p, i)
                THEN heap' = renamed /\ UNCHANGED roots
                ELSE /\ heap' = ReplaceItemViaPointer(renamed, p, i, r)
                     /\ roots' = roots \ {r}

SetString ==
    \E i \in heap.live, name \in Name, s \in NewStrings :
        /\ SetValuestringAccepts(heap, i)
        /\ heap' = SetValuestring(heap, i, name, s)
        /\ UNCHANGED roots

-----------------------------------------------------------------------------
Init == heap = EmptyHeap /\ roots = {}

Next ==
    \/ CreateItem \/ CreateStringItem
    \/ CreateStringReference \/ CreateContainerReference
    \/ DeleteRoot
    \/ AddToArray \/ AddToObject \/ AddToObjectCS
    \/ AddReferenceToArray \/ AddReferenceToObject
    \/ AddNewToObject \/ AddStringToObject
    \/ InsertIntoArray
    \/ Detach \/ DeleteFromContainer
    \/ ReplaceItem \/ ReplaceInObject
    \/ SetString

Spec == Init /\ [][Next]_vars

-----------------------------------------------------------------------------
(* Properties *)

\* Every call leaves a heap of the right shape: only allocated nodes carry
\* flags, and what the client holds is allocated.
TypeOK ==
    /\ heap \in Heap
    /\ roots \subseteq heap.live
    /\ heap.isReference \subseteq heap.live
    /\ heap.stringIsConst \subseteq heap.live

\* The items whose own child list is theirs.
Owners == {p \in heap.live : p \notin heap.isReference /\ heap.child[p] # NULL}

\* After any sequence of adds, inserts, detaches, replacements and deletions
\* every list is doubly linked, its last element is prev of its first one
\* (which is what makes the next append constant-time), and no link leads to
\* freed memory; items outside any list have no links.
ListsWellLinked ==
    /\ \A n \in heap.live :
        heap.next[n] # NULL => heap.next[n] \in heap.live /\ heap.prev[heap.next[n]] = n
    /\ \A p \in Owners :
        /\ heap.child[p] \in heap.live
        /\ heap.prev[heap.child[p]] \in Members(heap, p)
        /\ heap.next[heap.prev[heap.child[p]]] = NULL
    /\ \A r \in roots : heap.next[r] = NULL /\ heap.prev[r] = NULL

\* The trees never share a node: every allocated node is held by the client,
\* or is the first child of one owner, or follows one sibling, and exactly
\* one of these; so cJSON_Delete of the roots frees each node once.
SingleOwner ==
    /\ \A n, m \in heap.live : n # m =>
        OwnedSucc(heap, n) \cap OwnedSucc(heap, m) = {}
    /\ \A n \in Owners : heap.next[n] # heap.child[n]
    /\ \A n \in heap.live : OwnedSucc(heap, n) \cap roots = {}

\* What the client's roots do not lead to is lost.
Lost == heap.live \ Reach(heap, roots)

\* An API call that fails for want of memory gives back or frees whatever it
\* had allocated; the only items that can be lost are references that
\* cJSON_AddItemReferenceToObject could not name.
OnlyReferencesLost ==
    \A n \in Lost : n \in heap.isReference /\ heap.string[n] = NULL

\* Every key and value block belongs to exactly one field of one item that
\* will free it, no such field leads to a freed block or to a literal, and a
\* borrowed key is a literal.
StringsOwnedOnce ==
    /\ \A n \in heap.live : \A s \in OwnedStrings(heap, n) :
        s \in Str /\ heap.text[s] # NULL
    /\ \A n \in heap.live :
        OwnedKey(heap, n) = NULL \/ OwnedKey(heap, n) # OwnedValue(heap, n)
    /\ \A m, n \in heap.live : m # n => OwnedStrings(heap, m) \cap OwnedStrings(heap, n) = {}
    /\ \A s \in Str : heap.text[s] # NULL => \E n \in heap.live : s \in OwnedStrings(heap, n)
    /\ \A n \in heap.stringIsConst : heap.string[n] \in Name \cup {NULL}

\* No call frees memory twice, frees a literal or copies a freed key, even
\* when the key argument is the item's own key.
NoFault == ~heap.fault

-----------------------------------------------------------------------------
(* What the header promises.  The children of an item that owns a list are  *)
(* what cJSON_GetArrayItem returns for the indices below cJSON_GetArraySize. *)

ASSUME MemoryAssumption == IsFiniteSet(Node)

ChildSeq(h, p) ==
    IF p \in h.live /\ p \notin h.isReference
    THEN [k \in 1..GetArraySize(h, p) |-> GetArrayItem(h, p, k - 1)]
    ELSE <<>>

Promise == INSTANCE Forest WITH
    Item <- Node, items <- heap.live, held <- roots,
    kids <- [p \in Node |-> ChildSeq(heap, p)]

\* Through any history of calls, failed allocations included, each call has
\* exactly the effect on the order of the children the header describes: an
\* add appends, an insert shifts right, a replacement takes the place of what
\* it replaces, a detach or a deletion closes the gap, and nothing else moves.
ImplementsForest == Promise!Spec
=============================================================================
