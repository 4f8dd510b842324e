----------------------------- MODULE CJsonHeap -----------------------------
(***************************************************************************)
(* The memory cJSON works on (src/model.rs, src/alloc.rs) and the pointer  *)
(* primitives of src/manip.rs, as functions from heaps to heaps.  A heap   *)
(* is a set of allocated nodes with their fields and a set of allocated    *)
(* string blocks.  Client string literals (Name) are pointers that the     *)
(* library never frees.  Freed memory is blanked, so that heaps that differ *)
(* only in it are one state; a pointer that still leads to it shows, its    *)
(* target being no longer allocated.                                       *)
(***************************************************************************)
EXTENDS Naturals, FiniteSets

CONSTANTS
    Node,    \* addresses the allocator can hand out for cJSON nodes
    Str,     \* addresses the allocator can hand out for strings
    Name,    \* string contents; also the client's literals
    Lower,   \* ASCII case folding of a content
    StrLen,  \* strlen of a content
    NULL

ASSUME AddressAssumption ==
    /\ NULL \notin Node /\ NULL \notin Str /\ NULL \notin Name
    /\ Node \cap Str = {} /\ Node \cap Name = {} /\ Str \cap Name = {}
ASSUME LowerAssumption == Lower \in [Name -> Name]

NodePtr == Node \cup {NULL}
StrPtr == Str \cup Name \cup {NULL}
Type == {"Invalid", "Null", "Number", "String", "Array", "Object"}
ContainerType == {"Array", "Object"}

Heap == [live : SUBSET Node,
         next : [Node -> NodePtr],
         prev : [Node -> NodePtr],
         child : [Node -> NodePtr],
         type : [Node -> Type],
         isReference : SUBSET Node,
         stringIsConst : SUBSET Node,
         string : [Node -> StrPtr],
         valuestring : [Node -> StrPtr],
         text : [Str -> Name \cup {NULL}],
         fault : BOOLEAN]

EmptyHeap == [live |-> {},
              next |-> [n \in Node |-> NULL],
              prev |-> [n \in Node |-> NULL],
              child |-> [n \in Node |-> NULL],
              type |-> [n \in Node |-> "Invalid"],
              isReference |-> {},
              stringIsConst |-> {},
              string |-> [n \in Node |-> NULL],
              valuestring |-> [n \in Node |-> NULL],
              text |-> [s \in Str |-> NULL],
              fault |-> FALSE]

-----------------------------------------------------------------------------
(* Reachability.  Closed sets instead of recursion: Reach is the least set   *)
(* that contains S and is closed under the pointers cJSON_Delete follows.    *)

OwnedSucc(h, n) ==
    ({h.next[n]} \cup (IF n \in h.isReference THEN {} ELSE {h.child[n]})) \ {NULL}

Closed(h, C) == \A n \in C : OwnedSucc(h, n) \subseteq C

Reach(h, S) ==
    {n \in Node : \A C \in SUBSET Node : S \subseteq C /\ Closed(h, C) => n \in C}

\* n and everything that a walk along next meets after it
ListClosed(h, C) == \A n \in C : h.next[n] = NULL \/ h.next[n] \in C
ListFrom(h, n) ==
    {m \in Node : \A C \in SUBSET Node : n \in C /\ ListClosed(h, C) => m \in C}

\* the elements a walk over the children of p visits
Members(h, p) == IF h.child[p] = NULL THEN {} ELSE ListFrom(h, h.child[p])

\* get_array_item: index steps along next, stopping at the end of the list
GetArrayItem(h, p, index) ==
    LET at[k \in 0..index] ==
            IF k = 0 THEN h.child[p]
            ELSE IF at[k - 1] = NULL THEN NULL ELSE h.next[at[k - 1]]
    IN  at[index]

\* cJSON_GetArraySize
GetArraySize(h, p) ==
    LET ends == {k \in 0..Cardinality(Node) : GetArrayItem(h, p, k) = NULL}
    IN  CHOOSE k \in ends : \A j \in ends : k <= j

-----------------------------------------------------------------------------
(* Strings *)

Text(h, p) == IF p \in Str THEN h.text[p] ELSE p

Allocated(h, p) == p \in Name \/ (p \in Str /\ h.text[p] # NULL)

FreeStrings(h) == {s \in Str : h.text[s] = NULL}

\* cJSON_strdup into block s; s = NULL when the allocation failed
Strdup(h, s, p) ==
    IF s = NULL THEN h
    ELSE [h EXCEPT !.text[s] = Text(h, p), !.fault = @ \/ ~Allocated(h, p)]

\* cJSON_free of a string: freeing NULL is a no-op, anything but an
\* allocated block is a fault
FreeString(h, p) ==
    IF p = NULL THEN h
    ELSE IF p \in Str /\ h.text[p] # NULL THEN [h EXCEPT !.text[p] = NULL]
    ELSE [h EXCEPT !.fault = TRUE]

\* the string blocks cJSON_Delete frees with node n
OwnedKey(h, n) == IF n \in h.stringIsConst THEN NULL ELSE h.string[n]
OwnedValue(h, n) == IF n \in h.isReference THEN NULL ELSE h.valuestring[n]
OwnedStrings(h, n) == {OwnedKey(h, n), OwnedValue(h, n)} \ {NULL}

-----------------------------------------------------------------------------
(* Nodes *)

FreeNodes(h) == Node \ h.live

\* freed memory is blanked, so that one free address stands for any
FreshNode(h) == CHOOSE n \in FreeNodes(h) : TRUE
FreshStr(h) == CHOOSE s \in FreeStrings(h) : TRUE

\* cJSON_New_Item: a zeroed node of type t; n = NULL when malloc failed
NewItem(h, n, t) ==
    IF n = NULL THEN h
    ELSE [h EXCEPT !.live = @ \cup {n}, !.next[n] = NULL, !.prev[n] = NULL,
                   !.child[n] = NULL, !.type[n] = t,
                   !.isReference = @ \ {n}, !.stringIsConst = @ \ {n},
                   !.string[n] = NULL, !.valuestring[n] = NULL]

\* cJSON_Delete visits every node once and frees every string once
DeleteIsSafe(h, item, D) ==
    /\ D \subseteq h.live
    /\ \A m \in D : item \notin OwnedSucc(h, m)
    /\ \A m \in D : m \in h.isReference \/ h.child[m] = NULL \/ h.next[m] # h.child[m]
    /\ \A m, n \in D : m # n => OwnedSucc(h, m) \cap OwnedSucc(h, n) = {}
    /\ \A n \in D : \A s \in OwnedStrings(h, n) : s \in Str /\ h.text[s] # NULL
    /\ \A n \in D : OwnedKey(h, n) = NULL \/ OwnedKey(h, n) # OwnedValue(h, n)
    /\ \A m, n \in D : m # n => OwnedStrings(h, m) \cap OwnedStrings(h, n) = {}

\* cJSON_Delete(item): frees item, the siblings after it, and below every
\* node that is not a reference, its children
DeleteSet(h, item) == IF item = NULL THEN {} ELSE Reach(h, {item})

Erase(f, D, blank) == [n \in DOMAIN f |-> IF n \in D THEN blank ELSE f[n]]

Delete(h, item) ==
    LET D == DeleteSet(h, item)
        freed == UNION {OwnedStrings(h, n) : n \in D}
    IN  [h EXCEPT !.live = @ \ D,
                  !.next = Erase(@, D, NULL),
                  !.prev = Erase(@, D, NULL),
                  !.child = Erase(@, D, NULL),
                  !.type = Erase(@, D, "Invalid"),
                  !.isReference = @ \ D,
                  !.stringIsConst = @ \ D,
                  !.string = Erase(@, D, NULL),
                  !.valuestring = Erase(@, D, NULL),
                  !.text = Erase(@, freed, NULL),
                  !.fault = @ \/ ~DeleteIsSafe(h, item, D)]

\* cJSON_CreateString; a failed strdup deletes the new node
CreateString(h, n, s, p) ==
    IF n = NULL THEN h
    ELSE IF s = NULL THEN Delete(NewItem(h, n, "String"), n)
    ELSE [Strdup(NewItem(h, n, "String"), s, p) EXCEPT !.valuestring[n] = s]

\* create_reference: a shallow copy of item without its key and its links
CreateReference(h, n, item) ==
    IF n = NULL THEN h
    ELSE [NewItem(h, n, h.type[item]) EXCEPT
            !.child[n] = h.child[item],
            !.valuestring[n] = h.valuestring[item],
            !.isReference = @ \cup {n},
            !.stringIsConst = IF item \in h.stringIsConst THEN @ \cup {n} ELSE @]

-----------------------------------------------------------------------------
(* Lists of children.  The list of p starts at child[p]; prev of its first   *)
(* element points to its last one.                                           *)

\* suffix_object
SuffixObject(h, prv, item) == [h EXCEPT !.next[prv] = item, !.prev[item] = prv]

\* add_item_to_array returns 0 for a NULL item and for array = item
AddItemToArrayAccepts(array, item) == item # NULL /\ array # item

\* faulty variant: prev of the first element is not moved to the new tail
AddItemToArrayStaleTail(h, array, item) ==
    LET first == h.child[array] IN
    IF ~AddItemToArrayAccepts(array, item) THEN h
    ELSE IF first = NULL
    THEN [h EXCEPT !.child[array] = item, !.prev[item] = item, !.next[item] = NULL]
    ELSE SuffixObject(h, h.prev[first], item)

AddItemToArray(h, array, item) ==
    LET first == h.child[array] IN
    IF ~AddItemToArrayAccepts(array, item) THEN h
    ELSE IF first = NULL
    THEN [h EXCEPT !.child[array] = item, !.prev[item] = item, !.next[item] = NULL]
    ELSE IF h.prev[first] = NULL THEN h
    ELSE [SuffixObject(h, h.prev[first], item) EXCEPT !.prev[first] = item]

\* add_item_to_object: s is the block for the copy of the key, NULL when its
\* allocation failed; constKey is the _CS variant, which borrows the pointer
AddItemToObjectAccepts(object, item, s, constKey) ==
    AddItemToArrayAccepts(object, item) /\ (constKey \/ s # NULL)

SetKey(h, item, key, constKey) ==
    [h EXCEPT !.string[item] = key,
              !.stringIsConst = IF constKey THEN @ \cup {item} ELSE @ \ {item}]

\* faulty variant: the old key is overwritten, not freed
AddItemToObjectKeepsOldKey(h, object, key, item, s, constKey) ==
    IF ~AddItemToObjectAccepts(object, item, s, constKey) THEN h
    ELSE LET named == IF constKey THEN h ELSE Strdup(h, s, key)
             newKey == IF constKey THEN key ELSE s
         IN  AddItemToArray(SetKey(named, item, newKey, constKey), object, item)

\* faulty variant: the old key is freed before the new one is copied
AddItemToObjectFreesFirst(h, object, key, item, s, constKey) ==
    IF ~AddItemToObjectAccepts(object, item, s, constKey) THEN h
    ELSE LET clean == FreeString(h, OwnedKey(h, item))
             named == IF constKey THEN clean ELSE Strdup(clean, s, key)
             newKey == IF constKey THEN key ELSE s
         IN  AddItemToArray(SetKey(named, item, newKey, constKey), object, item)

AddItemToObject(h, object, key, item, s, constKey) ==
    IF ~AddItemToObjectAccepts(object, item, s, constKey) THEN h
    ELSE LET named == IF constKey THEN h ELSE Strdup(h, s, key)
             clean == FreeString(named, OwnedKey(h, item))
             newKey == IF constKey THEN key ELSE s
         IN  AddItemToArray(SetKey(clean, item, newKey, constKey), object, item)

\* faulty variant: detaching the last element leaves prev of the first on it
DetachItemStaleTail(h, parent, item) ==
    LET first == item = h.child[parent]
        nxt == h.next[item]
        prv == h.prev[item]
    IN  IF ~first /\ prv = NULL THEN h
        ELSE [h EXCEPT
                !.next = [n \in Node |-> IF n = item THEN NULL
                                         ELSE IF ~first /\ n = prv THEN nxt ELSE @[n]],
                !.prev = [n \in Node |-> IF n = item THEN NULL
                                         ELSE IF n = nxt THEN prv ELSE @[n]],
                !.child[parent] = IF first THEN nxt ELSE @]

\* cJSON_DetachItemViaPointer
DetachItem(h, parent, item) ==
    LET first == item = h.child[parent]
        nxt == h.next[item]
        prv == h.prev[item]
        last == ~first /\ nxt = NULL
    IN  IF ~first /\ prv = NULL THEN h
        ELSE [h EXCEPT
                !.next = [n \in Node |-> IF n = item THEN NULL
                                         ELSE IF ~first /\ n = prv THEN nxt ELSE @[n]],
                !.prev = [n \in Node |-> IF n = item THEN NULL
                                         ELSE IF n = nxt \/ (last /\ n = h.child[parent])
                                         THEN prv ELSE @[n]],
                !.child[parent] = IF first THEN nxt ELSE @]

\* faulty variant: the predecessor keeps its link to the element after
InsertItemInArrayHalfLinked(h, array, after, item) ==
    IF after = NULL THEN AddItemToArray(h, array, item)
    ELSE LET linked == [h EXCEPT !.next[item] = after,
                                 !.prev = [@ EXCEPT ![item] = h.prev[after], ![after] = item]]
         IN  IF after = h.child[array]
             THEN [linked EXCEPT !.child[array] = item] ELSE linked

\* cJSON_InsertItemInArray; after = NULL when the index is past the end
InsertItemInArray(h, array, after, item) ==
    IF after = NULL THEN AddItemToArray(h, array, item)
    ELSE IF after # h.child[array] /\ h.prev[after] = NULL THEN h
    ELSE LET prv == h.prev[after]
             linked == [h EXCEPT !.next[item] = after,
                                 !.prev = [@ EXCEPT ![item] = prv, ![after] = item]]
         IN  IF after = h.child[array]
             THEN [linked EXCEPT !.child[array] = item]
             ELSE [linked EXCEPT !.next[prv] = item]

\* the relinking half of cJSON_ReplaceItemViaPointer
Substitute(h, parent, item, replacement) ==
    LET nxt == h.next[item]
        prv == h.prev[item]
        first == h.child[parent] = item
        only == first /\ prv = item
        last == ~first /\ nxt = NULL
    IN  [h EXCEPT
            !.next = [n \in Node |-> IF n = item THEN NULL
                                     ELSE IF n = replacement THEN nxt
                                     ELSE IF ~first /\ n = prv THEN replacement ELSE @[n]],
            !.prev = [n \in Node |-> IF n = item THEN NULL
                                     ELSE IF n = replacement
                                     THEN (IF only THEN replacement ELSE prv)
                                     ELSE IF n = nxt \/ (last /\ n = h.child[parent])
                                     THEN replacement ELSE @[n]],
            !.child[parent] = IF first THEN replacement ELSE @]

ReplaceItemAccepts(h, parent, item) == h.child[parent] # NULL /\ item # NULL

ReplaceItemViaPointer(h, parent, item, replacement) ==
    IF ~ReplaceItemAccepts(h, parent, item) \/ replacement = item THEN h
    ELSE Delete(Substitute(h, parent, item, replacement), item)

-----------------------------------------------------------------------------
(* get_object_item: the first child with the key; the case-sensitive walk    *)
(* stops at the first child that has no key at all.                          *)

SameKey(h, p, name, caseSensitive) ==
    IF caseSensitive THEN Text(h, p) = name
    ELSE p # NULL /\ Text(h, p) # NULL /\ Lower[Text(h, p)] = Lower[name]

GetObjectItem(h, object, name, caseSensitive) ==
    LET stops == {m \in Members(h, object) :
                    \/ caseSensitive /\ h.string[m] = NULL
                    \/ SameKey(h, h.string[m], name, caseSensitive)}
        found == {m \in stops : stops \subseteq ListFrom(h, m) /\ h.string[m] # NULL}
    IN  IF found = {} THEN NULL ELSE CHOOSE m \in found : TRUE

\* replace_item_in_object renames the replacement before it looks the key up
RenameReplacement(h, replacement, key, s) ==
    LET clean == FreeString(h, OwnedKey(h, replacement))
        copied == Strdup(clean, s, key)
    IN  IF s = NULL THEN [clean EXCEPT !.string[replacement] = NULL]
        ELSE SetKey(copied, replacement, s, FALSE)

\* cJSON_SetValuestring with a literal: in place when it fits, otherwise a
\* copy replaces the old block
SetValuestringAccepts(h, object) ==
    /\ h.type[object] = "String" /\ object \notin h.isReference
    /\ h.valuestring[object] # NULL

FitsInPlace(h, object, name) == StrLen[name] <= StrLen[Text(h, h.valuestring[object])]

SetValuestring(h, object, name, s) ==
    IF FitsInPlace(h, object, name)
    THEN [h EXCEPT !.text[h.valuestring[object]] = name]
    ELSE IF s = NULL THEN h
    ELSE [FreeString(Strdup(h, s, name), h.valuestring[object])
            EXCEPT !.valuestring[object] = s]
=============================================================================
