----------------------------- MODULE ManipStrings -----------------------------
(***************************************************************************)
(* The theorems of Manip about strings: every key and value block has one   *)
(* field that frees it, and no call frees or copies what it must not.       *)
(***************************************************************************)
EXTENDS ManipTheorems

-----------------------------------------------------------------------------
(* The invariant, heap by heap *)

OwnedAllocated(h) ==
    \A n \in h.live : \A s \in OwnedStrings(h, n) : s \in Str /\ h.text[s] # NULL
KeyIsNotValue(h) ==
    \A n \in h.live : OwnedKey(h, n) = NULL \/ OwnedKey(h, n) # OwnedValue(h, n)
OwnedByOne(h) ==
    \A m, n \in h.live : m # n => OwnedStrings(h, m) \cap OwnedStrings(h, n) = {}
NoneLeaked(h) ==
    \A s \in Str : h.text[s] # NULL => \E n \in h.live : s \in OwnedStrings(h, n)
BorrowedKeys(h) == \A n \in h.stringIsConst : h.string[n] \in Name \cup {NULL}

StringsInv(h) ==
    /\ OwnedAllocated(h) /\ KeyIsNotValue(h) /\ OwnedByOne(h)
    /\ NoneLeaked(h) /\ BorrowedKeys(h) /\ ~h.fault

\* The invariant looks at these fields only.
SameStrings(g, h) ==
    /\ g.live = h.live /\ g.isReference = h.isReference
    /\ g.stringIsConst = h.stringIsConst /\ g.string = h.string
    /\ g.valuestring = h.valuestring /\ g.text = h.text /\ g.fault = h.fault

\* A change of links leaves the strings as they are.
LEMMA SameStringsInv ==
    ASSUME NEW h, NEW g, SameStrings(g, h), StringsInv(h)
    PROVE  StringsInv(g)
<1>1. \A n : /\ OwnedKey(g, n) = OwnedKey(h, n) /\ OwnedValue(g, n) = OwnedValue(h, n)
             /\ OwnedStrings(g, n) = OwnedStrings(h, n)
  BY DEF SameStrings, OwnedKey, OwnedValue, OwnedStrings
<1> QED BY <1>1 DEF SameStrings, StringsInv, OwnedAllocated, KeyIsNotValue, OwnedByOne,
                    NoneLeaked, BorrowedKeys

\* What an item owns, if there is one.
OwnedIfLive(h, i) == IF i \in h.live THEN OwnedStrings(h, i) ELSE {}

\* From h to g only what item i owns changes: what it gives up is freed, and
\* what it takes was free before.
Exchanges(h, g, i) ==
    /\ g.live = h.live \cup {i} /\ g.stringIsConst \subseteq g.live /\ ~g.fault
    /\ \A m \in h.live \ {i} :
        /\ OwnedKey(g, m) = OwnedKey(h, m) /\ OwnedValue(g, m) = OwnedValue(h, m)
        /\ m \in g.stringIsConst => m \in h.stringIsConst /\ g.string[m] = h.string[m]
    /\ \A s \in OwnedStrings(g, i) :
        s \in Str /\ g.text[s] # NULL /\ (s \in OwnedIfLive(h, i) \/ h.text[s] = NULL)
    /\ OwnedKey(g, i) = NULL \/ OwnedKey(g, i) # OwnedValue(g, i)
    /\ \A s \in Str \ (OwnedIfLive(h, i) \cup OwnedStrings(g, i)) :
        g.text[s] # NULL <=> h.text[s] # NULL
    /\ \A s \in OwnedIfLive(h, i) \ OwnedStrings(g, i) : g.text[s] = NULL
    /\ i \in g.stringIsConst => g.string[i] \in Name \cup {NULL}

\* Such a change, of a new item or an old one, keeps the invariant.
LEMMA OneItemStrings ==
    ASSUME NEW h, NEW g, NEW i, StringsInv(h), Exchanges(h, g, i)
    PROVE  StringsInv(g)
<1> DEFINE old == OwnedIfLive(h, i)
           new == OwnedStrings(g, i)
<1>w. old = IF i \in h.live THEN OwnedStrings(h, i) ELSE {}
  BY DEF OwnedIfLive
<1>e. /\ g.live = h.live \cup {i} /\ g.stringIsConst \subseteq g.live /\ ~g.fault
      /\ \A m \in h.live \ {i} :
          /\ OwnedStrings(g, m) = OwnedStrings(h, m)
          /\ OwnedKey(g, m) = OwnedKey(h, m) /\ OwnedValue(g, m) = OwnedValue(h, m)
          /\ m \in g.stringIsConst => m \in h.stringIsConst /\ g.string[m] = h.string[m]
      /\ \A s \in new : s \in Str /\ g.text[s] # NULL /\ (s \in old \/ h.text[s] = NULL)
      /\ OwnedKey(g, i) = NULL \/ OwnedKey(g, i) # OwnedValue(g, i)
      /\ \A s \in Str \ (old \cup new) : g.text[s] # NULL <=> h.text[s] # NULL
      /\ \A s \in old \ new : g.text[s] = NULL
      /\ i \in g.stringIsConst => g.string[i] \in Name \cup {NULL}
  BY DEF Exchanges, OwnedStrings
<1> HIDE DEF old, new
<1>n. new = OwnedStrings(g, i)
  BY DEF new
<1>o. \A m \in h.live \ {i} : OwnedStrings(h, m) \cap (old \cup new) = {}
  <2> SUFFICES ASSUME NEW m \in h.live \ {i}, NEW s \in OwnedStrings(h, m), s \in old \cup new
               PROVE  FALSE
    OBVIOUS
  <2>1. s \in Str /\ h.text[s] # NULL
    BY DEF StringsInv, OwnedAllocated
  <2>2. s \in old
    BY <1>e, <2>1
  <2> QED BY <1>w, <2>2 DEF StringsInv, OwnedByOne
<1>1. OwnedAllocated(g)
  <2> SUFFICES ASSUME NEW m \in g.live, NEW s \in OwnedStrings(g, m)
               PROVE  s \in Str /\ g.text[s] # NULL
    BY DEF OwnedAllocated
  <2>1. CASE m = i
    BY <1>e, <1>n, <2>1
  <2>2. CASE m # i
    <3>1. m \in h.live \ {i} /\ s \in OwnedStrings(h, m)
      BY <1>e, <2>2
    <3>2. s \in Str /\ h.text[s] # NULL /\ s \notin old \cup new
      BY <1>o, <3>1 DEF StringsInv, OwnedAllocated
    <3> QED BY <1>e, <2>2, <3>2
  <2> QED BY <2>1, <2>2
<1>2. KeyIsNotValue(g)
  BY <1>e DEF StringsInv, KeyIsNotValue
<1>3. OwnedByOne(g)
  BY <1>e, <1>n, <1>o DEF StringsInv, OwnedByOne
<1>4. NoneLeaked(g)
  <2> SUFFICES ASSUME NEW s \in Str, g.text[s] # NULL
               PROVE  \E n \in g.live : s \in OwnedStrings(g, n)
    BY DEF NoneLeaked
  <2>1. CASE s \in new
    BY <1>e, <1>n, <2>1
  <2>2. CASE s \notin new
    <3>1. s \notin old /\ h.text[s] # NULL
      BY <1>e, <2>2
    <3>2. PICK n \in h.live : s \in OwnedStrings(h, n)
      BY <3>1 DEF StringsInv, NoneLeaked
    <3>3. n # i
      BY <1>w, <3>1, <3>2
    <3> QED BY <1>e, <3>2, <3>3
  <2> QED BY <2>1, <2>2
<1>5. BorrowedKeys(g)
  BY <1>e DEF StringsInv, BorrowedKeys
<1> QED BY <1>1, <1>2, <1>3, <1>4, <1>5, <1>e DEF StringsInv

-----------------------------------------------------------------------------
(* Links: the primitives on lists touch no string *)

\* add_item_to_array, accepted or refused.
LEMMA AddItemToArrayStrings ==
    ASSUME NEW h \in Heap, NEW p, NEW i
    PROVE  SameStrings(AddItemToArray(h, p, i), h)
BY DEF AddItemToArray, SuffixObject, SameStrings, Heap

\* cJSON_DetachItemViaPointer.
LEMMA DetachItemStrings ==
    ASSUME NEW h \in Heap, NEW p, NEW i
    PROVE  SameStrings(DetachItem(h, p, i), h)
BY DEF DetachItem, SameStrings, Heap

\* cJSON_InsertItemInArray.
LEMMA InsertItemStrings ==
    ASSUME NEW h \in Heap, NEW p, NEW after, NEW i
    PROVE  SameStrings(InsertItemInArray(h, p, after, i), h)
<1>1. CASE after = NULL
  BY <1>1, AddItemToArrayStrings DEF InsertItemInArray
<1>2. CASE after # NULL
  BY <1>2 DEF InsertItemInArray, SameStrings, Heap
<1> QED BY <1>1, <1>2

\* The relinking of cJSON_ReplaceItemViaPointer.
LEMMA SubstituteStrings ==
    ASSUME NEW h \in Heap, NEW p, NEW i, NEW r
    PROVE  SameStrings(Substitute(h, p, i, r), h)
BY DEF Substitute, SameStrings, Heap

-----------------------------------------------------------------------------
(* Copying and freeing strings *)

\* The fields that are no string blocks, untouched.
SameItems(g, h) ==
    /\ g.live = h.live /\ g.isReference = h.isReference
    /\ g.stringIsConst = h.stringIsConst /\ g.string = h.string
    /\ g.valuestring = h.valuestring

\* cJSON_strdup of a string that is there.
LEMMA StrdupFields ==
    ASSUME NEW h \in Heap, NEW s \in Str, NEW p \in StrPtr, Allocated(h, p)
    PROVE  LET g == Strdup(h, s, p)
           IN  /\ SameItems(g, h) /\ g.fault = h.fault
               /\ g.text[s] # NULL /\ \A x \in Str \ {s} : g.text[x] = h.text[x]
<1>1. Text(h, p) # NULL
  BY AddressAssumption DEF Allocated, Text
<1>2. s # NULL /\ h.text \in [Str -> Name \cup {NULL}]
  BY AddressAssumption DEF Heap
<1> DEFINE tx == [h.text EXCEPT ![s] = Text(h, p)]
<1>3. tx[s] # NULL /\ \A x \in Str \ {s} : tx[x] = h.text[x]
  BY <1>1, <1>2
<1>4. Strdup(h, s, p) = [h EXCEPT !.text = tx, !.fault = h.fault \/ ~Allocated(h, p)]
  BY <1>2 DEF Strdup, Heap
<1> HIDE DEF tx
<1>5. (h.fault \/ ~Allocated(h, p)) = h.fault
  BY DEF Heap
<1> QED BY <1>3, <1>4, <1>5 DEF SameItems, Heap

\* cJSON_free of a block that is there, or of NULL.
LEMMA FreeStringFields ==
    ASSUME NEW h \in Heap, NEW p, p # NULL => p \in Str /\ h.text[p] # NULL
    PROVE  LET g == FreeString(h, p)
           IN  /\ SameItems(g, h) /\ g.fault = h.fault
               /\ p # NULL => g.text[p] = NULL
               /\ \A x \in Str : x # p => g.text[x] = h.text[x]
<1>1. CASE p = NULL
  BY <1>1 DEF FreeString, SameItems
<1>2. CASE p # NULL
  <2>1. h.text \in [Str -> Name \cup {NULL}]
    BY DEF Heap
  <2>2. FreeString(h, p) = [h EXCEPT !.text = [h.text EXCEPT ![p] = NULL]]
    BY <1>2 DEF FreeString, Heap
  <2> QED BY <1>2, <2>1, <2>2 DEF SameItems, Heap
<1> QED BY <1>1, <1>2

\* The key of an item and its value can be freed.
LEMMA OwnedFacts ==
    ASSUME NEW h \in Heap, StringsInv(h), NEW i \in h.live
    PROVE  /\ OwnedKey(h, i) \in StrPtr /\ OwnedValue(h, i) \in StrPtr
           /\ OwnedKey(h, i) # NULL =>
                OwnedKey(h, i) \in Str /\ h.text[OwnedKey(h, i)] # NULL
           /\ OwnedValue(h, i) # NULL =>
                OwnedValue(h, i) \in Str /\ h.text[OwnedValue(h, i)] # NULL
           /\ OwnedKey(h, i) = NULL \/ OwnedKey(h, i) # OwnedValue(h, i)
<1>1. OwnedKey(h, i) \in StrPtr /\ OwnedValue(h, i) \in StrPtr
  BY DEF OwnedKey, OwnedValue, StrPtr, Heap
<1> QED BY <1>1 DEF StringsInv, OwnedAllocated, KeyIsNotValue, OwnedStrings

\* A key argument, a literal or the item's own key, can be read.
LEMMA KeyArgFacts ==
    ASSUME NEW h \in Heap, StringsInv(h), NEW i \in h.live,
           NEW key \in Name \cup ({h.string[i]} \ {NULL})
    PROVE  key \in StrPtr /\ Allocated(h, key)
<1>1. key \in StrPtr
  BY DEF StrPtr, Heap
<1>2. CASE key \in Name
  BY <1>1, <1>2 DEF Allocated
<1>3. CASE key = h.string[i] /\ key # NULL /\ i \in h.stringIsConst
  <2>1. key \in Name
    BY <1>3 DEF StringsInv, BorrowedKeys
  <2> QED BY <1>1, <2>1 DEF Allocated
<1>4. CASE key = h.string[i] /\ key # NULL /\ i \notin h.stringIsConst
  <2>1. key = OwnedKey(h, i)
    BY <1>4 DEF OwnedKey
  <2> QED BY <1>1, <1>4, <2>1, OwnedFacts DEF Allocated
<1> QED BY <1>2, <1>3, <1>4

\* An item gets another key, a fresh copy or a literal, and the old one is freed.
LEMMA RekeyStrings ==
    ASSUME NEW h \in Heap, StringsInv(h), NEW i \in h.live, i \in Node,
           h.stringIsConst \subseteq h.live,
           NEW g \in Heap,
           g.live = h.live, g.isReference = h.isReference,
           g.valuestring = h.valuestring, g.fault = h.fault,
           NEW key \in StrPtr, g.string = [h.string EXCEPT ![i] = key],
           \/ /\ key \in Name \cup {NULL}
              /\ g.stringIsConst = h.stringIsConst \cup {i}
           \/ /\ key = NULL /\ g.stringIsConst = h.stringIsConst
           \/ /\ key \in Str /\ g.text[key] # NULL
              /\ h.text[key] = NULL
              /\ g.stringIsConst = h.stringIsConst \ {i},
           \A x \in Str \ {key} :
               g.text[x] = IF x = OwnedKey(h, i) THEN NULL ELSE h.text[x]
    PROVE  StringsInv(g)
<1> DEFINE old == OwnedStrings(h, i)
           new == OwnedStrings(g, i)
<1>h. h.string \in [Node -> StrPtr] /\ h.live \subseteq Node
  BY DEF Heap
<1>1. \A m \in h.live \ {i} :
        /\ m \in g.stringIsConst <=> m \in h.stringIsConst
        /\ g.string[m] = h.string[m]
  BY <1>h
<1>2. \A m \in h.live \ {i} :
        /\ OwnedKey(g, m) = OwnedKey(h, m) /\ OwnedValue(g, m) = OwnedValue(h, m)
        /\ OwnedStrings(g, m) = OwnedStrings(h, m)
  BY <1>1 DEF OwnedKey, OwnedValue, OwnedStrings
<1>3. /\ OwnedValue(g, i) = OwnedValue(h, i) /\ g.string[i] = key
      /\ OwnedKey(g, i) = IF key \in Str THEN key ELSE NULL
      /\ i \in g.stringIsConst => g.string[i] \in Name \cup {NULL}
  BY <1>h, AddressAssumption DEF OwnedKey, OwnedValue
<1>4. /\ OwnedKey(h, i) # NULL =>
           OwnedKey(h, i) \in Str /\ h.text[OwnedKey(h, i)] # NULL
      /\ OwnedValue(h, i) # NULL =>
           OwnedValue(h, i) \in Str /\ h.text[OwnedValue(h, i)] # NULL
      /\ OwnedKey(h, i) = NULL \/ OwnedKey(h, i) # OwnedValue(h, i)
  BY OwnedFacts
<1>k. key \in Str => g.text[key] # NULL /\ h.text[key] = NULL
  BY AddressAssumption
<1>5. OwnedKey(g, i) = NULL \/ OwnedKey(g, i) # OwnedValue(g, i)
  BY <1>3, <1>4, <1>k
<1>6. /\ old = {OwnedKey(h, i), OwnedValue(h, i)} \ {NULL}
      /\ new = {OwnedKey(g, i), OwnedValue(h, i)} \ {NULL}
  BY <1>3 DEF OwnedStrings
<1>x. \A x \in Str : x # key => g.text[x] = IF x = OwnedKey(h, i) THEN NULL ELSE h.text[x]
  OBVIOUS
<1>7. \A s \in new : s \in Str /\ g.text[s] # NULL /\ (s \in old \/ h.text[s] = NULL)
  <2> SUFFICES ASSUME NEW s \in new
               PROVE  s \in Str /\ g.text[s] # NULL /\ (s \in old \/ h.text[s] = NULL)
    OBVIOUS
  <2>1. CASE s = OwnedKey(g, i)
    BY <1>3, <1>6, <1>k, <2>1
  <2>2. CASE s = OwnedValue(h, i)
    BY <1>3, <1>4, <1>6, <1>k, <1>x, <2>2
  <2> QED BY <1>6, <2>1, <2>2
<1>8. \A s \in Str \ (old \cup new) : g.text[s] # NULL <=> h.text[s] # NULL
  BY <1>3, <1>6, <1>x, AddressAssumption
<1>9. \A s \in old \ new : g.text[s] = NULL
  BY <1>3, <1>4, <1>6, <1>k, <1>x
<1>10. g.stringIsConst \subseteq g.live /\ g.live = h.live \cup {i} /\ ~g.fault
  BY DEF StringsInv
<1>11. OwnedIfLive(h, i) = old
  BY DEF OwnedIfLive
<1>13. \A m \in h.live \ {i} :
         /\ OwnedKey(g, m) = OwnedKey(h, m) /\ OwnedValue(g, m) = OwnedValue(h, m)
         /\ m \in g.stringIsConst => m \in h.stringIsConst /\ g.string[m] = h.string[m]
  BY <1>1, <1>2
<1>14. i \in g.stringIsConst => g.string[i] \in Name \cup {NULL}
  BY <1>3
<1>15. Exchanges(h, g, i)
  BY <1>5, <1>7, <1>8, <1>9, <1>10, <1>11, <1>13, <1>14 DEF Exchanges
<1> QED BY <1>15, OneItemStrings

-----------------------------------------------------------------------------
(* New items *)

\* An item that joins the heap and owns no string.
LEMMA OwnsNothingStrings ==
    ASSUME NEW h \in Heap, StringsInv(h), NEW g \in Heap, NEW n \in Node \ h.live,
           g.live = h.live \cup {n}, g.text = h.text, g.fault = h.fault,
           g.string = [h.string EXCEPT ![n] = NULL],
           \A m \in h.live :
               /\ g.valuestring[m] = h.valuestring[m]
               /\ m \in g.isReference <=> m \in h.isReference
               /\ m \in g.stringIsConst <=> m \in h.stringIsConst,
           g.stringIsConst \subseteq g.live,
           n \in g.isReference \/ g.valuestring[n] = NULL
    PROVE  StringsInv(g)
<1>1. \A m \in h.live \ {n} : g.string[m] = h.string[m]
  BY DEF Heap
<1>2. g.string[n] = NULL
  BY DEF Heap
<1>3. OwnedKey(g, n) = NULL /\ OwnedStrings(g, n) = {} /\ OwnedIfLive(h, n) = {}
  BY <1>2 DEF OwnedKey, OwnedValue, OwnedStrings, OwnedIfLive
<1>4. \A m \in h.live \ {n} :
        /\ OwnedKey(g, m) = OwnedKey(h, m) /\ OwnedValue(g, m) = OwnedValue(h, m)
        /\ m \in g.stringIsConst => m \in h.stringIsConst /\ g.string[m] = h.string[m]
  BY <1>1 DEF OwnedKey, OwnedValue
<1>5. Exchanges(h, g, n)
  BY <1>2, <1>3, <1>4 DEF Exchanges, StringsInv
<1> QED BY <1>5, OneItemStrings

\* The fields of a zeroed item that are about strings.
LEMMA NewItemFields ==
    ASSUME NEW h \in Heap, NEW n \in Node, NEW t \in Type
    PROVE  LET g == NewItem(h, n, t)
           IN  /\ g \in Heap /\ g.live = h.live \cup {n}
               /\ g.isReference = h.isReference \ {n}
               /\ g.stringIsConst = h.stringIsConst \ {n}
               /\ g.string = [h.string EXCEPT ![n] = NULL]
               /\ g.valuestring = [h.valuestring EXCEPT ![n] = NULL]
               /\ g.text = h.text /\ g.fault = h.fault
<1>1. n # NULL
  BY AddressAssumption
<1>2. NewItem(h, n, t) \in Heap
  BY NewItemHeap
<1>3. LET g == NewItem(h, n, t)
      IN  /\ g.live = h.live \cup {n}
          /\ g.isReference = h.isReference \ {n}
          /\ g.stringIsConst = h.stringIsConst \ {n}
          /\ g.string = [h.string EXCEPT ![n] = NULL]
          /\ g.valuestring = [h.valuestring EXCEPT ![n] = NULL]
          /\ g.text = h.text /\ g.fault = h.fault
  BY <1>1 DEF NewItem, Heap
<1> QED BY <1>2, <1>3

\* cJSON_New_Item.
LEMMA NewItemStrings ==
    ASSUME NEW h, NEW R, LinksInv(h, R), StringsInv(h), NEW n \in Node \ h.live, NEW t \in Type
    PROVE  StringsInv(NewItem(h, n, t))
<1> DEFINE g == NewItem(h, n, t)
<1>1. h \in Heap /\ h.stringIsConst \subseteq h.live
  BY DEF LinksInv, HeapOK
<1>2. /\ g \in Heap /\ g.live = h.live \cup {n}
      /\ g.isReference = h.isReference \ {n}
      /\ g.stringIsConst = h.stringIsConst \ {n}
      /\ g.string = [h.string EXCEPT ![n] = NULL]
      /\ g.valuestring = [h.valuestring EXCEPT ![n] = NULL]
      /\ g.text = h.text /\ g.fault = h.fault
  BY <1>1, NewItemFields
<1> HIDE DEF g
<1>3. /\ \A m \in h.live :
           /\ g.valuestring[m] = h.valuestring[m]
           /\ m \in g.isReference <=> m \in h.isReference
           /\ m \in g.stringIsConst <=> m \in h.stringIsConst
      /\ g.stringIsConst \subseteq g.live
      /\ n \in g.isReference \/ g.valuestring[n] = NULL
  BY <1>1, <1>2 DEF Heap
<1>4. StringsInv(g)
  BY <1>1, <1>2, <1>3, OwnsNothingStrings
<1> QED BY <1>4 DEF g

\* A reference borrows its value and has no key.
LEMMA ReferenceItemStrings ==
    ASSUME NEW h, NEW R, LinksInv(h, R), StringsInv(h), NEW n \in Node \ h.live,
           NEW t \in Type, NEW c \in NodePtr, NEW v \in StrPtr, NEW K \in SUBSET {n}
    PROVE  StringsInv(ReferenceItem(h, n, t, c, v, K))
<1> DEFINE b == NewItem(h, n, t)
           g == ReferenceItem(h, n, t, c, v, K)
<1>1. h \in Heap /\ h.stringIsConst \subseteq h.live
  BY DEF LinksInv, HeapOK
<1>2. /\ b \in Heap /\ b.live = h.live \cup {n}
      /\ b.isReference = h.isReference \ {n}
      /\ b.stringIsConst = h.stringIsConst \ {n}
      /\ b.string = [h.string EXCEPT ![n] = NULL]
      /\ b.valuestring = [h.valuestring EXCEPT ![n] = NULL]
      /\ b.text = h.text /\ b.fault = h.fault
  BY <1>1, NewItemFields
<1> HIDE DEF b
<1>3. /\ g.live = b.live /\ g.string = b.string /\ g.text = b.text /\ g.fault = b.fault
      /\ g.isReference = b.isReference \cup {n}
      /\ g.stringIsConst = b.stringIsConst \cup K
      /\ g.valuestring = [b.valuestring EXCEPT ![n] = v]
  BY <1>2 DEF ReferenceItem, b, Heap
<1>4. g \in Heap
  BY <1>1, ReferenceItemHeap
<1> HIDE DEF g
<1>5. /\ \A m \in h.live :
           /\ g.valuestring[m] = h.valuestring[m]
           /\ m \in g.isReference <=> m \in h.isReference
           /\ m \in g.stringIsConst <=> m \in h.stringIsConst
      /\ g.stringIsConst \subseteq g.live
      /\ n \in g.isReference \/ g.valuestring[n] = NULL
  BY <1>1, <1>2, <1>3 DEF Heap
<1>6. StringsInv(g)
  BY <1>1, <1>2, <1>3, <1>4, <1>5, OwnsNothingStrings
<1> QED BY <1>6 DEF g

\* create_reference.
LEMMA CreateReferenceStrings ==
    ASSUME NEW h, NEW R, LinksInv(h, R), StringsInv(h),
           NEW n \in Node \ h.live, NEW item \in h.live
    PROVE  StringsInv(CreateReference(h, n, item))
<1>1. h \in Heap /\ item \in Node
  BY DEF LinksInv, HeapOK, Heap
<1>2. PICK t \in Type, c \in NodePtr, v \in StrPtr, K \in SUBSET {n} :
        CreateReference(h, n, item) = ReferenceItem(h, n, t, c, v, K)
  BY <1>1, CreateReferenceIsItem
<1>3. StringsInv(ReferenceItem(h, n, t, c, v, K))
  BY ReferenceItemStrings
<1> QED BY <1>2, <1>3

\* cJSON_CreateString with enough memory: the copy belongs to the new item.
LEMMA CreateStringStrings ==
    ASSUME NEW h, NEW R, LinksInv(h, R), StringsInv(h), NEW n \in Node \ h.live,
           NEW s \in FreeStrings(h), NEW p \in Name
    PROVE  StringsInv(CreateString(h, n, s, p))
<1> DEFINE b == NewItem(h, n, "String")
           d == Strdup(b, s, p)
           g == CreateString(h, n, s, p)
<1>1. /\ h \in Heap /\ h.stringIsConst \subseteq h.live /\ "String" \in Type /\ p \in StrPtr
      /\ s \in Str /\ h.text[s] = NULL /\ n # NULL /\ s # NULL
  BY AddressAssumption DEF LinksInv, HeapOK, Type, StrPtr, FreeStrings
<1>2. StringsInv(b)
  BY <1>1, NewItemStrings
<1>3. /\ b \in Heap /\ b.live = h.live \cup {n}
      /\ b.stringIsConst = h.stringIsConst \ {n}
      /\ b.isReference = h.isReference \ {n}
      /\ b.string = [h.string EXCEPT ![n] = NULL]
      /\ b.valuestring = [h.valuestring EXCEPT ![n] = NULL]
      /\ b.text = h.text /\ b.fault = h.fault
  BY <1>1, NewItemFields
<1>4. g = [d EXCEPT !.valuestring = [d.valuestring EXCEPT ![n] = s]]
  BY <1>1 DEF CreateString
<1>5. g \in Heap
  BY <1>1, CreateStringHeap
<1> HIDE DEF b, g
<1>6. Allocated(b, p)
  BY DEF Allocated
<1>7. /\ d \in Heap /\ SameItems(d, b) /\ d.fault = b.fault
      /\ d.text[s] # NULL /\ \A x \in Str \ {s} : d.text[x] = b.text[x]
  BY <1>1, <1>3, <1>6, StrdupHeap, StrdupFields
<1> HIDE DEF d
<1>8. /\ g.live = b.live /\ g.string = b.string /\ g.fault = b.fault
      /\ g.isReference = b.isReference /\ g.stringIsConst = b.stringIsConst
      /\ g.text = d.text /\ g.valuestring = [b.valuestring EXCEPT ![n] = s]
  BY <1>4, <1>7 DEF SameItems, Heap
<1>9. /\ OwnedKey(g, n) = NULL /\ OwnedStrings(g, n) = {s}
      /\ OwnedIfLive(b, n) = {} /\ n \notin g.stringIsConst
  <2>1. g.string[n] = NULL /\ g.valuestring[n] = s /\ b.string[n] = NULL
        /\ b.valuestring[n] = NULL /\ n \notin g.isReference /\ n \notin b.isReference
    BY <1>1, <1>3, <1>8 DEF Heap
  <2> QED BY <1>1, <1>3, <1>8, <2>1 DEF OwnedKey, OwnedValue, OwnedStrings, OwnedIfLive
<1>10. \A m \in b.live \ {n} :
         /\ OwnedKey(g, m) = OwnedKey(b, m) /\ OwnedValue(g, m) = OwnedValue(b, m)
         /\ m \in g.stringIsConst => m \in b.stringIsConst /\ g.string[m] = b.string[m]
  <2>1. \A m \in b.live \ {n} : g.valuestring[m] = b.valuestring[m]
    BY <1>3, <1>8 DEF Heap
  <2> QED BY <1>8, <2>1 DEF OwnedKey, OwnedValue
<1>11. Exchanges(b, g, n)
  <2>1. b.live \cup {n} = b.live /\ b.stringIsConst \subseteq b.live /\ ~b.fault
    BY <1>1, <1>2, <1>3 DEF StringsInv
  <2> QED BY <1>1, <1>3, <1>7, <1>8, <1>9, <1>10, <2>1 DEF Exchanges
<1>12. StringsInv(g)
  BY <1>2, <1>11, OneItemStrings
<1> QED BY <1>12 DEF g

-----------------------------------------------------------------------------
(* Keys and values *)

\* add_item_to_object: the copy of the key is the item's, and the old key is
\* freed after the new one has been copied, even from the old one itself.
LEMMA AddItemToObjectStrings ==
    ASSUME NEW h, NEW R, LinksInv(h, R), StringsInv(h), NEW p, NEW i \in R,
           NEW s \in FreeStrings(h) \cup {NULL}, NEW c \in BOOLEAN,
           NEW key \in Name \cup ({h.string[i]} \ {NULL}), c => key \in Name
    PROVE  StringsInv(AddItemToObject(h, p, key, i, s, c))
<1>1. CASE ~AddItemToObjectAccepts(p, i, s, c)
  BY <1>1 DEF AddItemToObject
<1>2. CASE AddItemToObjectAccepts(p, i, s, c)
  <2> DEFINE named == IF c THEN h ELSE Strdup(h, s, key)
             clean == FreeString(named, OwnedKey(h, i))
             newKey == IF c THEN key ELSE s
             set == SetKey(clean, i, newKey, c)
  <2>1. h \in Heap /\ i \in h.live /\ i \in Node /\ h.stringIsConst \subseteq h.live
    BY RootLinks DEF LinksInv, HeapOK
  <2>2. key \in StrPtr /\ Allocated(h, key)
    BY <2>1, KeyArgFacts
  <2>3. ~c => s \in Str /\ h.text[s] = NULL
    BY <1>2 DEF AddItemToObjectAccepts, FreeStrings
  <2>4. /\ named \in Heap /\ SameItems(named, h) /\ named.fault = h.fault
        /\ ~c => named.text[s] # NULL
        /\ \A x \in Str : c \/ x # s => named.text[x] = h.text[x]
    <3>1. CASE c
      BY <2>1, <3>1 DEF SameItems
    <3>2. CASE ~c
      <4>1. s \in Str /\ s \in Str \cup {NULL}
        BY <2>3, <3>2
      <4> QED BY <2>1, <2>2, <3>2, <4>1, StrdupHeap, StrdupFields
    <3> QED BY <3>1, <3>2
  <2> HIDE DEF named
  <2>5. /\ OwnedKey(h, i) \in StrPtr
        /\ OwnedKey(h, i) # NULL =>
             OwnedKey(h, i) \in Str /\ h.text[OwnedKey(h, i)] # NULL
    BY <2>1, OwnedFacts
  <2>6. OwnedKey(h, i) # NULL =>
          OwnedKey(h, i) \in Str /\ named.text[OwnedKey(h, i)] # NULL
    BY <2>3, <2>4, <2>5
  <2>7. /\ clean \in Heap /\ SameItems(clean, named) /\ clean.fault = named.fault
        /\ OwnedKey(h, i) # NULL => clean.text[OwnedKey(h, i)] = NULL
        /\ \A x \in Str : x # OwnedKey(h, i) => clean.text[x] = named.text[x]
    BY <2>4, <2>5, <2>6, FreeStringHeap, FreeStringFields
  <2> HIDE DEF clean
  <2>8. newKey \in StrPtr
    BY <2>2, <2>3 DEF StrPtr
  <2> HIDE DEF newKey
  <2>9. /\ set.live = clean.live /\ set.isReference = clean.isReference
        /\ set.valuestring = clean.valuestring /\ set.text = clean.text
        /\ set.fault = clean.fault
        /\ set.string = [clean.string EXCEPT ![i] = newKey]
        /\ set.stringIsConst = IF c THEN clean.stringIsConst \cup {i}
                               ELSE clean.stringIsConst \ {i}
    <3>1. clean \in Heap
      BY <2>7
    <3> HIDE DEF set
    <3>2. set = SetKey(clean, i, newKey, c)
      BY DEF set
    <3> QED BY <3>1, <3>2 DEF SetKey, Heap
  <2>10. set \in Heap
    BY <2>1, <2>7, <2>8, SetKeyHeap
  <2> HIDE DEF set
  <2>11. \/ /\ newKey \in Name \cup {NULL}
            /\ set.stringIsConst = h.stringIsConst \cup {i}
         \/ /\ newKey \in Str /\ set.text[newKey] # NULL
            /\ h.text[newKey] = NULL
            /\ set.stringIsConst = h.stringIsConst \ {i}
    <3>1. CASE c
      BY <2>4, <2>7, <2>9, <3>1 DEF SameItems, newKey
    <3>2. CASE ~c
      <4>1. newKey = s /\ s \in Str /\ h.text[s] = NULL /\ named.text[s] # NULL
        BY <2>3, <2>4, <3>2 DEF newKey
      <4>2. s # OwnedKey(h, i)
        BY <2>5, <4>1, AddressAssumption
      <4> QED BY <2>4, <2>7, <2>9, <3>2, <4>1, <4>2 DEF SameItems
    <3> QED BY <3>1, <3>2
  <2>12. \A x \in Str \ {newKey} :
           set.text[x] = IF x = OwnedKey(h, i) THEN NULL ELSE h.text[x]
    <3> SUFFICES ASSUME NEW x \in Str, x # newKey
                 PROVE  set.text[x] = IF x = OwnedKey(h, i) THEN NULL ELSE h.text[x]
      OBVIOUS
    <3>1. named.text[x] = h.text[x]
      BY <2>4 DEF newKey
    <3> QED BY <2>7, <2>9, <3>1, AddressAssumption
  <2>13. /\ set.live = h.live /\ set.isReference = h.isReference
         /\ set.valuestring = h.valuestring /\ set.fault = h.fault
         /\ set.string = [h.string EXCEPT ![i] = newKey]
    BY <2>4, <2>7, <2>9 DEF SameItems
  <2>14. StringsInv(set)
    BY <2>1, <2>8, <2>10, <2>11, <2>12, <2>13, RekeyStrings
  <2>15. AddItemToObject(h, p, key, i, s, c) = AddItemToArray(set, p, i)
    BY <1>2 DEF AddItemToObject, set, clean, newKey, named
  <2> QED BY <2>10, <2>14, <2>15, AddItemToArrayStrings, SameStringsInv
<1> QED BY <1>1, <1>2

\* replace_item_in_object frees the old key before it copies the new one, which
\* is safe for a literal.
LEMMA RenameStrings ==
    ASSUME NEW h, NEW R, LinksInv(h, R), StringsInv(h), NEW r \in R,
           NEW key \in Name, NEW s \in FreeStrings(h) \cup {NULL}
    PROVE  StringsInv(RenameReplacement(h, r, key, s))
<1> DEFINE clean == FreeString(h, OwnedKey(h, r))
           copied == Strdup(clean, s, key)
           g == RenameReplacement(h, r, key, s)
<1>1. /\ h \in Heap /\ r \in h.live /\ r \in Node /\ h.stringIsConst \subseteq h.live
      /\ key \in StrPtr /\ NULL \in StrPtr
  BY RootLinks DEF LinksInv, HeapOK, StrPtr
<1>2. /\ OwnedKey(h, r) \in StrPtr
      /\ OwnedKey(h, r) # NULL =>
           OwnedKey(h, r) \in Str /\ h.text[OwnedKey(h, r)] # NULL
  BY <1>1, OwnedFacts
<1>3. /\ clean \in Heap /\ SameItems(clean, h) /\ clean.fault = h.fault
      /\ OwnedKey(h, r) # NULL => clean.text[OwnedKey(h, r)] = NULL
      /\ \A x \in Str : x # OwnedKey(h, r) => clean.text[x] = h.text[x]
  BY <1>1, <1>2, FreeStringHeap, FreeStringFields
<1> HIDE DEF clean
<1>4. CASE s = NULL
  <2> DEFINE sg == [clean.string EXCEPT ![r] = NULL]
  <2>1. sg \in [Node -> StrPtr] /\ sg = [h.string EXCEPT ![r] = NULL]
    BY <1>1, <1>3 DEF SameItems, Heap
  <2>2. g = [clean EXCEPT !.string = sg]
    BY <1>3, <1>4 DEF RenameReplacement, clean, Heap
  <2> HIDE DEF sg
  <2>3. clean \in Heap
    BY <1>3
  <2>4. /\ g \in Heap /\ g.live = clean.live /\ g.isReference = clean.isReference
        /\ g.stringIsConst = clean.stringIsConst /\ g.string = sg
        /\ g.valuestring = clean.valuestring /\ g.text = clean.text
        /\ g.fault = clean.fault
    BY <2>1, <2>2, <2>3 DEF Heap
  <2> HIDE DEF g
  <2>5. /\ g.live = h.live /\ g.isReference = h.isReference
        /\ g.valuestring = h.valuestring /\ g.fault = h.fault
        /\ g.string = [h.string EXCEPT ![r] = NULL]
        /\ g.stringIsConst = h.stringIsConst
    BY <1>3, <2>1, <2>4 DEF SameItems
  <2>6. \A x \in Str \ {NULL} :
          g.text[x] = IF x = OwnedKey(h, r) THEN NULL ELSE h.text[x]
    BY <1>3, <2>4
  <2>7. StringsInv(g)
    BY <1>1, <2>4, <2>5, <2>6, RekeyStrings
  <2> QED BY <2>7 DEF g
<1>5. CASE s # NULL
  <2>1. s \in Str /\ h.text[s] = NULL /\ s \in Str \cup {NULL} /\ s \in StrPtr
        /\ FALSE \in BOOLEAN
    BY <1>5 DEF FreeStrings, StrPtr
  <2>2. Allocated(clean, key)
    BY DEF Allocated
  <2>3. /\ copied \in Heap /\ SameItems(copied, clean) /\ copied.fault = clean.fault
        /\ copied.text[s] # NULL /\ \A x \in Str \ {s} : copied.text[x] = clean.text[x]
    BY <1>1, <1>3, <2>1, <2>2, StrdupHeap, StrdupFields
  <2> HIDE DEF copied
  <2> DEFINE set == SetKey(copied, r, s, FALSE)
  <2>4. /\ set.live = copied.live /\ set.isReference = copied.isReference
        /\ set.valuestring = copied.valuestring /\ set.text = copied.text
        /\ set.fault = copied.fault
        /\ set.string = [copied.string EXCEPT ![r] = s]
        /\ set.stringIsConst = copied.stringIsConst \ {r}
    <3>1. copied \in Heap
      BY <2>3
    <3> HIDE DEF set
    <3>2. set = SetKey(copied, r, s, FALSE)
      BY DEF set
    <3> QED BY <3>1, <3>2 DEF SetKey, Heap
  <2>5. set \in Heap
    BY <1>1, <2>1, <2>3, SetKeyHeap
  <2>6. g = set
    BY <1>5 DEF RenameReplacement, clean, copied
  <2> HIDE DEF set
  <2>7. /\ set.live = h.live /\ set.isReference = h.isReference
        /\ set.valuestring = h.valuestring /\ set.fault = h.fault
        /\ set.string = [h.string EXCEPT ![r] = s]
        /\ set.stringIsConst = h.stringIsConst \ {r} /\ set.text[s] # NULL
    BY <1>3, <2>3, <2>4 DEF SameItems
  <2>8. \A x \in Str \ {s} :
          set.text[x] = IF x = OwnedKey(h, r) THEN NULL ELSE h.text[x]
    BY <1>2, <1>3, <2>3, <2>4, AddressAssumption
  <2>9. StringsInv(set)
    BY <1>1, <2>1, <2>5, <2>7, <2>8, RekeyStrings
  <2> QED BY <2>6, <2>9
<1> QED BY <1>4, <1>5

\* cJSON_SetValuestring: in place, or a copy for the old block.
LEMMA SetValuestringStrings ==
    ASSUME NEW h, NEW R, LinksInv(h, R), StringsInv(h), NEW i \in h.live,
           NEW name \in Name, NEW s \in FreeStrings(h) \cup {NULL},
           SetValuestringAccepts(h, i)
    PROVE  StringsInv(SetValuestring(h, i, name, s))
<1> DEFINE g == SetValuestring(h, i, name, s)
           v == h.valuestring[i]
<1>1. /\ h \in Heap /\ i \in Node /\ h.stringIsConst \subseteq h.live
      /\ name \in StrPtr /\ name # NULL /\ Allocated(h, name)
  BY RootLinks, AddressAssumption DEF LinksInv, HeapOK, StrPtr, Allocated
<1>2. /\ v = OwnedValue(h, i) /\ v # NULL /\ i \notin h.isReference
  BY DEF SetValuestringAccepts, OwnedValue
<1>3. /\ v \in Str /\ h.text[v] # NULL /\ v \in StrPtr
      /\ OwnedKey(h, i) = NULL \/ OwnedKey(h, i) # v
      /\ OwnedKey(h, i) # NULL =>
           OwnedKey(h, i) \in Str /\ h.text[OwnedKey(h, i)] # NULL
  BY <1>1, <1>2, OwnedFacts
<1>4. OwnedIfLive(h, i) = {OwnedKey(h, i), v} \ {NULL}
  BY <1>2 DEF OwnedIfLive, OwnedStrings
<1>5. i \in h.stringIsConst => h.string[i] \in Name \cup {NULL}
  BY DEF StringsInv, BorrowedKeys
<1> HIDE DEF v
<1>6. CASE FitsInPlace(h, i, name)
  <2> DEFINE tx == [h.text EXCEPT ![v] = name]
  <2>1. tx \in [Str -> Name \cup {NULL}]
    BY <1>1 DEF Heap
  <2>2. g = [h EXCEPT !.text = tx]
    BY <1>1, <1>6 DEF SetValuestring, v, Heap
  <2>3. tx[v] = name /\ \A x \in Str \ {v} : tx[x] = h.text[x]
    BY <1>1, <1>3 DEF Heap
  <2> HIDE DEF tx, g
  <2>4. g \in Heap /\ SameItems(g, h) /\ g.text = tx /\ g.fault = h.fault
    BY <1>1, <2>1, <2>2 DEF Heap, SameItems
  <2>5. \A m : OwnedKey(g, m) = OwnedKey(h, m) /\ OwnedValue(g, m) = OwnedValue(h, m)
    BY <2>4 DEF SameItems, OwnedKey, OwnedValue
  <2>6. OwnedStrings(g, i) = {OwnedKey(h, i), v} \ {NULL}
    BY <1>2, <2>5 DEF OwnedStrings
  <2>7. Exchanges(h, g, i)
    BY <1>1, <1>2, <1>3, <1>4, <1>5, <2>3, <2>4, <2>5, <2>6
       DEF Exchanges, SameItems, StringsInv
  <2> QED BY <2>7, OneItemStrings DEF g
<1>7. CASE ~FitsInPlace(h, i, name) /\ s = NULL
  BY <1>7 DEF SetValuestring
<1>8. CASE ~FitsInPlace(h, i, name) /\ s # NULL
  <2> DEFINE d == Strdup(h, s, name)
             f == FreeString(d, v)
             vs == [f.valuestring EXCEPT ![i] = s]
  <2>1. s \in Str /\ h.text[s] = NULL /\ s \in Str \cup {NULL} /\ s # v
    BY <1>3, <1>8 DEF FreeStrings
  <2>2. /\ d \in Heap /\ SameItems(d, h) /\ d.fault = h.fault
        /\ d.text[s] # NULL /\ \A x \in Str \ {s} : d.text[x] = h.text[x]
    BY <1>1, <2>1, StrdupHeap, StrdupFields
  <2> HIDE DEF d
  <2>3. d.text[v] # NULL
    BY <1>3, <2>1, <2>2
  <2>4. /\ f \in Heap /\ SameItems(f, d) /\ f.fault = d.fault
        /\ f.text[v] = NULL /\ \A x \in Str : x # v => f.text[x] = d.text[x]
    BY <1>2, <1>3, <2>2, <2>3, FreeStringHeap, FreeStringFields
  <2>5. g = [f EXCEPT !.valuestring = vs]
    BY <1>8 DEF SetValuestring, d, v
  <2> HIDE DEF f
  <2>6. vs \in [Node -> StrPtr] /\ vs = [h.valuestring EXCEPT ![i] = s]
    BY <2>1, <2>2, <2>4 DEF SameItems, Heap, StrPtr
  <2> HIDE DEF vs, g
  <2>7. f \in Heap
    BY <2>4
  <2>8. /\ g \in Heap /\ g.live = f.live /\ g.isReference = f.isReference
        /\ g.stringIsConst = f.stringIsConst /\ g.string = f.string
        /\ g.valuestring = vs /\ g.text = f.text /\ g.fault = f.fault
    BY <2>5, <2>6, <2>7 DEF Heap
  <2>9. /\ g.live = h.live /\ g.isReference = h.isReference
        /\ g.stringIsConst = h.stringIsConst /\ g.string = h.string
        /\ g.fault = h.fault /\ g.valuestring = [h.valuestring EXCEPT ![i] = s]
        /\ g.text[s] # NULL /\ g.text[v] = NULL
        /\ \A x \in Str : x # v /\ x # s => g.text[x] = h.text[x]
    BY <2>1, <2>2, <2>4, <2>6, <2>8 DEF SameItems
  <2>10. /\ \A m : OwnedKey(g, m) = OwnedKey(h, m)
         /\ \A m \in h.live \ {i} : OwnedValue(g, m) = OwnedValue(h, m)
         /\ OwnedValue(g, i) = s
    <3>1. g.valuestring[i] = s /\ \A m \in h.live \ {i} : g.valuestring[m] = h.valuestring[m]
      BY <1>1, <2>9 DEF Heap
    <3> QED BY <1>2, <2>9, <3>1 DEF OwnedKey, OwnedValue
  <2>11. OwnedStrings(g, i) = {OwnedKey(h, i), s} \ {NULL}
    BY <2>10 DEF OwnedStrings
  <2>12. OwnedKey(g, i) = NULL \/ OwnedKey(g, i) # OwnedValue(g, i)
    BY <1>3, <2>1, <2>10
  <2>13. \A x \in OwnedStrings(g, i) :
           x \in Str /\ g.text[x] # NULL /\ (x \in OwnedIfLive(h, i) \/ h.text[x] = NULL)
    BY <1>3, <1>4, <2>1, <2>9, <2>11
  <2>14. /\ \A x \in Str \ (OwnedIfLive(h, i) \cup OwnedStrings(g, i)) :
              g.text[x] # NULL <=> h.text[x] # NULL
         /\ \A x \in OwnedIfLive(h, i) \ OwnedStrings(g, i) : g.text[x] = NULL
    BY <1>2, <1>3, <1>4, <2>1, <2>9, <2>11, AddressAssumption
  <2>15. /\ g.live = h.live \cup {i} /\ g.stringIsConst \subseteq g.live /\ ~g.fault
         /\ \A m \in h.live \ {i} :
              /\ OwnedKey(g, m) = OwnedKey(h, m) /\ OwnedValue(g, m) = OwnedValue(h, m)
              /\ m \in g.stringIsConst => m \in h.stringIsConst /\ g.string[m] = h.string[m]
         /\ i \in g.stringIsConst => g.string[i] \in Name \cup {NULL}
    BY <1>1, <1>5, <2>9, <2>10 DEF StringsInv
  <2>16. Exchanges(h, g, i)
    BY <2>12, <2>13, <2>14, <2>15 DEF Exchanges
  <2> QED BY <2>16, OneItemStrings DEF g
<1> QED BY <1>6, <1>7, <1>8

-----------------------------------------------------------------------------
(* Deleting *)

\* cJSON_Delete of an item of the client visits every item once and frees
\* every string once.
LEMMA DeletesSafely ==
    ASSUME NEW h, NEW R, LinksInv(h, R), StringsInv(h), NEW r \in R
    PROVE  DeleteIsSafe(h, r, Reach(h, {r}))
<1> DEFINE D == Reach(h, {r})
<1>1. PICK par \in [Node -> NodePtr] : h \in Heap /\ Linked(h, R, par)
  BY DEF LinksInv, HeapOK
<1>2. D \subseteq h.live
  BY <1>1, DeleteSetIsTree
<1> HIDE DEF D
<1>3. /\ Forward(h, par) /\ FirstChild(h, par) /\ r \in h.live
      /\ par[r] = NULL /\ h.prev[r] = NULL /\ NULL \notin h.live
  BY <1>1, AddressAssumption DEF Linked, TopItems, Heap
<1>4. \A m \in h.live : r \notin OwnedSucc(h, m)
  <2> SUFFICES ASSUME NEW m \in h.live, r \in OwnedSucc(h, m) PROVE FALSE
    OBVIOUS
  <2>1. /\ r # NULL
        /\ r = h.next[m] \/ (m \notin h.isReference /\ r = h.child[m])
    BY DEF OwnedSucc
  <2> QED BY <1>3, <2>1 DEF Forward, FirstChild
<1>5. \A m \in h.live : m \in h.isReference \/ h.child[m] = NULL \/ h.next[m] # h.child[m]
  BY <1>3 DEF Forward, FirstChild
<1>6. \A m, n \in h.live : m # n => OwnedSucc(h, m) \cap OwnedSucc(h, n) = {}
  BY <1>1, LinkedApart
<1>7. \A n \in h.live : \A s \in OwnedStrings(h, n) : s \in Str /\ h.text[s] # NULL
  BY DEF StringsInv, OwnedAllocated
<1>8. /\ \A n \in h.live : OwnedKey(h, n) = NULL \/ OwnedKey(h, n) # OwnedValue(h, n)
      /\ \A m, n \in h.live : m # n => OwnedStrings(h, m) \cap OwnedStrings(h, n) = {}
  BY DEF StringsInv, KeyIsNotValue, OwnedByOne
<1>9. DeleteIsSafe(h, r, D)
  BY <1>2, <1>4, <1>5, <1>6, <1>7, <1>8, Zenon DEF DeleteIsSafe
<1> QED BY <1>9 DEF D

\* What cJSON_Delete writes to strings.
LEMMA DeleteFields ==
    ASSUME NEW h \in Heap, NEW r \in Node
    PROVE  LET D == Reach(h, {r})
               freed == UNION {OwnedStrings(h, n) : n \in D}
           IN  /\ Delete(h, r).valuestring = Erase(h.valuestring, D, NULL)
               /\ Delete(h, r).text = Erase(h.text, freed, NULL)
               /\ Delete(h, r).fault = (h.fault \/ ~DeleteIsSafe(h, r, D))
<1> DEFINE D == Reach(h, {r})
           freed == UNION {OwnedStrings(h, n) : n \in D}
           bad == h.fault \/ ~DeleteIsSafe(h, r, D)
<1>1. DeleteSet(h, r) = D
  BY AddressAssumption DEF DeleteSet
<1> HIDE DEF D
<1>2. Delete(h, r) =
        [h EXCEPT !.live = h.live \ D,
                  !.next = Erase(h.next, D, NULL),
                  !.prev = Erase(h.prev, D, NULL),
                  !.child = Erase(h.child, D, NULL),
                  !.type = Erase(h.type, D, "Invalid"),
                  !.isReference = h.isReference \ D,
                  !.stringIsConst = h.stringIsConst \ D,
                  !.string = Erase(h.string, D, NULL),
                  !.valuestring = Erase(h.valuestring, D, NULL),
                  !.text = Erase(h.text, freed, NULL),
                  !.fault = bad]
  BY <1>1 DEF Delete
<1> HIDE DEF freed, bad
<1>3. /\ Delete(h, r).valuestring = Erase(h.valuestring, D, NULL)
      /\ Delete(h, r).text = Erase(h.text, freed, NULL)
      /\ Delete(h, r).fault = bad
  BY <1>2 DEF Heap
<1> QED BY <1>3 DEF D, freed, bad

\* The deleted items take their own strings along, and only those.
LEMMA DeleteStrings ==
    ASSUME NEW h, NEW R, LinksInv(h, R), StringsInv(h), NEW r \in R
    PROVE  StringsInv(Delete(h, r))
<1> DEFINE D == Reach(h, {r})
           freed == UNION {OwnedStrings(h, n) : n \in D}
           g == Delete(h, r)
<1>1. h \in Heap /\ r \in Node /\ h.stringIsConst \subseteq h.live
  BY RootLinks DEF LinksInv, HeapOK
<1>2. D \subseteq h.live
  <2>1. PICK par \in [Node -> NodePtr] : Linked(h, R, par)
    BY DEF LinksInv
  <2> QED BY <1>1, <2>1, DeleteSetIsTree
<1>3. DeleteIsSafe(h, r, D)
  BY DeletesSafely
<1>4. /\ g.live = h.live \ D /\ g.string = Erase(h.string, D, NULL)
      /\ g.isReference = h.isReference \ D /\ g.stringIsConst = h.stringIsConst \ D
  BY <1>1, DeleteHeap
<1>5. /\ g.valuestring = Erase(h.valuestring, D, NULL) /\ g.text = Erase(h.text, freed, NULL)
      /\ g.fault = (h.fault \/ ~DeleteIsSafe(h, r, D))
  BY <1>1, DeleteFields
<1>6. \A s \in Str : s \in freed <=> \E n \in D : s \in OwnedStrings(h, n)
  OBVIOUS
<1> HIDE DEF g, D, freed
<1>7. /\ \A n \in g.live : /\ n \in h.live /\ n \notin D
                          /\ g.string[n] = h.string[n] /\ g.valuestring[n] = h.valuestring[n]
      /\ \A s \in Str : g.text[s] = IF s \in freed THEN NULL ELSE h.text[s]
      /\ ~g.fault
  BY <1>1, <1>3, <1>4, <1>5 DEF Erase, Heap, StringsInv
<1>8. \A n \in g.live : /\ OwnedKey(g, n) = OwnedKey(h, n) /\ OwnedValue(g, n) = OwnedValue(h, n)
                       /\ OwnedStrings(g, n) = OwnedStrings(h, n)
  BY <1>4, <1>7 DEF OwnedKey, OwnedValue, OwnedStrings
<1>9. \A n \in g.live : OwnedStrings(h, n) \cap freed = {}
  <2> SUFFICES ASSUME NEW n \in g.live, NEW s \in OwnedStrings(h, n), s \in freed
               PROVE  FALSE
    OBVIOUS
  <2>1. n \in h.live /\ n \notin D /\ s \in Str
    BY <1>7 DEF StringsInv, OwnedAllocated
  <2>2. PICK m \in D : s \in OwnedStrings(h, m)
    BY <1>6, <2>1
  <2> QED BY <1>2, <2>1, <2>2 DEF StringsInv, OwnedByOne
<1>10. OwnedAllocated(g)
  BY <1>7, <1>8, <1>9 DEF StringsInv, OwnedAllocated
<1>11. KeyIsNotValue(g) /\ OwnedByOne(g)
  BY <1>7, <1>8 DEF StringsInv, KeyIsNotValue, OwnedByOne
<1>12. NoneLeaked(g)
  <2> SUFFICES ASSUME NEW s \in Str, g.text[s] # NULL
               PROVE  \E n \in g.live : s \in OwnedStrings(g, n)
    BY DEF NoneLeaked
  <2>1. s \notin freed /\ h.text[s] # NULL
    BY <1>7
  <2>2. PICK n \in h.live : s \in OwnedStrings(h, n)
    BY <2>1 DEF StringsInv, NoneLeaked
  <2>3. n \in g.live
    BY <1>4, <1>6, <2>1, <2>2
  <2> QED BY <1>8, <2>2, <2>3
<1>13. BorrowedKeys(g)
  BY <1>1, <1>4, <1>7 DEF StringsInv, BorrowedKeys
<1>14. StringsInv(g)
  BY <1>7, <1>10, <1>11, <1>12, <1>13 DEF StringsInv
<1> QED BY <1>14 DEF g

-----------------------------------------------------------------------------
(* Calls made of several steps *)

\* The branch of cJSON_CreateString that fails.
LEMMA CreateStringFails ==
    ASSUME NEW h, NEW R, LinksInv(h, R), StringsInv(h), NEW n \in Node \ h.live, NEW p
    PROVE  StringsInv(CreateString(h, n, NULL, p))
<1> DEFINE b == NewItem(h, n, "String")
<1>1. "String" \in Type /\ n # NULL
  BY AddressAssumption DEF Type
<1>2. LinksInv(b, R \cup {n}) /\ StringsInv(b)
  BY <1>1, NewItemLinks, NewItemStrings
<1>3. CreateString(h, n, NULL, p) = Delete(b, n)
  BY <1>1 DEF CreateString
<1> HIDE DEF b
<1>4. n \in R \cup {n}
  OBVIOUS
<1> QED BY <1>2, <1>3, <1>4, DeleteStrings

\* cJSON_CreateString copies into its own block only.
LEMMA CreateStringText ==
    ASSUME NEW h \in Heap, NEW n \in Node \ h.live, NEW s \in Str, NEW p \in Name
    PROVE  \A x \in Str \ {s} : CreateString(h, n, s, p).text[x] = h.text[x]
<1> DEFINE b == NewItem(h, n, "String")
           d == Strdup(b, s, p)
           g == CreateString(h, n, s, p)
<1>1. "String" \in Type /\ n # NULL /\ n \in Node /\ s # NULL /\ p \in StrPtr
  BY AddressAssumption DEF Type, StrPtr
<1>2. /\ b \in Heap /\ b.live = h.live \cup {n}
      /\ b.isReference = h.isReference \ {n}
      /\ b.stringIsConst = h.stringIsConst \ {n}
      /\ b.string = [h.string EXCEPT ![n] = NULL]
      /\ b.valuestring = [h.valuestring EXCEPT ![n] = NULL]
      /\ b.text = h.text /\ b.fault = h.fault
  BY <1>1, NewItemFields
<1>3. g = [d EXCEPT !.valuestring = [d.valuestring EXCEPT ![n] = s]]
  BY <1>1 DEF CreateString
<1> HIDE DEF b
<1>4. d \in Heap /\ \A x \in Str \ {s} : d.text[x] = b.text[x]
  BY <1>1, <1>2, StrdupHeap, StrdupFields DEF Allocated
<1> HIDE DEF d, g
<1>5. g.text = d.text
  BY <1>3, <1>4 DEF Heap
<1> QED BY <1>2, <1>4, <1>5 DEF g

\* add_to_object!: a new item is stored or deleted.
LEMMA AddNewStrings ==
    ASSUME NEW h, NEW R, NEW n \in R, LinksInv(h, R), StringsInv(h),
           NEW p, NEW key \in Name, NEW s \in FreeStrings(h) \cup {NULL}
    PROVE  StringsInv(AddNewToObjectResult(h, p, key, n, s))
<1>1. CASE AddItemToObjectAccepts(p, n, s, FALSE)
  <2>1. FALSE \in BOOLEAN
    OBVIOUS
  <2>2. StringsInv(AddItemToObject(h, p, key, n, s, FALSE))
    BY <2>1, AddItemToObjectStrings
  <2> QED BY <1>1, <2>2 DEF AddNewToObjectResult
<1>2. CASE ~AddItemToObjectAccepts(p, n, s, FALSE)
  <2>1. AddNewToObjectResult(h, p, key, n, s) = Delete(h, n)
    BY <1>2 DEF AddNewToObjectResult, AddItemToObject
  <2> QED BY <2>1, DeleteStrings
<1> QED BY <1>1, <1>2

LEMMA AddNothing ==
    ASSUME NEW h \in Heap, NEW p, NEW key, NEW s
    PROVE  AddNewToObjectResult(h, p, key, NULL, s) = h
BY DeleteNull
   DEF AddNewToObjectResult, AddItemToObject, AddItemToObjectAccepts, AddItemToArrayAccepts

\* cJSON_AddItemReferenceToArray.
LEMMA NewReferenceInArrayStrings ==
    ASSUME NEW h, NEW R, LinksInv(h, R), StringsInv(h),
           NEW n \in Node \ h.live, NEW i \in h.live, NEW p
    PROVE  StringsInv(AddItemToArray(CreateReference(h, n, i), p, n))
<1>1. h \in Heap /\ i \in Node
  BY RootLinks
<1>2. CreateReference(h, n, i) \in Heap /\ StringsInv(CreateReference(h, n, i))
  BY <1>1, CreateReferenceHeap, CreateReferenceStrings
<1> QED BY <1>2, AddItemToArrayStrings, SameStringsInv

\* cJSON_AddItemReferenceToObject.
LEMMA NewReferenceInObjectStrings ==
    ASSUME NEW h, NEW R, LinksInv(h, R), StringsInv(h),
           NEW n \in Node \ h.live, NEW i \in h.live, NEW p,
           NEW key \in Name, NEW s \in FreeStrings(h) \cup {NULL}
    PROVE  StringsInv(AddItemToObject(CreateReference(h, n, i), p, key, n, s, FALSE))
<1> DEFINE g == CreateReference(h, n, i)
<1>1. h \in Heap
  BY RootLinks
<1>2. LinksInv(g, R \cup {n}) /\ StringsInv(g)
  BY CreateReferenceLinks, CreateReferenceStrings
<1>3. g.text = h.text
  <2> DEFINE b == NewItem(h, n, h.type[i])
  <2>1. i \in Node /\ h.type[i] \in Type /\ n # NULL
    BY <1>1, RootLinks, AddressAssumption DEF Heap
  <2>2. /\ b \in Heap /\ b.live = h.live \cup {n}
        /\ b.isReference = h.isReference \ {n}
        /\ b.stringIsConst = h.stringIsConst \ {n}
        /\ b.string = [h.string EXCEPT ![n] = NULL]
        /\ b.valuestring = [h.valuestring EXCEPT ![n] = NULL]
        /\ b.text = h.text /\ b.fault = h.fault
    BY <1>1, <2>1, NewItemFields
  <2> HIDE DEF b
  <2> QED BY <2>1, <2>2 DEF CreateReference, b, Heap
<1> HIDE DEF g
<1>4. s \in FreeStrings(g) \cup {NULL} /\ n \in R \cup {n} /\ FALSE \in BOOLEAN
  BY <1>3 DEF FreeStrings
<1>5. StringsInv(AddItemToObject(g, p, key, n, s, FALSE))
  BY <1>2, <1>4, AddItemToObjectStrings
<1> QED BY <1>5 DEF g

\* Detaching an item and deleting it.
LEMMA DetachDeleteStrings ==
    ASSUME NEW h, NEW R, LinksInv(h, R), StringsInv(h),
           NEW p \in h.live, p \notin h.isReference, NEW i \in Members(h, p)
    PROVE  StringsInv(Delete(DetachItem(h, p, i), i))
<1>1. LinksInv(DetachItem(h, p, i), R \cup {i}) /\ i \in R \cup {i}
  BY DetachLinks
<1>2. StringsInv(DetachItem(h, p, i))
  BY RootLinks, DetachItemStrings, SameStringsInv
<1> QED BY <1>1, <1>2, DeleteStrings

\* cJSON_ReplaceItemViaPointer.
LEMMA ReplaceStrings ==
    ASSUME NEW h, NEW R, LinksInv(h, R), StringsInv(h),
           NEW p \in h.live, p \notin h.isReference,
           NEW i \in Members(h, p), NEW r \in R, p \notin Reach(h, {r})
    PROVE  StringsInv(Delete(Substitute(h, p, i, r), i))
<1>1. LinksInv(Substitute(h, p, i, r), (R \ {r}) \cup {i}) /\ i \in (R \ {r}) \cup {i}
  BY SubstituteLinks
<1>2. StringsInv(Substitute(h, p, i, r))
  BY RootLinks, SubstituteStrings, SameStringsInv
<1> QED BY <1>1, <1>2, DeleteStrings

-----------------------------------------------------------------------------
(* The actions *)

\* The part of the invariant that is about strings is inductive, given the
\* part about links.
THEOREM StringsInductive ==
    LinksInv(heap, roots) /\ StringsInv(heap) /\ [Next]_vars => StringsInv(heap')
<1> SUFFICES ASSUME LinksInv(heap, roots), StringsInv(heap), [Next]_vars
             PROVE  StringsInv(heap')
  OBVIOUS
<1>f. /\ heap \in Heap /\ roots \subseteq heap.live /\ heap.live \subseteq Node
      /\ \A p \in Containers : p \in heap.live /\ p \notin heap.isReference
      /\ NewNodes \subseteq (Node \ heap.live) \cup {NULL}
      /\ \A p \in Containers : \A i \in Storable(p) :
           i \in roots /\ p \notin Reach(heap, {i}) \ {i}
      /\ \A p \in Containers : \A i \in Placeable(p) :
           i \in roots /\ p \notin Reach(heap, {i}) /\ i # p
  BY ArgumentFacts
<1>s. NewStrings \subseteq FreeStrings(heap) \cup {NULL}
  BY DEF NewStrings
<1>k. /\ Kind \subseteq Type /\ "String" \in Type /\ Name \subseteq StrPtr
      /\ NULL \in NodePtr /\ NULL \in StrPtr /\ heap.live \subseteq NodePtr
  BY <1>f, FlagsAssumption DEF Type, StrPtr, NodePtr
<1>1. CASE CreateItem
  <2>1. PICK n \in NewNodes, t \in Kind : heap' = NewItem(heap, n, t)
    BY <1>1 DEF CreateItem
  <2>2. CASE n = NULL
    BY <2>1, <2>2 DEF NewItem
  <2>3. CASE n # NULL
    <3>1. n \in Node \ heap.live /\ t \in Type
      BY <1>f, <1>k, <2>3
    <3> QED BY <2>1, <3>1, NewItemStrings
  <2> QED BY <2>2, <2>3
<1>2. CASE CreateStringItem
  <2>1. PICK n \in NewNodes, s \in NewStrings, name \in Name :
          heap' = CreateString(heap, n, s, name)
    BY <1>2 DEF CreateStringItem
  <2>2. CASE n = NULL
    BY <2>1, <2>2 DEF CreateString
  <2>3. CASE n # NULL
    <3>1. n \in Node \ heap.live /\ s \in FreeStrings(heap) \cup {NULL}
      BY <1>f, <1>s, <2>3
    <3> QED BY <2>1, <3>1, CreateStringFails, CreateStringStrings
  <2> QED BY <2>2, <2>3
<1>3. CASE CreateStringReference
  <2>1. PICK n \in FreeNodes(heap), name \in Name :
          heap' = [NewItem(heap, n, "String") EXCEPT
                     !.isReference = @ \cup {n}, !.valuestring[n] = name]
    BY <1>3 DEF CreateStringReference
  <2>2. n \in Node \ heap.live /\ name \in StrPtr /\ {} \in SUBSET {n}
    BY <1>k DEF FreeNodes
  <2>3. heap' = ReferenceItem(heap, n, "String", NULL, name, {})
    BY <1>f, <2>1, <2>2, StringReferenceIsItem
  <2> QED BY <1>k, <2>2, <2>3, ReferenceItemStrings
<1>4. CASE CreateContainerReference
  <2>1. PICK n \in FreeNodes(heap), t \in ContainerType, c \in heap.live :
          heap' = [NewItem(heap, n, t) EXCEPT !.isReference = @ \cup {n}, !.child[n] = c]
    BY <1>4 DEF CreateContainerReference
  <2>2. n \in Node \ heap.live /\ t \in Type /\ c \in NodePtr /\ {} \in SUBSET {n}
    BY <1>k DEF FreeNodes, ContainerType, Type
  <2>3. heap' = ReferenceItem(heap, n, t, c, NULL, {})
    BY <1>f, <2>1, <2>2, ContainerReferenceIsItem
  <2> QED BY <1>k, <2>2, <2>3, ReferenceItemStrings
<1>5. CASE DeleteRoot
  BY <1>5, DeleteStrings DEF DeleteRoot
<1>6. CASE AddToArray
  BY <1>f, <1>6, AddItemToArrayStrings, SameStringsInv DEF AddToArray
<1>7. CASE AddToObject
  <2>1. PICK p \in Containers : \E i \in Storable(p), s \in NewStrings : \E key \in KeyArgs(i) :
          heap' = AddItemToObject(heap, p, key, i, s, FALSE)
    BY <1>7 DEF AddToObject
  <2>a. PICK i \in Storable(p), s \in NewStrings : \E key \in KeyArgs(i) :
          heap' = AddItemToObject(heap, p, key, i, s, FALSE)
    BY <2>1
  <2>2. PICK key \in KeyArgs(i) : heap' = AddItemToObject(heap, p, key, i, s, FALSE)
    BY <2>a
  <2>3. /\ i \in roots /\ s \in FreeStrings(heap) \cup {NULL} /\ FALSE \in BOOLEAN
        /\ key \in Name \cup ({heap.string[i]} \ {NULL})
    BY <1>f, <1>s DEF KeyArgs
  <2>4. StringsInv(AddItemToObject(heap, p, key, i, s, FALSE))
    BY <2>3, AddItemToObjectStrings
  <2> QED BY <2>2, <2>4
<1>8. CASE AddToObjectCS
  <2>1. PICK p \in Containers : \E i \in Storable(p), key \in Name :
          heap' = AddItemToObject(heap, p, key, i, NULL, TRUE)
    BY <1>8 DEF AddToObjectCS
  <2>2. PICK i \in Storable(p), key \in Name :
          heap' = AddItemToObject(heap, p, key, i, NULL, TRUE)
    BY <2>1
  <2>3. /\ i \in roots /\ NULL \in FreeStrings(heap) \cup {NULL} /\ TRUE \in BOOLEAN
        /\ key \in Name \cup ({heap.string[i]} \ {NULL})
    BY <1>f
  <2>4. StringsInv(AddItemToObject(heap, p, key, i, NULL, TRUE))
    BY <2>3, AddItemToObjectStrings
  <2> QED BY <2>2, <2>4
<1>9. CASE AddReferenceToArray
  <2>1. PICK p \in Containers, i \in heap.live, n \in NewNodes :
          heap' = AddItemToArray(CreateReference(heap, n, i), p, n)
    BY <1>9 DEF AddReferenceToArray
  <2>2. CASE n = NULL
    BY <2>1, <2>2 DEF AddItemToArray, AddItemToArrayAccepts, CreateReference
  <2>3. CASE n # NULL
    <3>1. n \in Node \ heap.live
      BY <1>f, <2>3
    <3> QED BY <2>1, <3>1, NewReferenceInArrayStrings
  <2> QED BY <2>2, <2>3
<1>10. CASE AddReferenceToObject
  <2>1. PICK p \in Containers, i \in heap.live, n \in NewNodes, s \in NewStrings, key \in Name :
          heap' = AddItemToObject(CreateReference(heap, n, i), p, key, n, s, FALSE)
    BY <1>10 DEF AddReferenceToObject
  <2>2. CASE n = NULL
    BY <2>1, <2>2 DEF AddItemToObject, AddItemToObjectAccepts, AddItemToArrayAccepts,
                      CreateReference
  <2>3. CASE n # NULL
    <3>1. n \in Node \ heap.live /\ s \in FreeStrings(heap) \cup {NULL}
      BY <1>f, <1>s, <2>3
    <3> QED BY <2>1, <3>1, NewReferenceInObjectStrings
  <2> QED BY <2>2, <2>3
<1>11. CASE AddNewToObject
  <2>1. PICK p \in Containers, n \in NewNodes, s \in NewStrings, key \in Name, t \in Kind :
          heap' = AddNewToObjectResult(NewItem(heap, n, t), p, key, n, s)
    BY <1>11 DEF AddNewToObject
  <2>2. CASE n = NULL
    BY <1>f, <2>1, <2>2, AddNothing DEF NewItem
  <2>3. CASE n # NULL
    <3> DEFINE g == NewItem(heap, n, t)
    <3>1. n \in Node \ heap.live /\ t \in Type
      BY <1>f, <1>k, <2>3
    <3>2. LinksInv(g, roots \cup {n}) /\ StringsInv(g)
      BY <3>1, NewItemLinks, NewItemStrings
    <3>3. g.text = heap.text
      BY <1>f, <2>3 DEF NewItem, Heap
    <3> HIDE DEF g
    <3>4. s \in FreeStrings(g) \cup {NULL} /\ n \in roots \cup {n}
      BY <1>s, <3>3 DEF FreeStrings
    <3>5. StringsInv(AddNewToObjectResult(g, p, key, n, s))
      BY <3>2, <3>4, AddNewStrings
    <3> QED BY <2>1, <3>5 DEF g
  <2> QED BY <2>2, <2>3
<1>12. CASE AddStringToObject
  <2>1. PICK p \in Containers, n \in NewNodes, v \in NewStrings, key \in Name, value \in Name :
          \E s \in (NewStrings \ {v}) \cup (IF MayFail THEN {NULL} ELSE {}) :
            heap' = AddNewToObjectResult(CreateString(heap, n, v, value), p, key,
                                         IF v = NULL THEN NULL ELSE n, s)
    BY <1>12 DEF AddStringToObject
  <2>2. PICK s \in (NewStrings \ {v}) \cup (IF MayFail THEN {NULL} ELSE {}) :
            heap' = AddNewToObjectResult(CreateString(heap, n, v, value), p, key,
                                         IF v = NULL THEN NULL ELSE n, s)
    BY <2>1
  <2>3. /\ v \in FreeStrings(heap) \cup {NULL}
        /\ s \in (FreeStrings(heap) \ {v}) \cup {NULL}
    BY <1>s
  <2> DEFINE g == CreateString(heap, n, v, value)
  <2>4. CASE n = NULL
    <3>1. g = heap /\ (IF v = NULL THEN NULL ELSE n) = NULL
      BY <2>4 DEF CreateString
    <3> QED BY <1>f, <2>2, <3>1, AddNothing
  <2>5. CASE n # NULL /\ v = NULL
    <3>1. n \in Node \ heap.live
      BY <1>f, <2>5
    <3>2. StringsInv(g) /\ LinksInv(g, roots)
      BY <2>5, <3>1, CreateStringFails, CreateStringLinks
    <3> HIDE DEF g
    <3>3. heap' = AddNewToObjectResult(g, p, key, NULL, s)
      BY <2>2, <2>5 DEF g
    <3> QED BY <3>2, <3>3, RootLinks, AddNothing
  <2>6. CASE n # NULL /\ v # NULL
    <3>1. n \in Node \ heap.live /\ v \in FreeStrings(heap) /\ v \in Str
      BY <1>f, <2>3, <2>6 DEF FreeStrings
    <3>2. StringsInv(g)
      BY <3>1, CreateStringStrings
    <3>3. LinksInv(g, roots \cup {n})
      BY <2>6, <3>1, CreateStringLinks
    <3>4. \A x \in Str \ {v} : g.text[x] = heap.text[x]
      BY <1>f, <3>1, CreateStringText
    <3> HIDE DEF g
    <3>5. s \in FreeStrings(g) \cup {NULL} /\ n \in roots \cup {n}
      BY <2>3, <3>4 DEF FreeStrings
    <3>6. StringsInv(AddNewToObjectResult(g, p, key, n, s))
      BY <3>2, <3>3, <3>5, AddNewStrings
    <3> QED BY <2>2, <2>6, <3>6 DEF g
  <2> QED BY <2>4, <2>5, <2>6
<1>13. CASE InsertIntoArray
  BY <1>f, <1>13, InsertItemStrings, SameStringsInv DEF InsertIntoArray
<1>14. CASE Detach
  BY <1>f, <1>14, DetachItemStrings, SameStringsInv DEF Detach
<1>15. CASE DeleteFromContainer
  <2>1. PICK p \in Containers : \E i \in Members(heap, p) :
          heap' = Delete(DetachItem(heap, p, i), i)
    BY <1>15 DEF DeleteFromContainer
  <2>2. p \in heap.live /\ p \notin heap.isReference
    BY <1>f
  <2> QED BY <2>1, <2>2, DetachDeleteStrings
<1>16. CASE ReplaceItem
  <2>1. PICK p \in Containers : \E i \in Members(heap, p) \cup {NULL} :
          \E r \in Placeable(p) \cup ({i} \ {NULL}) : heap' = ReplaceItemViaPointer(heap, p, i, r)
    BY <1>16 DEF ReplaceItem
  <2>2. PICK i \in Members(heap, p) \cup {NULL} :
          \E r \in Placeable(p) \cup ({i} \ {NULL}) : heap' = ReplaceItemViaPointer(heap, p, i, r)
    BY <2>1
  <2>3. PICK r \in Placeable(p) \cup ({i} \ {NULL}) : heap' = ReplaceItemViaPointer(heap, p, i, r)
    BY <2>2
  <2>4. CASE ~ReplaceItemAccepts(heap, p, i) \/ r = i
    BY <2>3, <2>4 DEF ReplaceItemViaPointer
  <2>5. CASE ReplaceItemAccepts(heap, p, i) /\ r # i
    <3>1. /\ p \in heap.live /\ p \notin heap.isReference /\ i \in Members(heap, p)
          /\ r \in roots /\ p \notin Reach(heap, {r})
      BY <1>f, <2>5 DEF ReplaceItemAccepts
    <3>2. StringsInv(Delete(Substitute(heap, p, i, r), i))
      BY <3>1, ReplaceStrings
    <3> QED BY <2>3, <2>5, <3>2 DEF ReplaceItemViaPointer
  <2> QED BY <2>4, <2>5
<1>17. CASE ReplaceInObject
  <2>1. PICK p \in Containers, key \in Name, s \in NewStrings, cs \in BOOLEAN :
          \E r \in Placeable(p) : ReplaceInObjectStep(p, key, s, cs, r)
    BY <1>17 DEF ReplaceInObject, ReplaceInObjectStep
  <2>2. PICK r \in Placeable(p) : ReplaceInObjectStep(p, key, s, cs, r)
    BY <2>1
  <2> DEFINE g == RenameReplacement(heap, r, key, s)
             i == GetObjectItem(g, p, key, cs)
  <2>3. /\ p \in heap.live /\ p \notin heap.isReference
        /\ r \in roots /\ p \notin Reach(heap, {r})
        /\ key \in StrPtr /\ s \in FreeStrings(heap) \cup {NULL} /\ s \in Str \cup {NULL}
    BY <1>f, <1>k, <1>s DEF FreeStrings
  <2>4. LinksInv(g, roots) /\ SameLinks(g, heap) /\ StringsInv(g)
    BY <2>3, RenameLinks, RenameStrings
  <2>5. i \in Members(g, p) \cup {NULL}
    BY DEF GetObjectItem
  <2>6. \/ heap' = g
        \/ ReplaceItemAccepts(g, p, i) /\ heap' = ReplaceItemViaPointer(g, p, i, r)
    BY <2>2 DEF ReplaceInObjectStep
  <2> HIDE DEF g, i
  <2>7. CASE heap' = g
    BY <2>4, <2>7
  <2>8. CASE ReplaceItemAccepts(g, p, i) /\ heap' = ReplaceItemViaPointer(g, p, i, r)
    <3>1. /\ p \in g.live /\ p \notin g.isReference /\ p \notin Reach(g, {r})
          /\ i \in Members(g, p)
      BY <2>3, <2>4, <2>5, <2>8, SameReach DEF SameLinks, ReplaceItemAccepts
    <3>2. StringsInv(Delete(Substitute(g, p, i, r), i))
      BY <2>3, <2>4, <3>1, ReplaceStrings
    <3> QED BY <2>4, <2>8, <3>2 DEF ReplaceItemViaPointer
  <2> QED BY <2>6, <2>7, <2>8
<1>18. CASE SetString
  <2>1. PICK i \in heap.live, name \in Name, s \in NewStrings :
          /\ SetValuestringAccepts(heap, i)
          /\ heap' = SetValuestring(heap, i, name, s)
    BY <1>18 DEF SetString
  <2>2. s \in FreeStrings(heap) \cup {NULL}
    BY <1>s
  <2> QED BY <2>1, <2>2, SetValuestringStrings
<1>19. CASE UNCHANGED vars
  BY <1>19 DEF vars
<1> QED BY <1>1, <1>2, <1>3, <1>4, <1>5, <1>6, <1>7, <1>8, <1>9, <1>10, <1>11, <1>12,
           <1>13, <1>14, <1>15, <1>16, <1>17, <1>18, <1>19 DEF Next

-----------------------------------------------------------------------------
(* The theorems *)

\* The library starts without strings.
LEMMA StringsInit == Init => StringsInv(heap)
BY DEF Init, EmptyHeap, StringsInv, OwnedAllocated, KeyIsNotValue, OwnedByOne, NoneLeaked,
       BorrowedKeys

\* Ownership of strings is an invariant of every use of the item API.
THEOREM StringsInvariant == Spec => []StringsInv(heap)
<1>1. Init => StringsInv(heap)
  BY StringsInit
<1>2. LinksInv(heap, roots) /\ StringsInv(heap) /\ [Next]_vars => StringsInv(heap)'
  BY StringsInductive
<1> QED BY <1>1, <1>2, LinksInvariant, PTL DEF Spec

\* Every key and value block belongs to one field of one item that will free
\* it, and a borrowed key is a literal, whatever calls succeed and fail.
THEOREM AlwaysStringsOwnedOnce == Spec => []StringsOwnedOnce
<1>1. StringsInv(heap) => StringsOwnedOnce
  BY DEF StringsInv, OwnedAllocated, KeyIsNotValue, OwnedByOne, NoneLeaked, BorrowedKeys,
         StringsOwnedOnce
<1> QED BY <1>1, StringsInvariant, PTL

\* No call frees memory twice, frees a literal or copies a freed key.
THEOREM NeverFaults == Spec => []NoFault
<1>1. StringsInv(heap) => NoFault
  BY DEF StringsInv, NoFault
<1> QED BY <1>1, StringsInvariant, PTL
=============================================================================
