--------------------------- MODULE ManipRefinement ---------------------------
(***************************************************************************)
(* Manip implements Forest, for every set of nodes, strings and names.     *)
(* Kids relates a heap to the children it stands for; every operation      *)
(* takes related ones to related ones, and what a heap is related to is    *)
(* what cJSON_GetArraySize and cJSON_GetArrayItem say.                     *)
(***************************************************************************)
EXTENDS ManipTheorems, LeastNumber, SequenceTheorems

ItemAt(s, k) == IF k \in 1..Len(s) THEN s[k] ELSE NULL

\* s holds the items of the list of p in the order a walk along next meets them
IsListOf(h, p, s) ==
    /\ h.child[p] = ItemAt(s, 1)
    /\ \A k \in 1..Len(s) : h.next[s[k]] = ItemAt(s, k + 1)

Kids(h, ks) ==
    /\ ks \in [Node -> Seq(Node)]
    /\ \A p \in Node : IF p \in h.live /\ p \notin h.isReference
                       THEN IsListOf(h, p, ks[p]) ELSE ks[p] = <<>>

Maps(h, R, ks) == LinksInv(h, R) /\ Kids(h, ks)

-----------------------------------------------------------------------------
(* What cJSON_GetArrayItem and cJSON_GetArraySize find *)

\* The index steps along next, and past the end there is nothing.
LEMMA GetArrayItemFinds ==
    ASSUME NEW h, NEW p, NEW s \in Seq(Node), IsListOf(h, p, s), NEW index \in Nat
    PROVE  GetArrayItem(h, p, index) = ItemAt(s, index + 1)
<1> DEFINE at[k \in 0..index] ==
               IF k = 0 THEN h.child[p]
               ELSE IF at[k - 1] = NULL THEN NULL ELSE h.next[at[k - 1]]
           found == [k \in 0..index |-> ItemAt(s, k + 1)]
           Agree == {k \in Nat : k \in 0..index => at[k] = ItemAt(s, k + 1)}
<1>n. NULL \notin Node /\ Len(s) \in Nat
  BY AddressAssumption
<1>1. GetArrayItem(h, p, index) = at[index]
  BY DEF GetArrayItem
<1>2. ASSUME NEW k \in 1..index
      PROVE  ItemAt(s, k + 1) = IF ItemAt(s, k) = NULL THEN NULL ELSE h.next[ItemAt(s, k)]
  BY <1>n DEF ItemAt, IsListOf
<1>3. found = [k \in 0..index |-> IF k = 0 THEN h.child[p]
                                  ELSE IF found[k - 1] = NULL THEN NULL ELSE h.next[found[k - 1]]]
  <2>1. ASSUME NEW k \in 0..index
        PROVE  ItemAt(s, k + 1) = IF k = 0 THEN h.child[p]
                                  ELSE IF found[k - 1] = NULL THEN NULL ELSE h.next[found[k - 1]]
    <3>1. CASE k = 0
      BY <3>1 DEF IsListOf
    <3>2. CASE k # 0
      <4>1. k - 1 \in 0..index /\ k \in 1..index
        BY <3>2
      <4>2. found[k - 1] = ItemAt(s, k)
        BY <4>1
      <4> QED BY <3>2, <4>1, <4>2, <1>2
    <3> QED BY <3>1, <3>2
  <2> QED BY <2>1
<1>4. at = [k \in 0..index |-> IF k = 0 THEN h.child[p]
                               ELSE IF at[k - 1] = NULL THEN NULL ELSE h.next[at[k - 1]]]
  <2> HIDE DEF found
  <2> QED BY <1>3 DEF at
<1> HIDE DEF at, found
<1>5. 0 \in Agree
  BY <1>4 DEF IsListOf
<1>6. ASSUME NEW k \in Nat, k \in Agree PROVE k + 1 \in Agree
  <2> SUFFICES ASSUME k + 1 \in 0..index PROVE at[k + 1] = ItemAt(s, k + 2)
    OBVIOUS
  <2>1. at[k + 1] = IF at[k] = NULL THEN NULL ELSE h.next[at[k]]
    BY <1>4
  <2>2. at[k] = ItemAt(s, k + 1)
    BY <1>6
  <2> QED BY <2>1, <2>2, <1>2
<1>7. index \in Agree
  <2> HIDE DEF Agree
  <2> QED BY <1>5, <1>6, SetInduction
<1> QED BY <1>1, <1>7

-----------------------------------------------------------------------------
(* Lists as sequences *)

\* The items of a list are allocated, all different, and they are what
\* Members says; prev of each is the one before it, of the first the last.
LEMMA ListItems ==
    ASSUME NEW h \in Heap, NEW R, NEW par, Linked(h, R, par),
           NEW p \in h.live, p \notin h.isReference,
           NEW s \in Seq(Node), IsListOf(h, p, s)
    PROVE  /\ \A k \in 1..Len(s) : s[k] \in h.live /\ par[s[k]] = p
           /\ \A j, k \in 1..Len(s) : s[j] = s[k] => j = k
           /\ Members(h, p) = {s[k] : k \in 1..Len(s)}
           /\ \A k \in 1..(Len(s) - 1) : h.prev[s[k + 1]] = s[k]
           /\ s # <<>> => h.prev[s[1]] = s[Len(s)]
<1> USE AddressAssumption DEF NodePtr
<1>h. /\ h.live \in SUBSET Node /\ h.next \in [Node -> NodePtr]
      /\ h.prev \in [Node -> NodePtr] /\ h.child \in [Node -> NodePtr]
      /\ Len(s) \in Nat /\ \A k \in 1..Len(s) : s[k] \in Node
  BY HeapTypes
<1>s. \A k \in 1..(Len(s) - 1) : h.next[s[k]] = s[k + 1] /\ s[k + 1] # NULL
  BY <1>h DEF IsListOf, ItemAt
<1>1. \A k \in 1..Len(s) : s[k] \in h.live /\ par[s[k]] = p
  <2> DEFINE Good == {k \in Nat : k \in 1..Len(s) => s[k] \in h.live /\ par[s[k]] = p}
  <2>1. 0 \in Good
    OBVIOUS
  <2>2. ASSUME NEW k \in Nat, k \in Good PROVE k + 1 \in Good
    <3> SUFFICES ASSUME k + 1 \in 1..Len(s) PROVE s[k + 1] \in h.live /\ par[s[k + 1]] = p
      OBVIOUS
    <3>1. CASE k = 0
      <4>1. h.child[p] = s[1] /\ s[1] \in Node
        BY <1>h, <3>1 DEF IsListOf, ItemAt
      <4> QED BY <1>h, <3>1, <4>1 DEF Linked, FirstChild
    <3>2. CASE k # 0
      <4>1. s[k] \in h.live /\ par[s[k]] = p /\ h.next[s[k]] = s[k + 1] /\ s[k + 1] # NULL
        BY <2>2, <3>2, <1>h, <1>s
      <4> QED BY <4>1 DEF Linked, Forward
    <3> QED BY <3>1, <3>2
  <2>3. \A k \in Nat : k \in Good
    <3> HIDE DEF Good
    <3> QED BY <2>1, <2>2, SetInduction
  <2> QED BY <2>3
<1>2. \A k \in 1..(Len(s) - 1) : h.prev[s[k + 1]] = s[k] /\ s[k + 1] # h.child[p]
  <2> SUFFICES ASSUME NEW k \in 1..(Len(s) - 1)
               PROVE  h.prev[s[k + 1]] = s[k] /\ s[k + 1] # h.child[p]
    OBVIOUS
  <2>1. s[k] \in h.live /\ par[s[k]] = p /\ h.next[s[k]] = s[k + 1] /\ s[k + 1] # NULL
    BY <1>h, <1>1, <1>s
  <2> QED BY <2>1 DEF Linked, Forward
<1>3. \A j, k \in 1..Len(s) : j < k => s[j] # s[k]
  <2> DEFINE Apart == {j \in Nat : \A k \in 1..Len(s) : j > 0 /\ j < k => s[j] # s[k]}
  <2>1. 0 \in Apart
    OBVIOUS
  <2>2. ASSUME NEW j \in Nat, j \in Apart PROVE j + 1 \in Apart
    <3> SUFFICES ASSUME NEW k \in 1..Len(s), j + 1 < k PROVE s[j + 1] # s[k]
      OBVIOUS
    <3>1. k - 1 \in 1..(Len(s) - 1)
      BY <1>h
    <3>2. h.prev[s[k]] = s[k - 1] /\ s[k] # h.child[p]
      <4>1. (k - 1) + 1 = k
        BY <1>h
      <4> QED BY <1>2, <3>1, <4>1
    <3>3. CASE j = 0
      BY <1>h, <3>2, <3>3 DEF IsListOf, ItemAt
    <3>4. CASE j # 0
      <4>1. j \in 1..(Len(s) - 1) /\ k - 1 \in 1..Len(s) /\ j < k - 1
        BY <1>h, <3>4
      <4>2. h.prev[s[j + 1]] = s[j] /\ s[j] # s[k - 1]
        BY <1>2, <2>2, <4>1
      <4> QED BY <3>2, <4>2
    <3> QED BY <3>3, <3>4
  <2>3. \A j \in Nat : j \in Apart
    <3> HIDE DEF Apart
    <3> QED BY <2>1, <2>2, SetInduction
  <2> QED BY <2>3
<1>4. \A j, k \in 1..Len(s) : s[j] = s[k] => j = k
  <2> SUFFICES ASSUME NEW j \in 1..Len(s), NEW k \in 1..Len(s), s[j] = s[k] PROVE j = k
    OBVIOUS
  <2>1. ~ (j < k) /\ ~ (k < j)
    BY <1>3
  <2> QED BY <2>1, <1>h
<1>5. Members(h, p) = {s[k] : k \in 1..Len(s)}
  <2> DEFINE L == {s[k] : k \in 1..Len(s)}
  <2>1. L \subseteq Members(h, p)
    BY <1>1, MembersOf
  <2>2. CASE s = <<>>
    BY <2>2 DEF IsListOf, ItemAt, Members
  <2>3. CASE s # <<>>
    <3>1. L \in SUBSET Node /\ h.child[p] \in L /\ h.child[p] # NULL
      BY <1>h, <2>3 DEF IsListOf, ItemAt
    <3>2. ListClosed(h, L)
      <4> SUFFICES ASSUME NEW k \in 1..Len(s), h.next[s[k]] # NULL PROVE h.next[s[k]] \in L
        BY DEF ListClosed
      <4>1. h.next[s[k]] = s[k + 1] /\ k + 1 \in 1..Len(s)
        BY DEF IsListOf, ItemAt
      <4> QED BY <4>1
    <3> QED BY <2>1, <3>1, <3>2 DEF Members, ListFrom
  <2> QED BY <2>2, <2>3
<1>6. ASSUME s # <<>> PROVE h.prev[s[1]] = s[Len(s)]
  <2> DEFINE tail == s[Len(s)]
  <2>0. 1 \in 1..Len(s) /\ Len(s) \in 1..Len(s)
    BY <1>h, <1>6
  <2>1. h.child[p] = s[1] /\ s[1] \in h.live /\ par[s[1]] = p /\ p # NULL
    BY <1>h, <1>1, <2>0 DEF IsListOf, ItemAt
  <2>2. tail \in h.live /\ par[tail] = p /\ h.next[tail] = NULL
    BY <1>h, <1>1, <2>0 DEF IsListOf, ItemAt
  <2>3. h.prev[s[1]] \in h.live /\ par[h.prev[s[1]]] = p /\ h.next[h.prev[s[1]]] = NULL
    BY <2>1 DEF Linked, Listed
  <2> QED BY <2>1, <2>2, <2>3 DEF Linked, OneTail
<1> QED BY <1>1, <1>2, <1>4, <1>5, <1>6

Distinct(s) == \A j, k \in 1..Len(s) : s[j] = s[k] => j = k

\* A list is no longer than the memory.
LEMMA ListBounded ==
    ASSUME NEW s \in Seq(Node), Distinct(s)
    PROVE  Len(s) \in Nat /\ Cardinality(Node) \in Nat /\ Len(s) <= Cardinality(Node)
<1>1. Len(s) \in Nat /\ s \in [1..Len(s) -> Node]
  BY LenProperties
<1>2. s \in Injection(1..Len(s), Node)
  BY <1>1 DEF Distinct, Injection, IsInjective
<1>3. Cardinality(1..Len(s)) = Len(s) /\ Cardinality(Node) \in Nat
  <2>1. Cardinality(1..Len(s)) = IF 1 > Len(s) THEN 0 ELSE Len(s) - 1 + 1
    BY <1>1, FS_Interval
  <2>2. Cardinality(Node) \in Nat
    BY MemoryAssumption, FS_CardinalityType
  <2> QED BY <1>1, <2>1, <2>2
<1>4. Cardinality(1..Len(s)) <= Cardinality(Node)
  BY <1>2, MemoryAssumption, FS_Injection
<1> QED BY <1>1, <1>3, <1>4

\* cJSON_GetArraySize is the length of the list.
LEMMA GetArraySizeFinds ==
    ASSUME NEW h, NEW p, NEW s \in Seq(Node), IsListOf(h, p, s), Distinct(s)
    PROVE  GetArraySize(h, p) = Len(s)
<1> DEFINE ends == {k \in 0..Cardinality(Node) : GetArrayItem(h, p, k) = NULL}
<1>1. Len(s) \in Nat /\ Cardinality(Node) \in Nat /\ Len(s) <= Cardinality(Node)
  BY ListBounded
<1>2. \A k \in Nat : GetArrayItem(h, p, k) = NULL <=> Len(s) <= k
  <2>1. \A k \in Nat : GetArrayItem(h, p, k) = ItemAt(s, k + 1)
    BY GetArrayItemFinds
  <2>2. \A k \in Nat : ItemAt(s, k + 1) = NULL <=> Len(s) <= k
    BY <1>1, AddressAssumption DEF ItemAt
  <2> QED BY <2>1, <2>2
<1>3. Len(s) \in ends /\ \A j \in ends : Len(s) <= j
  BY <1>1, <1>2
<1>4. ends \in SUBSET Nat
  OBVIOUS
<1>5. GetArraySize(h, p) = CHOOSE k \in ends : \A j \in ends : k <= j
  BY DEF GetArraySize
<1> HIDE DEF ends
<1>6. \A k \in ends : (\A j \in ends : k <= j) => k = Len(s)
  BY <1>1, <1>3, <1>4
<1> QED BY <1>3, <1>5, <1>6

\* What a heap is related to is what the two functions say of it.
LEMMA KidsAreChildSeq ==
    ASSUME NEW h, NEW R, NEW ks, Maps(h, R, ks)
    PROVE  ks = [p \in Node |-> ChildSeq(h, p)]
<1>1. PICK par \in [Node -> NodePtr] : h \in Heap /\ Linked(h, R, par)
  BY DEF Maps, LinksInv, HeapOK
<1>2. ks \in [Node -> Seq(Node)]
  BY DEF Maps, Kids
<1>3. ASSUME NEW p \in Node PROVE ks[p] = ChildSeq(h, p)
  <2>1. CASE ~(p \in h.live /\ p \notin h.isReference)
    BY <2>1 DEF Maps, Kids, ChildSeq
  <2>2. CASE p \in h.live /\ p \notin h.isReference
    <3> DEFINE s == ks[p]
    <3>1. s \in Seq(Node) /\ IsListOf(h, p, s)
      BY <1>2, <2>2 DEF Maps, Kids
    <3> HIDE DEF s
    <3>2. Distinct(s)
      BY <1>1, <2>2, <3>1, ListItems DEF Distinct
    <3>3. ChildSeq(h, p) = [k \in 1..Len(s) |-> GetArrayItem(h, p, k - 1)]
      BY <2>2, <3>1, <3>2, GetArraySizeFinds DEF ChildSeq
    <3>4. Len(s) \in Nat /\ s = [k \in 1..Len(s) |-> s[k]]
      BY <3>1, LenProperties
    <3>5. ASSUME NEW k \in 1..Len(s) PROVE GetArrayItem(h, p, k - 1) = s[k]
      <4>1. k - 1 \in Nat /\ (k - 1) + 1 = k
        BY <3>4
      <4> QED BY <3>1, <4>1, GetArrayItemFinds DEF ItemAt
    <3> QED BY <3>3, <3>4, <3>5 DEF s
  <2> QED BY <2>1, <2>2
<1> QED BY <1>2, <1>3

-----------------------------------------------------------------------------
(* The changes of an order that Forest speaks of, element by element *)

LEMMA PositionFinds ==
    ASSUME NEW s \in Seq(Node), Distinct(s), NEW k \in 1..Len(s)
    PROVE  Promise!Position(s, s[k]) = k
  BY LenProperties DEF Promise!Position, Distinct

LEMMA AppendItems ==
    ASSUME NEW s \in Seq(Node), NEW i \in Node
    PROVE  /\ Append(s, i) \in Seq(Node) /\ Len(Append(s, i)) = Len(s) + 1
           /\ \A j \in 1..Len(s) : Append(s, i)[j] = s[j]
           /\ Append(s, i)[Len(s) + 1] = i
  BY AppendProperties

LEMMA WithoutItems ==
    ASSUME NEW s \in Seq(Node), Distinct(s), NEW k \in 1..Len(s)
    PROVE  LET t == Promise!Without(s, s[k])
           IN  /\ t \in Seq(Node) /\ Len(t) = Len(s) - 1
               /\ \A j \in 1..(Len(s) - 1) : t[j] = IF j < k THEN s[j] ELSE s[j + 1]
<1> DEFINE a == SubSeq(s, 1, k - 1)
           b == SubSeq(s, k + 1, Len(s))
<1>1. Promise!Without(s, s[k]) = a \o b
  BY PositionFinds DEF Promise!Without, Promise!RemoveAt
<1>2. Len(s) \in Nat /\ \A j \in 1..Len(s) : s[j] \in Node
  BY LenProperties
<1>3. /\ a \in Seq(Node) /\ Len(a) = k - 1
      /\ \A j \in 1..(k - 1) : a[j] = s[j]
  <2>1. \A j \in 1..(k - 1) : s[j] \in Node
    BY <1>2
  <2>2. /\ a \in Seq(Node) /\ Len(a) = IF 1 <= k - 1 THEN (k - 1) - 1 + 1 ELSE 0
        /\ \A j \in 1..((k - 1) - 1 + 1) : a[j] = s[1 + j - 1]
    BY <2>1, <1>2, SubSeqProperties
  <2> QED BY <2>2, <1>2
<1>4. /\ b \in Seq(Node) /\ Len(b) = Len(s) - k
      /\ \A j \in 1..(Len(s) - k) : b[j] = s[k + j]
  <2>1. \A j \in (k + 1)..Len(s) : s[j] \in Node
    BY <1>2
  <2>2. /\ b \in Seq(Node) /\ Len(b) = IF k + 1 <= Len(s) THEN Len(s) - (k + 1) + 1 ELSE 0
        /\ \A j \in 1..(Len(s) - (k + 1) + 1) : b[j] = s[(k + 1) + j - 1]
    BY <2>1, <1>2, SubSeqProperties
  <2> QED BY <2>2, <1>2
<1> HIDE DEF a, b
<1>5. /\ a \o b \in Seq(Node) /\ Len(a \o b) = Len(a) + Len(b)
      /\ \A j \in 1..(Len(a) + Len(b)) : (a \o b)[j] = IF j <= Len(a) THEN a[j] ELSE b[j - Len(a)]
  BY <1>3, <1>4, ConcatProperties
<1>6. ASSUME NEW j \in 1..(Len(s) - 1)
      PROVE  (a \o b)[j] = IF j < k THEN s[j] ELSE s[j + 1]
  <2>1. j \in 1..(Len(a) + Len(b))
    BY <1>2, <1>3, <1>4
  <2>2. CASE j < k
    BY <2>1, <2>2, <1>2, <1>3, <1>5
  <2>3. CASE ~(j < k)
    <3>1. j - (k - 1) \in 1..(Len(s) - k) /\ k + (j - (k - 1)) = j + 1 /\ ~(j <= k - 1)
      BY <2>3, <1>2
    <3>2. b[j - (k - 1)] = s[k + (j - (k - 1))]
      BY <3>1, <1>4
    <3> QED BY <2>1, <2>3, <3>1, <3>2, <1>3, <1>5
  <2> QED BY <2>2, <2>3
<1>7. Len(a) + Len(b) = Len(s) - 1
  BY <1>2, <1>3, <1>4
<1> QED BY <1>1, <1>5, <1>6, <1>7

LEMMA InsertItems ==
    ASSUME NEW s \in Seq(Node), Distinct(s), NEW k \in 1..Len(s), NEW i \in Node
    PROVE  LET t == Promise!InsertBefore(s, s[k], i)
           IN  /\ t \in Seq(Node) /\ Len(t) = Len(s) + 1
               /\ \A j \in 1..(Len(s) + 1) :
                    t[j] = IF j < k THEN s[j] ELSE IF j = k THEN i ELSE s[j - 1]
<1> DEFINE a == SubSeq(s, 1, k - 1)
           b == SubSeq(s, k, Len(s))
           ai == a \o <<i>>
<1>1. Promise!InsertBefore(s, s[k], i) = ai \o b
  BY PositionFinds DEF Promise!InsertBefore, Promise!InsertAt
<1>2. Len(s) \in Nat /\ \A j \in 1..Len(s) : s[j] \in Node
  BY LenProperties
<1>3. /\ a \in Seq(Node) /\ Len(a) = k - 1
      /\ \A j \in 1..(k - 1) : a[j] = s[j]
  <2>1. \A j \in 1..(k - 1) : s[j] \in Node
    BY <1>2
  <2>2. /\ a \in Seq(Node) /\ Len(a) = IF 1 <= k - 1 THEN (k - 1) - 1 + 1 ELSE 0
        /\ \A j \in 1..((k - 1) - 1 + 1) : a[j] = s[1 + j - 1]
    BY <2>1, <1>2, SubSeqProperties
  <2> QED BY <2>2, <1>2
<1>4. /\ b \in Seq(Node) /\ Len(b) = Len(s) - k + 1
      /\ \A j \in 1..(Len(s) - k + 1) : b[j] = s[k + j - 1]
  <2>1. \A j \in k..Len(s) : s[j] \in Node
    BY <1>2
  <2>2. /\ b \in Seq(Node) /\ Len(b) = IF k <= Len(s) THEN Len(s) - k + 1 ELSE 0
        /\ \A j \in 1..(Len(s) - k + 1) : b[j] = s[k + j - 1]
    BY <2>1, <1>2, SubSeqProperties
  <2> QED BY <2>2, <1>2
<1> HIDE DEF a, b
<1>5. ai \in Seq(Node) /\ Len(ai) = k /\ \A j \in 1..k : ai[j] = IF j < k THEN s[j] ELSE i
  <2>1. ai = Append(a, i)
    BY <1>3, AppendIsConcat
  <2> QED BY <2>1, <1>2, <1>3, AppendItems
<1> HIDE DEF ai
<1>6. /\ ai \o b \in Seq(Node) /\ Len(ai \o b) = Len(ai) + Len(b)
      /\ \A j \in 1..(Len(ai) + Len(b)) :
            (ai \o b)[j] = IF j <= Len(ai) THEN ai[j] ELSE b[j - Len(ai)]
  BY <1>4, <1>5, ConcatProperties
<1>7. ASSUME NEW j \in 1..(Len(s) + 1)
      PROVE  (ai \o b)[j] = IF j < k THEN s[j] ELSE IF j = k THEN i ELSE s[j - 1]
  <2>1. j \in 1..(Len(ai) + Len(b))
    BY <1>2, <1>4, <1>5
  <2>2. CASE j <= k
    BY <2>1, <2>2, <1>2, <1>5, <1>6
  <2>3. CASE ~(j <= k)
    <3>1. j - k \in 1..(Len(s) - k + 1) /\ k + (j - k) - 1 = j - 1
      BY <2>3, <1>2
    <3>2. b[j - k] = s[k + (j - k) - 1]
      BY <3>1, <1>4
    <3>3. (ai \o b)[j] = b[j - k]
      BY <2>1, <2>3, <1>2, <1>5, <1>6
    <3> QED BY <2>3, <3>1, <3>2, <3>3
  <2> QED BY <2>2, <2>3
<1>8. Len(ai) + Len(b) = Len(s) + 1
  BY <1>2, <1>4, <1>5
<1> QED BY <1>1, <1>6, <1>7, <1>8

LEMMA SubstituteItems ==
    ASSUME NEW s \in Seq(Node), Distinct(s), NEW k \in 1..Len(s), NEW i \in Node
    PROVE  LET t == Promise!Substitute(s, s[k], i)
           IN  /\ t \in Seq(Node) /\ Len(t) = Len(s)
               /\ \A j \in 1..Len(s) : t[j] = IF j = k THEN i ELSE s[j]
<1>1. Promise!Substitute(s, s[k], i) = [s EXCEPT ![k] = i]
  BY PositionFinds DEF Promise!Substitute, Promise!ReplaceAt
<1> QED BY <1>1, ExceptSeq

-----------------------------------------------------------------------------
(* What the pointer primitives do to the order *)

\* The list of an item whose children are its own.
LEMMA KidsItems ==
    ASSUME NEW h \in Heap, NEW R, NEW par, Linked(h, R, par), NEW ks, Kids(h, ks),
           NEW p \in h.live, p \notin h.isReference
    PROVE  LET s == ks[p]
           IN  /\ s \in Seq(Node) /\ Len(s) \in Nat /\ IsListOf(h, p, s) /\ Distinct(s)
               /\ \A k \in 1..Len(s) : s[k] \in h.live /\ s[k] \in Node /\ par[s[k]] = p
               /\ Members(h, p) = {s[k] : k \in 1..Len(s)}
               /\ \A k \in 1..(Len(s) - 1) : h.prev[s[k + 1]] = s[k]
               /\ s # <<>> => h.prev[s[1]] = s[Len(s)]
<1>1. p \in Node /\ h.live \subseteq Node
  BY HeapTypes
<1>2. ks[p] \in Seq(Node) /\ IsListOf(h, p, ks[p])
  BY <1>1 DEF Kids
<1>3. Len(ks[p]) \in Nat
  BY <1>2, LenProperties
<1> QED BY <1>1, <1>2, <1>3, ListItems DEF Distinct

\* One list changes, the others do not.
LEMMA OneListChanges ==
    ASSUME NEW h \in Heap, NEW R, NEW par, Linked(h, R, par), NEW ks, Kids(h, ks),
           NEW g, g.live = h.live, g.isReference = h.isReference,
           NEW p \in h.live, NEW s \in Seq(Node), IsListOf(g, p, s), p \notin h.isReference,
           \A q \in Node \ {p} : g.child[q] = h.child[q],
           \A n \in h.live : par[n] # NULL /\ par[n] # p => g.next[n] = h.next[n]
    PROVE  Kids(g, [ks EXCEPT ![p] = s])
<1> DEFINE kt == [ks EXCEPT ![p] = s]
<1>1. p \in Node /\ ks \in [Node -> Seq(Node)]
  BY HeapTypes DEF Kids
<1>2. kt \in [Node -> Seq(Node)] /\ kt[p] = s /\ \A q \in Node \ {p} : kt[q] = ks[q]
  BY <1>1
<1> HIDE DEF kt
<1>3. ASSUME NEW q \in Node \ {p}, q \in h.live, q \notin h.isReference
      PROVE  IsListOf(g, q, ks[q])
  <2>1. /\ IsListOf(h, q, ks[q])
        /\ \A k \in 1..Len(ks[q]) : ks[q][k] \in h.live /\ par[ks[q][k]] = q
    BY <1>3, KidsItems
  <2>2. \A k \in 1..Len(ks[q]) : g.next[ks[q][k]] = h.next[ks[q][k]]
    BY <1>3, <2>1, AddressAssumption
  <2> QED BY <2>1, <2>2 DEF IsListOf
<1> QED BY <1>1, <1>2, <1>3 DEF Kids

\* What add_item_to_array writes.
LEMMA AppendHeap ==
    ASSUME NEW h \in Heap, NEW p \in Node, NEW i \in Node, p # i,
           h.child[p] # NULL => h.prev[h.child[p]] \in Node
    PROVE  LET g == AddItemToArray(h, p, i)
               f == h.child[p]
           IN  /\ g.live = h.live /\ g.isReference = h.isReference
               /\ f = NULL => /\ g.next = [h.next EXCEPT ![i] = NULL]
                              /\ g.child = [h.child EXCEPT ![p] = i]
               /\ f # NULL => /\ g.next = [h.next EXCEPT ![h.prev[f]] = i]
                              /\ g.child = h.child
<1> USE AddressAssumption
<1>1. AddItemToArrayAccepts(p, i)
  BY DEF AddItemToArrayAccepts
<1>2. CASE h.child[p] = NULL
  BY <1>1, <1>2 DEF AddItemToArray, Heap
<1>3. CASE h.child[p] # NULL
  <2>1. AddItemToArray(h, p, i)
          = [SuffixObject(h, h.prev[h.child[p]], i) EXCEPT !.prev[h.child[p]] = i]
    BY <1>1, <1>3 DEF AddItemToArray
  <2> QED BY <1>3, <2>1 DEF SuffixObject, Heap
<1> QED BY <1>2, <1>3

\* add_item_to_array appends.
LEMMA AppendKids ==
    ASSUME NEW h \in Heap, NEW R, NEW par, Linked(h, R, par), NEW ks, Kids(h, ks),
           NEW p \in h.live, p \notin h.isReference,
           NEW i \in R, p # i
    PROVE  Kids(AddItemToArray(h, p, i), [ks EXCEPT ![p] = Append(@, i)])
<1> DEFINE g == AddItemToArray(h, p, i)
           s == ks[p]
           t == Append(s, i)
<1> USE AddressAssumption DEF NodePtr
<1>h. /\ h.live \in SUBSET Node /\ h.next \in [Node -> NodePtr]
      /\ h.child \in [Node -> NodePtr] /\ ks \in [Node -> Seq(Node)]
  BY HeapTypes DEF Kids
<1>i. i \in h.live /\ par[i] = NULL /\ h.next[i] = NULL /\ i \in Node /\ p \in Node
  BY <1>h DEF Linked, TopItems
<1>s. /\ s \in Seq(Node) /\ Len(s) \in Nat /\ IsListOf(h, p, s) /\ Distinct(s)
      /\ \A k \in 1..Len(s) : s[k] \in h.live /\ s[k] \in Node /\ par[s[k]] = p
      /\ s # <<>> => h.prev[s[1]] = s[Len(s)]
  BY KidsItems
<1> HIDE DEF s
<1>t. /\ t \in Seq(Node) /\ Len(t) = Len(s) + 1
      /\ \A j \in 1..Len(s) : t[j] = s[j]
      /\ t[Len(s) + 1] = i
  BY <1>i, <1>s, AppendItems
<1> HIDE DEF t
<1>f. s # <<>> => /\ h.child[p] = s[1] /\ h.child[p] # NULL
                  /\ h.prev[h.child[p]] = s[Len(s)] /\ s[Len(s)] \in Node
                  /\ Len(s) \in 1..Len(s) /\ 1 \in 1..Len(s)
  BY <1>s DEF IsListOf, ItemAt
<1>e. s = <<>> => h.child[p] = NULL
  BY <1>s DEF IsListOf, ItemAt
<1>g. /\ g.live = h.live /\ g.isReference = h.isReference
      /\ s = <<>> => /\ g.next = [h.next EXCEPT ![i] = NULL]
                     /\ g.child = [h.child EXCEPT ![p] = i]
      /\ s # <<>> => /\ g.next = [h.next EXCEPT ![s[Len(s)]] = i]
                     /\ g.child = h.child
  <2>1. h.child[p] # NULL => h.prev[h.child[p]] \in Node
    BY <1>f, <1>e
  <2>2. /\ g.live = h.live /\ g.isReference = h.isReference
        /\ h.child[p] = NULL => /\ g.next = [h.next EXCEPT ![i] = NULL]
                               /\ g.child = [h.child EXCEPT ![p] = i]
        /\ h.child[p] # NULL => /\ g.next = [h.next EXCEPT ![h.prev[h.child[p]]] = i]
                               /\ g.child = h.child
    BY <2>1, <1>i, AppendHeap
  <2> HIDE DEF g
  <2> QED BY <2>2, <1>f, <1>e
<1> HIDE DEF g
<1>1. IsListOf(g, p, t)
  <2>1. CASE s = <<>>
    <3>1. Len(t) = 1 /\ t[1] = i /\ g.child[p] = i /\ g.next[i] = NULL
      BY <2>1, <1>t, <1>g, <1>h, <1>i
    <3> QED BY <3>1 DEF IsListOf, ItemAt
  <2>2. CASE s # <<>>
    <3>1. g.child[p] = ItemAt(t, 1)
      BY <2>2, <1>f, <1>g, <1>t DEF ItemAt
    <3>2. ASSUME NEW k \in 1..Len(t) PROVE g.next[t[k]] = ItemAt(t, k + 1)
      <4>1. CASE k = Len(s) + 1
        <5>1. t[k] = i /\ i # s[Len(s)]
          BY <4>1, <1>t, <1>i, <1>s, <1>f, <2>2
        <5>2. g.next[i] = NULL
          BY <5>1, <2>2, <1>g, <1>i, <1>h
        <5> QED BY <4>1, <5>1, <5>2, <1>t, <1>s DEF ItemAt
      <4>2. CASE k = Len(s)
        <5>1. t[k] = s[Len(s)] /\ ItemAt(t, k + 1) = i
          BY <4>2, <1>t, <1>f, <1>s, <2>2 DEF ItemAt
        <5> QED BY <5>1, <2>2, <1>f, <1>g, <1>h
      <4>3. CASE k < Len(s)
        <5>1. /\ k \in 1..Len(s) /\ k + 1 \in 1..Len(s) /\ t[k] = s[k] /\ t[k + 1] = s[k + 1]
              /\ k # Len(s)
          BY <4>3, <1>t, <1>s
        <5>2. s[k] # s[Len(s)] /\ h.next[s[k]] = s[k + 1]
          BY <5>1, <1>s, <1>f, <2>2 DEF Distinct, IsListOf, ItemAt
        <5>3. g.next[s[k]] = h.next[s[k]]
          BY <5>1, <5>2, <2>2, <1>g, <1>h, <1>s
        <5> QED BY <5>1, <5>2, <5>3, <1>t, <1>s DEF ItemAt
      <4> QED BY <4>1, <4>2, <4>3, <1>t, <1>s
    <3> QED BY <3>1, <3>2 DEF IsListOf
  <2> QED BY <2>1, <2>2
<1>2. \A q \in Node \ {p} : g.child[q] = h.child[q]
  BY <1>g, <1>h
<1>3. \A n \in h.live : par[n] # NULL /\ par[n] # p => g.next[n] = h.next[n]
  <2> SUFFICES ASSUME NEW n \in h.live, par[n] # NULL, par[n] # p
               PROVE  g.next[n] = h.next[n]
    OBVIOUS
  <2>1. n # i /\ (s # <<>> => n # s[Len(s)])
    BY <1>i, <1>s, <1>f
  <2> QED BY <2>1, <1>g, <1>h
<1>4. Kids(g, [ks EXCEPT ![p] = t])
  <2>1. g.live = h.live /\ g.isReference = h.isReference /\ t \in Seq(Node)
    BY <1>g, <1>t
  <2> QED BY <1>1, <1>2, <1>3, <2>1, OneListChanges
<1> QED BY <1>4 DEF g, s, t

\* The place of an element in its list, and its neighbours' pointers.
LEMMA PlaceInList ==
    ASSUME NEW h \in Heap, NEW R, NEW par, Linked(h, R, par), NEW ks, Kids(h, ks),
           NEW p \in h.live, p \notin h.isReference, NEW i \in Members(h, p)
    PROVE  LET s == ks[p]
           IN  \E k \in 1..Len(s) :
                /\ s[k] = i
                /\ h.child[p] = s[1] /\ h.next[i] = ItemAt(s, k + 1)
                /\ h.prev[i] \in Node
                /\ k > 1 => h.prev[i] = s[k - 1]
<1> DEFINE s == ks[p]
<1>1. /\ s \in Seq(Node) /\ Len(s) \in Nat /\ IsListOf(h, p, s)
      /\ \A k \in 1..Len(s) : s[k] \in Node
      /\ Members(h, p) = {s[k] : k \in 1..Len(s)}
      /\ \A k \in 1..(Len(s) - 1) : h.prev[s[k + 1]] = s[k]
      /\ s # <<>> => h.prev[s[1]] = s[Len(s)]
  BY KidsItems
<1> HIDE DEF s
<1>2. PICK k \in 1..Len(s) : s[k] = i
  BY <1>1
<1>3. h.child[p] = s[1] /\ h.next[i] = ItemAt(s, k + 1)
  BY <1>1, <1>2 DEF IsListOf, ItemAt
<1>4. ASSUME k > 1 PROVE h.prev[i] = s[k - 1] /\ s[k - 1] \in Node
  <2>1. k - 1 \in 1..(Len(s) - 1) /\ (k - 1) + 1 = k /\ k - 1 \in 1..Len(s)
    BY <1>1, <1>4
  <2> QED BY <1>1, <1>2, <2>1
<1>5. k = 1 => h.prev[i] \in Node
  BY <1>1, <1>2
<1> QED BY <1>1, <1>2, <1>3, <1>4, <1>5 DEF s

\* What cJSON_DetachItemViaPointer writes, item by item.
LEMMA DetachItems ==
    ASSUME NEW h \in Heap, NEW p \in Node, NEW i \in Node, h.prev[i] \in Node
    PROVE  LET g == DetachItem(h, p, i)
           IN  /\ g.live = h.live /\ g.isReference = h.isReference
               /\ \A n \in Node : g.next[n] = IF n = i THEN NULL
                                              ELSE IF h.child[p] # i /\ n = h.prev[i]
                                              THEN h.next[i] ELSE h.next[n]
               /\ g.child[p] = IF h.child[p] = i THEN h.next[i] ELSE h.child[p]
               /\ \A q \in Node \ {p} : g.child[q] = h.child[q]
<1> DEFINE g == DetachItem(h, p, i)
           f == h.child[p]
           nxt == h.next[i]
           prv == h.prev[i]
           nx == [n \in Node |-> IF n = i THEN NULL
                                 ELSE IF f # i /\ n = prv THEN nxt ELSE h.next[n]]
           pv == [n \in Node |-> IF n = i THEN NULL
                                 ELSE IF n = nxt \/ (f # i /\ nxt = NULL /\ n = f)
                                 THEN prv ELSE h.prev[n]]
           ch == [h.child EXCEPT ![p] = IF f = i THEN nxt ELSE f]
<1>1. /\ g \in Heap
      /\ g.live = h.live /\ g.isReference = h.isReference /\ g.string = h.string
      /\ g.next = nx /\ g.prev = pv /\ g.child = ch
  <2>1. Detached(h, p, i)
    BY DetachHeap
  <2> QED BY <2>1 DEF Detached
<1>2. h.child \in [Node -> NodePtr]
  BY HeapTypes
<1> HIDE DEF g
<1>3. ch[p] = (IF f = i THEN nxt ELSE f) /\ \A q \in Node \ {p} : ch[q] = h.child[q]
  BY <1>2
<1> QED BY <1>1, <1>3 DEF g

\* cJSON_DetachItemViaPointer closes the gap.
LEMMA DetachKids ==
    ASSUME NEW h \in Heap, NEW R, NEW par, Linked(h, R, par), NEW ks, Kids(h, ks),
           NEW p \in h.live, p \notin h.isReference, NEW i \in Members(h, p)
    PROVE  Kids(DetachItem(h, p, i), [ks EXCEPT ![p] = Promise!Without(@, i)])
<1> DEFINE g == DetachItem(h, p, i)
           s == ks[p]
           t == Promise!Without(s, i)
<1> USE AddressAssumption DEF NodePtr
<1>h. /\ h.live \in SUBSET Node /\ h.next \in [Node -> NodePtr]
      /\ h.child \in [Node -> NodePtr] /\ ks \in [Node -> Seq(Node)]
  BY HeapTypes DEF Kids
<1>s. /\ s \in Seq(Node) /\ Len(s) \in Nat /\ IsListOf(h, p, s) /\ Distinct(s)
      /\ \A k \in 1..Len(s) : s[k] \in h.live /\ s[k] \in Node /\ par[s[k]] = p
  BY SMTT(30), KidsItems
<1>k. PICK k \in 1..Len(s) :
        /\ s[k] = i
        /\ h.child[p] = s[1] /\ h.next[i] = ItemAt(s, k + 1)
        /\ h.prev[i] \in Node
        /\ k > 1 => h.prev[i] = s[k - 1]
  BY PlaceInList
<1> HIDE DEF s
<1>t. /\ t \in Seq(Node) /\ Len(t) = Len(s) - 1
      /\ \A j \in 1..(Len(s) - 1) : t[j] = IF j < k THEN s[j] ELSE s[j + 1]
  BY <1>s, <1>k, WithoutItems
<1> HIDE DEF t
<1>i. i \in Node /\ p \in Node
  BY <1>h, <1>s, <1>k
<1>f. s[1] = i <=> k = 1
  BY <1>s, <1>k DEF Distinct
<1>g. /\ g.live = h.live /\ g.isReference = h.isReference
      /\ \A n \in Node : g.next[n] = IF n = i THEN NULL
                                     ELSE IF k # 1 /\ n = h.prev[i] THEN h.next[i] ELSE h.next[n]
      /\ g.child[p] = IF k = 1 THEN h.next[i] ELSE s[1]
      /\ \A q \in Node \ {p} : g.child[q] = h.child[q]
  <2>1. /\ g.live = h.live /\ g.isReference = h.isReference
        /\ \A n \in Node : g.next[n] = IF n = i THEN NULL
                                       ELSE IF h.child[p] # i /\ n = h.prev[i] THEN h.next[i]
                                       ELSE h.next[n]
        /\ g.child[p] = IF h.child[p] = i THEN h.next[i] ELSE h.child[p]
        /\ \A q \in Node \ {p} : g.child[q] = h.child[q]
    BY <1>i, <1>k, DetachItems
  <2> HIDE DEF g
  <2> QED BY <2>1, <1>f, <1>k
<1> HIDE DEF g
<1>1. IsListOf(g, p, t)
  <2>1. g.child[p] = ItemAt(t, 1)
    <3>1. CASE k = 1
      BY <3>1, <1>g, <1>h, <1>i, <1>k, <1>t, <1>s DEF ItemAt
    <3>2. CASE k # 1
      <4>1. 1 \in 1..(Len(s) - 1) /\ 1 < k
        BY <3>2, <1>s
      <4> QED BY <3>2, <4>1, <1>g, <1>h, <1>i, <1>t, <1>s DEF ItemAt
    <3> QED BY <3>1, <3>2
  <2>2. ASSUME NEW j \in 1..Len(t) PROVE g.next[t[j]] = ItemAt(t, j + 1)
    <3>1. CASE j >= k
      <4>1. j \in 1..(Len(s) - 1) /\ j + 1 \in 1..Len(s) /\ t[j] = s[j + 1] /\ j + 1 # k
        BY <3>1, <1>t, <1>s
      <4>2. s[j + 1] # i /\ (k # 1 => s[j + 1] # h.prev[i])
        <5>1. k # 1 => k - 1 \in 1..Len(s) /\ j + 1 # k - 1
          BY <3>1, <1>s
        <5> QED BY <4>1, <5>1, <1>k, <1>s DEF Distinct
      <4>3. g.next[t[j]] = ItemAt(s, (j + 1) + 1)
        BY <4>1, <4>2, <1>g, <1>s DEF IsListOf
      <4>4. ItemAt(s, (j + 1) + 1) = ItemAt(t, j + 1)
        BY <3>1, <4>1, <1>t, <1>s DEF ItemAt
      <4> QED BY <4>3, <4>4
    <3>2. CASE j = k - 1
      <4>1. /\ j \in 1..(Len(s) - 1) /\ j \in 1..Len(s) /\ t[j] = s[j] /\ s[j] = h.prev[i]
            /\ k # 1 /\ j # k
        BY <3>2, <1>k, <1>t, <1>s
      <4>2. s[j] # i
        BY <4>1, <1>k, <1>s DEF Distinct
      <4>3. g.next[t[j]] = ItemAt(s, k + 1)
        BY <4>1, <4>2, <1>g, <1>k, <1>s
      <4>4. ItemAt(s, k + 1) = ItemAt(t, j + 1)
        BY <3>2, <4>1, <1>t, <1>s DEF ItemAt
      <4> QED BY <4>3, <4>4
    <3>3. CASE j < k - 1
      <4>1. /\ j \in 1..(Len(s) - 1) /\ j \in 1..Len(s) /\ j + 1 \in 1..(Len(s) - 1)
            /\ t[j] = s[j] /\ t[j + 1] = s[j + 1] /\ k - 1 \in 1..Len(s) /\ j # k - 1 /\ j # k
        BY <3>3, <1>t, <1>s
      <4>2. s[j] # i /\ s[j] # h.prev[i]
        BY <4>1, <3>3, <1>k, <1>s DEF Distinct
      <4>3. g.next[t[j]] = ItemAt(s, j + 1)
        BY SMTT(30), <4>1, <4>2, <1>g, <1>s DEF IsListOf
      <4> QED BY <4>1, <4>3, <1>t, <1>s DEF ItemAt
    <3> QED BY <3>1, <3>2, <3>3, <1>t, <1>s
  <2> QED BY <2>1, <2>2 DEF IsListOf
<1>2. \A q \in Node \ {p} : g.child[q] = h.child[q]
  BY <1>g, <1>h
<1>3. \A n \in h.live : par[n] # NULL /\ par[n] # p => g.next[n] = h.next[n]
  <2> SUFFICES ASSUME NEW n \in h.live, par[n] # p
               PROVE  g.next[n] = h.next[n]
    OBVIOUS
  <2>1. n # i /\ (k # 1 => n # h.prev[i])
    <3>1. k # 1 => k - 1 \in 1..Len(s) /\ h.prev[i] = s[k - 1]
      BY <1>k, <1>s
    <3> QED BY <3>1, <1>k, <1>s
  <2> QED BY <2>1, <1>g, <1>h
<1>4. Kids(g, [ks EXCEPT ![p] = t])
  <2>1. g.live = h.live /\ g.isReference = h.isReference /\ t \in Seq(Node)
    BY <1>g, <1>t
  <2> QED BY <1>1, <1>2, <1>3, <2>1, OneListChanges
<1> QED BY <1>4 DEF g, s, t

\* cJSON_InsertItemInArray shifts what follows to the right.
LEMMA InsertKids ==
    ASSUME NEW h \in Heap, NEW R, NEW par, Linked(h, R, par), NEW ks, Kids(h, ks),
           NEW p \in h.live, p \notin h.isReference, NEW a \in Members(h, p), NEW i \in R
    PROVE  Kids(InsertItemInArray(h, p, a, i), [ks EXCEPT ![p] = Promise!InsertBefore(@, a, i)])
<1> DEFINE g == InsertItemInArray(h, p, a, i)
           s == ks[p]
           t == Promise!InsertBefore(s, a, i)
<1> USE AddressAssumption DEF NodePtr
<1>h. /\ h.live \in SUBSET Node /\ h.next \in [Node -> NodePtr]
      /\ h.child \in [Node -> NodePtr] /\ ks \in [Node -> Seq(Node)]
  BY HeapTypes DEF Kids
<1>s. /\ s \in Seq(Node) /\ Len(s) \in Nat /\ IsListOf(h, p, s) /\ Distinct(s)
      /\ \A k \in 1..Len(s) : s[k] \in h.live /\ s[k] \in Node /\ par[s[k]] = p
  BY SMTT(30), KidsItems
<1>k. PICK k \in 1..Len(s) :
        /\ s[k] = a
        /\ h.child[p] = s[1] /\ h.next[a] = ItemAt(s, k + 1)
        /\ h.prev[a] \in Node
        /\ k > 1 => h.prev[a] = s[k - 1]
  BY PlaceInList
<1> HIDE DEF s
<1>i. /\ i \in Node /\ p \in Node /\ a \in Node /\ i \in h.live /\ par[i] = NULL /\ i # a
      /\ \A k0 \in 1..Len(s) : s[k0] # i
  BY <1>h, <1>s, <1>k DEF Linked, TopItems
<1>t. /\ t \in Seq(Node) /\ Len(t) = Len(s) + 1
      /\ \A j \in 1..(Len(s) + 1) : t[j] = IF j < k THEN s[j] ELSE IF j = k THEN i ELSE s[j - 1]
  BY <1>s, <1>k, <1>i, InsertItems
<1> HIDE DEF t
<1>f. s[1] = a <=> k = 1
  BY <1>s, <1>k DEF Distinct
<1>g. /\ g.live = h.live /\ g.isReference = h.isReference
      /\ g.next = [n \in Node |-> IF n = i THEN a
                                  ELSE IF k # 1 /\ n = h.prev[a] THEN i ELSE h.next[n]]
      /\ g.child = [h.child EXCEPT ![p] = IF k = 1 THEN i ELSE s[1]]
  <2>1. /\ g.live = h.live /\ g.isReference = h.isReference
        /\ g.next = InsertNext(h, p, a, i) /\ g.child = InsertChild(h, p, a, i)
    BY <1>i, <1>k, InsertHeap
  <2> HIDE DEF g
  <2> QED BY <2>1, <1>f, <1>k DEF InsertNext, InsertChild
<1> HIDE DEF g
<1>1. IsListOf(g, p, t)
  <2>1. g.child[p] = ItemAt(t, 1)
    BY SMTT(30), <1>g, <1>h, <1>i, <1>t, <1>s DEF ItemAt
  <2>2. ASSUME NEW j \in 1..Len(t) PROVE g.next[t[j]] = ItemAt(t, j + 1)
    <3>1. CASE j = k
      <4>1. t[j] = i /\ ItemAt(t, j + 1) = s[k]
        BY <3>1, <1>t, <1>s DEF ItemAt
      <4> QED BY <4>1, <1>g, <1>i, <1>k
    <3>2. CASE j > k
      <4>1. j - 1 \in 1..Len(s) /\ t[j] = s[j - 1] /\ s[j - 1] # i
        BY <3>2, <1>t, <1>s, <1>i
      <4>2. k # 1 => s[j - 1] # h.prev[a]
        <5>1. k # 1 => k - 1 \in 1..Len(s) /\ j - 1 # k - 1
          BY <3>2, <1>s, <1>t
        <5> QED BY <4>1, <5>1, <1>k, <1>s DEF Distinct
      <4>3. g.next[t[j]] = ItemAt(s, (j - 1) + 1)
        BY <4>1, <4>2, <1>g, <1>s DEF IsListOf
      <4>4. ItemAt(s, (j - 1) + 1) = ItemAt(t, j + 1)
        BY <3>2, <1>t, <1>s DEF ItemAt
      <4> QED BY <4>3, <4>4
    <3>3. CASE j = k - 1
      <4>1. j \in 1..Len(s) /\ t[j] = s[j] /\ s[j] # i /\ s[j] = h.prev[a] /\ k # 1
        BY <3>3, <1>k, <1>t, <1>s, <1>i
      <4>2. ItemAt(t, j + 1) = i
        BY <3>3, <1>t, <1>s DEF ItemAt
      <4>3. g.next[s[j]] = i
        BY <4>1, <1>g, <1>s
      <4> QED BY <4>1, <4>2, <4>3
    <3>4. CASE j < k - 1
      <4>1. /\ j \in 1..Len(s) /\ j + 1 \in 1..Len(s) /\ j \in 1..(Len(s) + 1)
            /\ j + 1 \in 1..(Len(s) + 1) /\ j < k /\ j + 1 < k
            /\ k - 1 \in 1..Len(s) /\ j # k - 1
        BY <3>4, <1>t, <1>s
      <4>0. t[j] = s[j] /\ s[j] # i /\ t[j + 1] = s[j + 1]
        BY <4>1, <1>t, <1>i
      <4>2. s[j] # h.prev[a]
        BY <4>1, <3>4, <1>k, <1>s DEF Distinct
      <4>3. g.next[t[j]] = ItemAt(s, j + 1)
        BY SMTT(30), <4>0, <4>1, <4>2, <1>g, <1>s DEF IsListOf
      <4> QED BY <4>0, <4>1, <4>3, <1>t, <1>s DEF ItemAt
    <3> QED BY <3>1, <3>2, <3>3, <3>4, <1>t, <1>s
  <2> QED BY <2>1, <2>2 DEF IsListOf
<1>2. \A q \in Node \ {p} : g.child[q] = h.child[q]
  BY <1>g, <1>h
<1>3. \A n \in h.live : par[n] # NULL /\ par[n] # p => g.next[n] = h.next[n]
  <2> SUFFICES ASSUME NEW n \in h.live, par[n] # NULL, par[n] # p
               PROVE  g.next[n] = h.next[n]
    OBVIOUS
  <2>1. n # i /\ (k # 1 => n # h.prev[a])
    <3>1. k # 1 => k - 1 \in 1..Len(s) /\ h.prev[a] = s[k - 1]
      BY <1>k, <1>s
    <3> QED BY <3>1, <1>i, <1>s
  <2> QED BY <2>1, <1>g, <1>h
<1>4. Kids(g, [ks EXCEPT ![p] = t])
  <2>1. g.live = h.live /\ g.isReference = h.isReference /\ t \in Seq(Node)
    BY <1>g, <1>t
  <2> QED BY <1>1, <1>2, <1>3, <2>1, OneListChanges
<1> QED BY <1>4 DEF g, s, t

\* Inserting an item before another and taking that one out substitutes it.
LEMMA InsertWithout ==
    ASSUME NEW s \in Seq(Node), Distinct(s), NEW k \in 1..Len(s), NEW i \in Node,
           \A j \in 1..Len(s) : s[j] # i
    PROVE  Promise!Without(Promise!InsertBefore(s, s[k], i), s[k]) = Promise!Substitute(s, s[k], i)
<1> DEFINE t == Promise!InsertBefore(s, s[k], i)
           u == Promise!Without(t, s[k])
           v == Promise!Substitute(s, s[k], i)
<1>1. Len(s) \in Nat
  BY LenProperties
<1>2. /\ t \in Seq(Node) /\ Len(t) = Len(s) + 1
      /\ \A j \in 1..(Len(s) + 1) : t[j] = IF j < k THEN s[j] ELSE IF j = k THEN i ELSE s[j - 1]
  BY InsertItems
<1>3. /\ v \in Seq(Node) /\ Len(v) = Len(s)
      /\ \A j \in 1..Len(s) : v[j] = IF j = k THEN i ELSE s[j]
  <2> HIDE DEF t, u
  <2>1. LET w == Promise!Substitute(s, s[k], i)
        IN  /\ w \in Seq(Node) /\ Len(w) = Len(s)
            /\ \A j \in 1..Len(s) : w[j] = IF j = k THEN i ELSE s[j]
    BY SubstituteItems
  <2> QED BY <2>1
<1> HIDE DEF t, v
<1>4. k + 1 \in 1..Len(t) /\ t[k + 1] = s[k]
  BY <1>1, <1>2
<1>5. Distinct(t)
  <2> SUFFICES ASSUME NEW j \in 1..Len(t), NEW m \in 1..Len(t), t[j] = t[m] PROVE j = m
    BY DEF Distinct
  <2> DEFINE old(x) == IF x < k THEN x ELSE x - 1
  <2>1. \A x \in 1..Len(t) : x # k => old(x) \in 1..Len(s) /\ t[x] = s[old(x)]
    BY <1>1, <1>2
  <2>2. t[k] = i /\ k \in 1..Len(t)
    BY <1>1, <1>2
  <2>3. CASE j = k \/ m = k
    BY <2>1, <2>2, <2>3
  <2>4. CASE j # k /\ m # k
    <3>1. old(j) = old(m)
      BY <2>1, <2>4 DEF Distinct
    <3> QED BY <3>1, <2>4, <1>1, <1>2
  <2> QED BY <2>3, <2>4
<1>6. /\ u \in Seq(Node) /\ Len(u) = Len(t) - 1
      /\ \A j \in 1..(Len(t) - 1) : u[j] = IF j < k + 1 THEN t[j] ELSE t[j + 1]
  <2>1. u = Promise!Without(t, t[k + 1])
    BY <1>4
  <2>2. LET w == Promise!Without(t, t[k + 1])
        IN  /\ w \in Seq(Node) /\ Len(w) = Len(t) - 1
            /\ \A j \in 1..(Len(t) - 1) : w[j] = IF j < k + 1 THEN t[j] ELSE t[j + 1]
    <3> HIDE DEF u
    <3> QED BY <1>2, <1>4, <1>5, WithoutItems
  <2> HIDE DEF u
  <2> QED BY <2>1, <2>2
<1> HIDE DEF u
<1>7. Len(u) = Len(v) /\ \A j \in 1..Len(u) : u[j] = v[j]
  <2> SUFFICES ASSUME NEW j \in 1..Len(s) PROVE u[j] = v[j]
    BY <1>1, <1>2, <1>3, <1>6
  <2>1. j \in 1..(Len(t) - 1) /\ j \in 1..(Len(s) + 1) /\ j + 1 \in 1..(Len(s) + 1)
    BY <1>1, <1>2
  <2>2. CASE j < k + 1
    BY <1>1, <1>2, <1>3, <1>6, <2>1, <2>2
  <2>3. CASE ~(j < k + 1)
    <3>1. (j + 1) - 1 = j /\ j # k /\ ~(j + 1 < k) /\ j + 1 # k
      BY <1>1, <2>3
    <3>2. u[j] = t[j + 1]
      BY <1>6, <2>1, <2>3
    <3>3. t[j + 1] = s[j]
      BY <1>2, <2>1, <3>1
    <3> QED BY <3>1, <3>2, <3>3, <1>3
  <2> QED BY <2>2, <2>3
<1>8. u = v
  BY <1>3, <1>6, <1>7, SeqEqual
<1> QED BY <1>8 DEF u, v, t

-----------------------------------------------------------------------------
(* Trees *)

LEMMA ToSetEmpty == Promise!ToSet(<<>>) = {}
  BY DEF Promise!ToSet

LEMMA ToSetIsMembers ==
    ASSUME NEW h \in Heap, NEW R, NEW par, Linked(h, R, par), NEW ks, Kids(h, ks),
           NEW p \in h.live, p \notin h.isReference
    PROVE  Promise!ToSet(ks[p]) = Members(h, p)
<1>1. /\ ks[p] \in Seq(Node) /\ Members(h, p) = {ks[p][k] : k \in 1..Len(ks[p])}
  BY KidsItems
<1>2. DOMAIN ks[p] = 1..Len(ks[p])
  BY <1>1, LenProperties
<1>3. Promise!ToSet(ks[p]) = {ks[p][k] : k \in DOMAIN ks[p]}
  BY DEF Promise!ToSet
<1> QED BY <1>1, <1>2, <1>3

\* What cJSON_Delete frees with an item in no list is the item and what is
\* below it.
LEMMA SubtreeIsReach ==
    ASSUME NEW h \in Heap, NEW R, NEW par, Linked(h, R, par), NEW ks, Kids(h, ks),
           NEW r \in R
    PROVE  Promise!Subtree(ks, r) = Reach(h, {r})
<1> DEFINE KidsClosed(C) == \A k \in C : Promise!ToSet(ks[k]) \subseteq C
           D == Reach(h, {r})
<1> USE AddressAssumption DEF NodePtr
<1>h. /\ h.live \in SUBSET Node /\ ks \in [Node -> Seq(Node)] /\ par \in [Node -> NodePtr]
      /\ r \in h.live /\ r \in Node /\ h.next[r] = NULL
  BY HeapTypes DEF Kids, Linked, TopItems
<1>s. Promise!Subtree(ks, r)
        = {j \in Node : \A C \in SUBSET Node : r \in C /\ KidsClosed(C) => j \in C}
  BY DEF Promise!Subtree
<1>1. KidsClosed(D) /\ r \in D /\ D \in SUBSET Node
  <2>1. D \subseteq h.live /\ r \in D /\ Closed(h, D)
    BY DeleteSetIsTree
  <2>2. ASSUME NEW k \in D PROVE Promise!ToSet(ks[k]) \subseteq D
    <3>1. CASE k \in h.isReference
      <4>1. ks[k] = <<>>
        BY <1>h, <2>1, <3>1 DEF Kids
      <4> QED BY <4>1, ToSetEmpty
    <3>2. CASE k \notin h.isReference
      <4>1. k \in h.live /\ D \in SUBSET Node
        BY <1>h, <2>1
      <4>2. Promise!ToSet(ks[k]) = Members(h, k)
        BY <4>1, <3>2, ToSetIsMembers
      <4>3. Members(h, k) \subseteq D
        <5> HIDE DEF D
        <5> QED BY <2>1, <4>1, <3>2, ClosedMembers
      <4> QED BY <4>2, <4>3
    <3> QED BY <3>1, <3>2
  <2> QED BY <1>h, <2>1, <2>2
<1>2. ASSUME NEW C \in SUBSET Node, r \in C, KidsClosed(C) PROVE D \subseteq C
  <2> DEFINE X == {n \in h.live : n \in C /\ (n = r \/ par[n] \in C)}
  <2>1. ASSUME NEW p \in h.live, p \notin h.isReference, p \in C, NEW n \in h.live, par[n] = p
        PROVE  n \in X
    <3>1. n \in Members(h, p)
      BY <2>1, MembersOf
    <3>2. Promise!ToSet(ks[p]) = Members(h, p)
      BY <2>1, ToSetIsMembers
    <3>3. Promise!ToSet(ks[p]) \subseteq C
      BY <2>1, <1>2
    <3> QED BY <2>1, <3>1, <3>2, <3>3
  <2>2. Closed(h, X)
    <3> SUFFICES ASSUME NEW n \in X, NEW s \in OwnedSucc(h, n) PROVE s \in X
      BY DEF Closed
    <3>1. CASE s = h.next[n]
      <4>1. s \in h.live /\ par[s] = par[n] /\ n # r /\ par[n] # NULL
        BY <3>1, <1>h DEF OwnedSucc, Linked, Forward
      <4>2. par[n] \in h.live /\ par[n] \notin h.isReference /\ par[n] \in C
        BY <4>1 DEF Linked, Listed
      <4> QED BY <4>1, <4>2, <2>1
    <3>2. CASE s = h.child[n] /\ n \notin h.isReference
      BY <3>2, <2>1 DEF OwnedSucc, Linked, FirstChild
    <3> QED BY <3>1, <3>2 DEF OwnedSucc
  <2>3. r \in X /\ X \in SUBSET Node
    BY <1>2, <1>h
  <2>4. D \subseteq X
    <3> HIDE DEF X
    <3> QED BY <2>2, <2>3, ReachLeast
  <2> QED BY <2>4
<1> HIDE DEF D, KidsClosed
<1> QED BY <1>s, <1>1, <1>2 DEF D

\* cJSON_Delete takes a whole tree away and leaves the other lists alone.
LEMMA DeleteKids ==
    ASSUME NEW h \in Heap, NEW R, NEW par, Linked(h, R, par), NEW ks, Kids(h, ks),
           NEW r \in R
    PROVE  Kids(Delete(h, r), Promise!Drop(ks, Reach(h, {r})))
<1> DEFINE g == Delete(h, r)
           D == Reach(h, {r})
           kt == Promise!Drop(ks, D)
<1> USE AddressAssumption DEF NodePtr
<1>h. /\ h.live \in SUBSET Node /\ ks \in [Node -> Seq(Node)] /\ par \in [Node -> NodePtr]
      /\ r \in h.live /\ r \in Node /\ par[r] = NULL
      /\ DOMAIN h.next = Node /\ DOMAIN h.child = Node
  BY HeapTypes DEF Kids, Linked, TopItems
<1>d. \A n \in D : n = r \/ par[n] \in D
  BY DeleteSetIsTree
<1> HIDE DEF D
<1>g. /\ g.live = h.live \ D /\ g.isReference = h.isReference \ D
      /\ \A n \in Node \ D : g.next[n] = h.next[n] /\ g.child[n] = h.child[n]
  <2>1. /\ g.live = h.live \ D /\ g.isReference = h.isReference \ D
        /\ g.next = Erase(h.next, D, NULL) /\ g.child = Erase(h.child, D, NULL)
    BY <1>h, DeleteHeap DEF D
  <2> HIDE DEF g
  <2> QED BY <2>1, <1>h DEF Erase
<1> HIDE DEF g
<1>k. kt = [i \in Node |-> IF i \in D THEN <<>> ELSE ks[i]]
  BY DEF Promise!Drop
<1> HIDE DEF kt
<1>1. kt \in [Node -> Seq(Node)]
  <2>1. <<>> \in Seq(Node)
    BY EmptySeq
  <2> QED BY <2>1, <1>k, <1>h
<1>2. ASSUME NEW p \in Node
      PROVE  IF p \in g.live /\ p \notin g.isReference THEN IsListOf(g, p, kt[p]) ELSE kt[p] = <<>>
  <2>1. CASE p \in D
    BY <2>1, <1>g, <1>k
  <2>2. CASE p \notin D /\ ~(p \in h.live /\ p \notin h.isReference)
    BY <2>2, <1>g, <1>k DEF Kids
  <2>3. CASE p \notin D /\ p \in h.live /\ p \notin h.isReference
    <3>1. /\ IsListOf(h, p, ks[p])
          /\ \A k \in 1..Len(ks[p]) : ks[p][k] \in Node /\ par[ks[p][k]] = p
      BY <2>3, KidsItems
    <3>2. \A k \in 1..Len(ks[p]) : ks[p][k] \notin D
      BY <3>1, <2>3, <1>d, <1>h
    <3>3. kt[p] = ks[p] /\ p \in g.live /\ p \notin g.isReference
      BY <2>3, <1>k, <1>g
    <3>4. IsListOf(g, p, ks[p])
      BY <3>1, <3>2, <2>3, <1>g DEF IsListOf
    <3> QED BY <3>3, <3>4
  <2> QED BY <2>1, <2>2, <2>3
<1>3. Kids(g, kt)
  BY <1>1, <1>2 DEF Kids
<1> QED BY <1>3 DEF g, kt, D

\* No item is below itself.
LEMMA NoCycle ==
    ASSUME NEW h \in Heap, NEW R, NEW par, Linked(h, R, par),
           NEW D \in SUBSET h.live,
           \A n \in D : par[n] \in D, \A n \in h.live : par[n] \in D => n \in D
    PROVE  D = {}
<1> DEFINE X == h.live \ D
<1>1. Tops(h, par) \subseteq X
  BY HeapTypes, AddressAssumption DEF Tops
<1>2. Closed(h, X)
  BY DEF Closed, OwnedSucc, Linked, Forward, FirstChild
<1>3. X \in SUBSET Node
  BY HeapTypes
<1>4. h.live \subseteq X
  <2> HIDE DEF X
  <2> QED BY <1>1, <1>2, <1>3, ReachLeast DEF Linked, Reached
<1> QED BY <1>4

LEMMA SubtreeLeast ==
    ASSUME NEW ks \in [Node -> Seq(Node)], NEW i \in Node
    PROVE  LET D == Promise!Subtree(ks, i)
           IN  /\ D \in SUBSET Node /\ i \in D
               /\ \A k \in D : Promise!ToSet(ks[k]) \subseteq D
               /\ \A C \in SUBSET Node :
                    i \in C /\ (\A k \in C : Promise!ToSet(ks[k]) \subseteq C) => D \subseteq C
<1> DEFINE KidsClosed(C) == \A k \in C : Promise!ToSet(ks[k]) \subseteq C
           D == Promise!Subtree(ks, i)
<1>1. D = {j \in Node : \A C \in SUBSET Node : i \in C /\ KidsClosed(C) => j \in C}
  BY DEF Promise!Subtree
<1>2. \A k \in Node : Promise!ToSet(ks[k]) \subseteq Node
  <2> SUFFICES ASSUME NEW k \in Node PROVE Promise!ToSet(ks[k]) \subseteq Node
    OBVIOUS
  <2>1. ks[k] \in Seq(Node)
    OBVIOUS
  <2>2. \A j \in DOMAIN ks[k] : ks[k][j] \in Node
    BY <2>1, LenProperties
  <2> QED BY <2>2 DEF Promise!ToSet
<1> HIDE DEF D
<1>3. D \in SUBSET Node /\ i \in D
  BY <1>1
<1>4. ASSUME NEW C \in SUBSET Node, i \in C, KidsClosed(C) PROVE D \subseteq C
  <2> HIDE DEF KidsClosed
  <2> QED BY <1>1, <1>4
<1>5. ASSUME NEW k \in D, NEW m \in Promise!ToSet(ks[k]) PROVE m \in D
  <2>1. k \in Node /\ m \in Node
    BY <1>2, <1>3
  <2>2. ASSUME NEW C \in SUBSET Node, i \in C, KidsClosed(C) PROVE m \in C
    <3>1. k \in C
      BY <1>4, <2>2
    <3> QED BY <2>2, <3>1
  <2> HIDE DEF KidsClosed
  <2> QED BY <1>1, <2>1, <2>2
<1> QED BY <1>3, <1>4, <1>5 DEF D

SameElsewhere(ks, kt, p) == \A q \in Node \ {p} : ks[q] = kt[q]

\* What is below an item does not depend on a list that is not below it.
LEMMA SubtreeAside ==
    ASSUME NEW ks \in [Node -> Seq(Node)], NEW kt \in [Node -> Seq(Node)],
           NEW p \in Node, NEW i \in Node, SameElsewhere(ks, kt, p),
           p \notin Promise!Subtree(kt, i)
    PROVE  Promise!Subtree(ks, i) = Promise!Subtree(kt, i)
<1> DEFINE D == Promise!Subtree(kt, i)
           E == Promise!Subtree(ks, i)
<1>1. /\ D \in SUBSET Node /\ i \in D /\ p \notin D
      /\ \A k \in D : Promise!ToSet(kt[k]) \subseteq D
      /\ \A C \in SUBSET Node :
           i \in C /\ (\A k \in C : Promise!ToSet(kt[k]) \subseteq C) => D \subseteq C
  BY SubtreeLeast
<1>2. /\ E \in SUBSET Node /\ i \in E
      /\ \A k \in E : Promise!ToSet(ks[k]) \subseteq E
      /\ \A C \in SUBSET Node :
           i \in C /\ (\A k \in C : Promise!ToSet(ks[k]) \subseteq C) => E \subseteq C
  BY SubtreeLeast
<1> HIDE DEF D, E
<1>e. \A k \in Node : k # p => ks[k] = kt[k]
  BY DEF SameElsewhere
<1>3. \A k \in D : Promise!ToSet(ks[k]) \subseteq D
  BY <1>1, <1>e
<1>4. E \subseteq D
  BY <1>1, <1>2, <1>3
<1>5. \A k \in E : Promise!ToSet(kt[k]) \subseteq E
  BY ZenonT(30), <1>1, <1>2, <1>4, <1>e
<1>6. D \subseteq E
  BY <1>1, <1>2, <1>5
<1> QED BY <1>4, <1>6 DEF D, E

-----------------------------------------------------------------------------
(* What each operation does to a heap and the children it stands for *)

LEMMA MapsParts ==
    ASSUME NEW h, NEW R, NEW ks, Maps(h, R, ks)
    PROVE  /\ LinksInv(h, R) /\ Kids(h, ks) /\ h \in Heap
           /\ R \in SUBSET h.live /\ h.live \in SUBSET Node /\ h.isReference \subseteq h.live
           /\ ks \in [Node -> Seq(Node)]
           /\ \E par \in [Node -> NodePtr] : Linked(h, R, par)
<1>1. LinksInv(h, R) /\ Kids(h, ks)
  BY DEF Maps
<1>2. h \in Heap /\ h.isReference \subseteq h.live /\ \E par \in [Node -> NodePtr] : Linked(h, R, par)
  BY <1>1 DEF LinksInv, HeapOK
<1>3. R \subseteq h.live /\ h.live \subseteq Node
  BY <1>1, RootLinks
<1> QED BY <1>1, <1>2, <1>3 DEF Kids

\* A change of strings or flags changes no order.
LEMMA SameMaps ==
    ASSUME NEW h, NEW R, NEW ks, Maps(h, R, ks), NEW g, LinksInv(g, R), SameLinks(g, h)
    PROVE  Maps(g, R, ks)
  BY DEF Maps, Kids, IsListOf, SameLinks

\* A fresh item has no children of its own.
LEMMA FreshMaps ==
    ASSUME NEW h, NEW R, NEW ks, Maps(h, R, ks),
           NEW g, NEW Q, LinksInv(g, Q), NEW n \in Node \ h.live,
           g.live = h.live \cup {n},
           g.next = [h.next EXCEPT ![n] = NULL],
           \A m \in h.live : g.child[m] = h.child[m],
           g.isReference \in {h.isReference, h.isReference \cup {n}},
           n \in g.isReference \/ g.child[n] = NULL
    PROVE  Maps(g, Q, ks)
<1>1. /\ Kids(h, ks) /\ h \in Heap /\ h.live \in SUBSET Node /\ h.isReference \subseteq h.live
      /\ ks \in [Node -> Seq(Node)]
  BY MapsParts
<1>2. PICK par \in [Node -> NodePtr] : Linked(h, R, par)
  BY MapsParts
<1>3. ASSUME NEW p \in h.live, p \notin h.isReference PROVE IsListOf(g, p, ks[p])
  <2>1. IsListOf(h, p, ks[p]) /\ \A k \in 1..Len(ks[p]) : ks[p][k] \in h.live
    BY <1>1, <1>2, <1>3, KidsItems
  <2>2. \A m \in h.live : g.next[m] = h.next[m]
    BY <1>1, HeapTypes
  <2> QED BY <2>1, <2>2 DEF IsListOf
<1>4. ks[n] = <<>>
  BY <1>1 DEF Kids
<1>5. n \notin g.isReference => IsListOf(g, n, ks[n])
  BY <1>4 DEF IsListOf, ItemAt
<1>6. Kids(g, ks)
  <2> SUFFICES ASSUME NEW p \in Node
               PROVE  IF p \in g.live /\ p \notin g.isReference
                      THEN IsListOf(g, p, ks[p]) ELSE ks[p] = <<>>
    BY <1>1 DEF Kids
  <2>1. CASE p = n
    BY <2>1, <1>4, <1>5
  <2>2. CASE p # n
    <3>1. (p \in g.live <=> p \in h.live) /\ (p \in g.isReference <=> p \in h.isReference)
      BY <2>2
    <3>2. ~(p \in h.live /\ p \notin h.isReference) => ks[p] = <<>>
      BY <1>1 DEF Kids
    <3> QED BY <3>1, <3>2, <1>3
  <2> QED BY <2>1, <2>2
<1> QED BY <1>6 DEF Maps

\* The heap h stands for the forest with these items, held and ks.
Stands(h, items, held, ks) == Maps(h, held, ks) /\ h.live = items

Owns(h, p) == p \in h.live /\ p \notin h.isReference
Childless(h, n) == n \in h.isReference \/ h.child[n] = NULL

Appended(ks, p, i) == [ks EXCEPT ![p] = Append(@, i)]
Inserted(ks, p, a, i) == [ks EXCEPT ![p] = Promise!InsertBefore(@, a, i)]
Substituted(ks, p, a, i) == [ks EXCEPT ![p] = Promise!Substitute(@, a, i)]
Removed(ks, p, i) == [ks EXCEPT ![p] = Promise!Without(@, i)]

LEMMA NewItemStands ==
    ASSUME NEW h, NEW L, NEW R, NEW ks, Stands(h, L, R, ks),
           NEW n \in Node \ L, NEW t \in Type
    PROVE  /\ Stands(NewItem(h, n, t), L \cup {n}, R \cup {n}, ks)
           /\ Childless(NewItem(h, n, t), n)
           /\ \A p : Owns(h, p) => Owns(NewItem(h, n, t), p)
<1>0. Maps(h, R, ks) /\ h.live = L
  BY DEF Stands
<1>1. /\ LinksInv(h, R) /\ h \in Heap /\ h.isReference \subseteq h.live /\ n \in Node \ h.live
  BY <1>0, MapsParts
<1> DEFINE b == NewItem(h, n, t)
<1>2. /\ b \in Heap
      /\ b.live = h.live \cup {n}
      /\ b.next = [h.next EXCEPT ![n] = NULL]
      /\ b.prev = [h.prev EXCEPT ![n] = NULL]
      /\ b.child = [h.child EXCEPT ![n] = NULL]
      /\ b.string = [h.string EXCEPT ![n] = NULL]
      /\ b.isReference = h.isReference \ {n}
      /\ b.stringIsConst = h.stringIsConst \ {n}
  BY <1>1, NewItemHeap
<1>3. LinksInv(b, R \cup {n})
  BY <1>1, NewItemLinks
<1> HIDE DEF b
<1>4. /\ b.isReference = h.isReference /\ b.next[n] = NULL /\ b.child[n] = NULL
      /\ \A m \in h.live : b.child[m] = h.child[m]
  BY <1>1, <1>2, HeapTypes
<1>5. Maps(b, R \cup {n}, ks)
  BY <1>0, <1>1, <1>2, <1>3, <1>4, FreshMaps
<1>6. /\ Stands(b, L \cup {n}, R \cup {n}, ks) /\ Childless(b, n)
      /\ \A p : Owns(h, p) => Owns(b, p)
  BY <1>0, <1>2, <1>4, <1>5 DEF Stands, Childless, Owns
<1> QED BY <1>6 DEF b

LEMMA ReferenceItemStands ==
    ASSUME NEW h, NEW L, NEW R, NEW ks, Stands(h, L, R, ks),
           NEW n \in Node \ L, NEW t \in Type,
           NEW c \in NodePtr, NEW v \in StrPtr, NEW K \in SUBSET {n}
    PROVE  /\ Stands(ReferenceItem(h, n, t, c, v, K), L \cup {n}, R \cup {n}, ks)
           /\ Childless(ReferenceItem(h, n, t, c, v, K), n)
           /\ \A p : Owns(h, p) => Owns(ReferenceItem(h, n, t, c, v, K), p)
<1>0. Maps(h, R, ks) /\ h.live = L
  BY DEF Stands
<1>1. LinksInv(h, R) /\ h \in Heap /\ n \in Node \ h.live
  BY <1>0, MapsParts
<1> DEFINE b == ReferenceItem(h, n, t, c, v, K)
<1>2. /\ b \in Heap
      /\ b.live = h.live \cup {n}
      /\ b.next = [h.next EXCEPT ![n] = NULL]
      /\ b.prev = [h.prev EXCEPT ![n] = NULL]
      /\ b.child = [h.child EXCEPT ![n] = c]
      /\ b.string = [h.string EXCEPT ![n] = NULL]
      /\ b.isReference = h.isReference \cup {n}
      /\ b.stringIsConst \subseteq h.stringIsConst \cup {n}
  BY <1>1, ReferenceItemHeap
<1>3. LinksInv(b, R \cup {n})
  BY <1>1, ReferenceItemLinks
<1> HIDE DEF b
<1>4. \A m \in h.live : b.child[m] = h.child[m]
  BY <1>1, <1>2, HeapTypes
<1>5. Maps(b, R \cup {n}, ks)
  BY <1>0, <1>1, <1>2, <1>3, <1>4, FreshMaps
<1>6. /\ Stands(b, L \cup {n}, R \cup {n}, ks) /\ Childless(b, n)
      /\ \A p : Owns(h, p) => Owns(b, p)
  BY <1>0, <1>1, <1>2, <1>5 DEF Stands, Childless, Owns
<1> QED BY <1>6 DEF b

LEMMA CreateReferenceStands ==
    ASSUME NEW h, NEW L, NEW R, NEW ks, Stands(h, L, R, ks), NEW n \in Node \ L, NEW item \in L
    PROVE  /\ Stands(CreateReference(h, n, item), L \cup {n}, R \cup {n}, ks)
           /\ Childless(CreateReference(h, n, item), n)
           /\ \A p : Owns(h, p) => Owns(CreateReference(h, n, item), p)
<1>1. h \in Heap /\ item \in Node
  BY MapsParts DEF Stands
<1>2. PICK t \in Type, c \in NodePtr, v \in StrPtr, K \in SUBSET {n} :
        CreateReference(h, n, item) = ReferenceItem(h, n, t, c, v, K)
  BY <1>1, CreateReferenceIsItem
<1>3. /\ Stands(ReferenceItem(h, n, t, c, v, K), L \cup {n}, R \cup {n}, ks)
      /\ Childless(ReferenceItem(h, n, t, c, v, K), n)
      /\ \A p : Owns(h, p) => Owns(ReferenceItem(h, n, t, c, v, K), p)
  BY ReferenceItemStands
<1> QED BY <1>2, <1>3

-----------------------------------------------------------------------------
(* Storing, taking out and deleting *)

LEMMA DeleteStands ==
    ASSUME NEW h, NEW L, NEW R, NEW ks, Stands(h, L, R, ks), NEW r \in R
    PROVE  /\ Stands(Delete(h, r), L \ Promise!Subtree(ks, r), R \ {r},
                     Promise!Drop(ks, Promise!Subtree(ks, r)))
           /\ Promise!Subtree(ks, r) = Reach(h, {r})
<1>0. Maps(h, R, ks) /\ h.live = L
  BY DEF Stands
<1>1. LinksInv(h, R) /\ Kids(h, ks) /\ h \in Heap /\ r \in Node
  BY <1>0, MapsParts
<1>2. PICK par \in [Node -> NodePtr] : Linked(h, R, par)
  BY <1>0, MapsParts
<1>3. Promise!Subtree(ks, r) = Reach(h, {r})
  BY <1>1, <1>2, SubtreeIsReach
<1>4. Kids(Delete(h, r), Promise!Drop(ks, Reach(h, {r})))
  BY <1>1, <1>2, DeleteKids
<1>5. LinksInv(Delete(h, r), R \ {r})
  BY <1>1, DeleteLinks
<1>6. /\ Delete(h, r) \in Heap
      /\ Delete(h, r).live = h.live \ Reach(h, {r})
      /\ Delete(h, r).next = Erase(h.next, Reach(h, {r}), NULL)
      /\ Delete(h, r).prev = Erase(h.prev, Reach(h, {r}), NULL)
      /\ Delete(h, r).child = Erase(h.child, Reach(h, {r}), NULL)
      /\ Delete(h, r).string = Erase(h.string, Reach(h, {r}), NULL)
      /\ Delete(h, r).isReference = h.isReference \ Reach(h, {r})
      /\ Delete(h, r).stringIsConst = h.stringIsConst \ Reach(h, {r})
  BY <1>1, DeleteHeap
<1>7. Stands(Delete(h, r), L \ Reach(h, {r}), R \ {r}, Promise!Drop(ks, Reach(h, {r})))
  BY <1>0, <1>4, <1>5, <1>6 DEF Maps, Stands
<1> QED BY <1>3, <1>7

\* Deleting an item that owns nothing changes no order.
LEMMA DeleteChildlessStands ==
    ASSUME NEW h, NEW L, NEW R, NEW ks, Stands(h, L, R, ks), NEW r \in R, Childless(h, r)
    PROVE  Stands(Delete(h, r), L \ {r}, R \ {r}, ks)
<1>0. Maps(h, R, ks)
  BY DEF Stands
<1>1. /\ LinksInv(h, R) /\ Kids(h, ks) /\ h \in Heap /\ r \in h.live /\ r \in Node
      /\ ks \in [Node -> Seq(Node)]
  BY <1>0, MapsParts
<1>2. h.next[r] = NULL
  BY <1>1, RootLinks
<1>3. Reach(h, {r}) = {r}
  <2>1. OwnedSucc(h, r) = {}
    BY <1>2 DEF OwnedSucc, Childless
  <2> QED BY <1>1, <2>1, ReachAlone
<1>4. ks[r] = <<>>
  <2>1. CASE r \in h.isReference
    BY <1>1, <2>1 DEF Kids
  <2>2. CASE r \notin h.isReference
    <3>1. ks[r] \in Seq(Node) /\ IsListOf(h, r, ks[r]) /\ h.child[r] = NULL
      BY <1>1, <2>2 DEF Kids, Childless
    <3>2. Len(ks[r]) \in Nat /\ (1 \in 1..Len(ks[r]) => ks[r][1] \in Node)
      BY <3>1, LenProperties
    <3>3. 1 \notin 1..Len(ks[r])
      BY <3>1, <3>2, AddressAssumption DEF IsListOf, ItemAt
    <3>4. Len(ks[r]) = 0
      BY <3>2, <3>3
    <3> QED BY <3>1, <3>4, EmptySeq
  <2> QED BY <2>1, <2>2
<1>5. Promise!Drop(ks, {r}) = ks
  BY <1>1, <1>4 DEF Promise!Drop
<1>6. /\ Stands(Delete(h, r), L \ Promise!Subtree(ks, r), R \ {r},
                Promise!Drop(ks, Promise!Subtree(ks, r)))
      /\ Promise!Subtree(ks, r) = Reach(h, {r})
  BY DeleteStands
<1> QED BY <1>3, <1>5, <1>6

LEMMA AppendStands ==
    ASSUME NEW h, NEW L, NEW R, NEW ks, Stands(h, L, R, ks), NEW p, Owns(h, p),
           NEW i \in R, p \notin Reach(h, {i}) \ {i}, AddItemToArrayAccepts(p, i)
    PROVE  Stands(AddItemToArray(h, p, i), L, R \ {i}, Appended(ks, p, i))
<1>0. Maps(h, R, ks) /\ h.live = L /\ p \in h.live /\ p \notin h.isReference
  BY DEF Stands, Owns
<1>1. LinksInv(h, R) /\ Kids(h, ks) /\ h \in Heap
  BY <1>0, MapsParts
<1>2. PICK par \in [Node -> NodePtr] : Linked(h, R, par)
  BY <1>0, MapsParts
<1>3. p # i
  BY DEF AddItemToArrayAccepts
<1>4. Kids(AddItemToArray(h, p, i), [ks EXCEPT ![p] = Append(@, i)])
  BY <1>0, <1>1, <1>2, <1>3, AppendKids
<1>5. LinksInv(AddItemToArray(h, p, i), R \ {i})
  BY <1>0, <1>1, AddItemToArrayLinks
<1>6. AddItemToArray(h, p, i).live = h.live
  BY <1>1 DEF AddItemToArray, SuffixObject, Heap
<1> QED BY <1>0, <1>4, <1>5, <1>6 DEF Maps, Stands, Appended

LEMMA AppendToObjectStands ==
    ASSUME NEW h, NEW L, NEW R, NEW ks, Stands(h, L, R, ks), NEW p, Owns(h, p),
           NEW i \in R, p \notin Reach(h, {i}) \ {i},
           NEW key \in StrPtr, NEW s \in Str \cup {NULL}, NEW c \in BOOLEAN,
           AddItemToObjectAccepts(p, i, s, c)
    PROVE  Stands(AddItemToObject(h, p, key, i, s, c), L, R \ {i}, Appended(ks, p, i))
<1> DEFINE named == IF c THEN h ELSE Strdup(h, s, key)
           clean == FreeString(named, OwnedKey(h, i))
           newKey == IF c THEN key ELSE s
           set == SetKey(clean, i, newKey, c)
<1>0. Maps(h, R, ks) /\ h.live = L
  BY DEF Stands
<1>1. /\ LinksInv(h, R) /\ h \in Heap /\ i \in h.live /\ i \in Node
      /\ h.stringIsConst \subseteq h.live
  BY <1>0, MapsParts DEF LinksInv, HeapOK
<1>2. /\ named \in Heap /\ SameLinks(named, h)
      /\ named.string = h.string /\ named.stringIsConst = h.stringIsConst
  BY <1>1, StrdupHeap DEF SameLinks
<1>3. OwnedKey(h, i) \in StrPtr
  BY <1>1 DEF OwnedKey, Heap, StrPtr
<1> HIDE DEF named
<1>4. /\ clean \in Heap /\ SameLinks(clean, h)
      /\ clean.string = h.string /\ clean.stringIsConst = h.stringIsConst
  BY <1>2, <1>3, FreeStringHeap DEF SameLinks
<1>5. newKey \in StrPtr
  BY DEF StrPtr
<1> HIDE DEF clean, newKey
<1>6. /\ set \in Heap /\ SameLinks(set, h)
      /\ set.string = [h.string EXCEPT ![i] = newKey]
      /\ set.stringIsConst \subseteq h.stringIsConst \cup {i}
  BY <1>1, <1>4, <1>5, SetKeyHeap DEF SameLinks
<1>12. AddItemToObject(h, p, key, i, s, c) = AddItemToArray(set, p, i)
  BY DEF AddItemToObject, clean, newKey, named
<1> HIDE DEF set
<1>7. set.stringIsConst \subseteq h.live
  BY <1>1, <1>6
<1>8. \A n \in h.live \ R : h.string[n] = NULL => set.string[n] = NULL
  BY <1>1, <1>6 DEF Heap
<1>9. LinksInv(set, R)
  BY <1>1, <1>6, <1>7, <1>8, SameLinksInv
<1>10. Stands(set, L, R, ks)
  <2>1. Maps(set, R, ks)
    BY <1>0, <1>6, <1>9, SameMaps
  <2> QED BY <1>0, <1>6, <2>1 DEF Stands, SameLinks
<1>11. Reach(set, {i}) = Reach(h, {i}) /\ Owns(set, p) /\ AddItemToArrayAccepts(p, i)
  BY <1>6, SameReach DEF SameLinks, Owns, AddItemToObjectAccepts
<1>13. Stands(AddItemToArray(set, p, i), L, R \ {i}, Appended(ks, p, i))
  BY <1>10, <1>11, AppendStands
<1> QED BY <1>12, <1>13

\* A new item without children of its own is below nothing but itself.
LEMMA ChildlessReach ==
    ASSUME NEW h, NEW L, NEW R, NEW ks, Stands(h, L, R, ks), NEW n \in R, Childless(h, n)
    PROVE  Reach(h, {n}) = {n}
<1>1. h \in Heap /\ n \in Node /\ h.next[n] = NULL
  BY MapsParts, RootLinks DEF Stands
<1>2. OwnedSucc(h, n) = {}
  BY <1>1 DEF OwnedSucc, Childless
<1> QED BY <1>1, <1>2, ReachAlone

\* An item that has just been created is stored, or deleted again when its
\* key could not be copied.
LEMMA AddNewStands ==
    ASSUME NEW h, NEW L, NEW R, NEW ks, NEW n, n \notin R, Stands(h, L, R \cup {n}, ks),
           Childless(h, n), NEW p, Owns(h, p),
           NEW key \in StrPtr, NEW s \in Str \cup {NULL}
    PROVE  \/ Stands(AddNewToObjectResult(h, p, key, n, s), L, R, Appended(ks, p, n))
           \/ Stands(AddNewToObjectResult(h, p, key, n, s), L \ {n}, R, ks)
<1>1. Reach(h, {n}) = {n}
  BY ChildlessReach
<1>2. /\ p \notin Reach(h, {n}) \ {n} /\ n \in R \cup {n} /\ FALSE \in BOOLEAN
      /\ (R \cup {n}) \ {n} = R
  BY <1>1
<1>3. CASE AddItemToObjectAccepts(p, n, s, FALSE)
  <2>1. AddNewToObjectResult(h, p, key, n, s) = AddItemToObject(h, p, key, n, s, FALSE)
    BY <1>3 DEF AddNewToObjectResult
  <2>2. Stands(AddItemToObject(h, p, key, n, s, FALSE), L, (R \cup {n}) \ {n}, Appended(ks, p, n))
    BY <1>2, <1>3, AppendToObjectStands
  <2> QED BY <1>2, <2>1, <2>2
<1>4. CASE ~AddItemToObjectAccepts(p, n, s, FALSE)
  <2>1. AddNewToObjectResult(h, p, key, n, s) = Delete(h, n)
    BY <1>4 DEF AddNewToObjectResult, AddItemToObject
  <2>2. Stands(Delete(h, n), L \ {n}, (R \cup {n}) \ {n}, ks)
    BY <1>2, DeleteChildlessStands
  <2> QED BY <1>2, <2>1, <2>2
<1> QED BY <1>3, <1>4

LEMMA CreateStringStands ==
    ASSUME NEW h, NEW L, NEW R, NEW ks, Stands(h, L, R, ks), NEW n \in Node \ L,
           NEW s \in Str, NEW p \in Name
    PROVE  /\ Stands(CreateString(h, n, s, p), L \cup {n}, R \cup {n}, ks)
           /\ Childless(CreateString(h, n, s, p), n)
           /\ \A q : Owns(h, q) => Owns(CreateString(h, n, s, p), q)
<1> DEFINE b == NewItem(h, n, "String")
           d == CreateString(h, n, s, p)
<1>0. Maps(h, R, ks) /\ h.live = L
  BY DEF Stands
<1>1. /\ LinksInv(h, R) /\ h \in Heap /\ n \in Node \ h.live /\ s # NULL /\ "String" \in Type
      /\ s \in Str \cup {NULL}
  BY <1>0, MapsParts, AddressAssumption DEF Type
<1>2. /\ d \in Heap /\ SameLinks(d, b)
      /\ d.string = b.string /\ d.stringIsConst = b.stringIsConst
  BY <1>1, CreateStringHeap
<1>3. LinksInv(d, IF s = NULL THEN R ELSE R \cup {n})
  BY <1>1, CreateStringLinks
<1>4. /\ Stands(b, L \cup {n}, R \cup {n}, ks) /\ Childless(b, n)
      /\ \A q : Owns(h, q) => Owns(b, q)
  BY <1>1, NewItemStands
<1> HIDE DEF b, d
<1>5. LinksInv(d, R \cup {n})
  BY <1>1, <1>3
<1>6. Maps(d, R \cup {n}, ks)
  BY <1>2, <1>4, <1>5, SameMaps DEF Stands
<1>7. /\ Stands(d, L \cup {n}, R \cup {n}, ks) /\ Childless(d, n)
      /\ \A q : Owns(h, q) => Owns(d, q)
  BY <1>2, <1>4, <1>6 DEF SameLinks, Stands, Childless, Owns
<1> QED BY <1>7 DEF d

\* A string item whose value could not be copied is gone.
LEMMA NoStringStands ==
    ASSUME NEW h, NEW L, NEW R, NEW ks, Stands(h, L, R, ks), NEW n \in Node \ L, NEW p \in Name
    PROVE  Stands(CreateString(h, n, NULL, p), L, R, ks)
<1> DEFINE b == NewItem(h, n, "String")
<1>1. R \subseteq L /\ n # NULL /\ "String" \in Type
  BY MapsParts, AddressAssumption DEF Type, Stands
<1>2. CreateString(h, n, NULL, p) = Delete(b, n)
  BY <1>1 DEF CreateString
<1>3. Stands(b, L \cup {n}, R \cup {n}, ks) /\ Childless(b, n)
  BY <1>1, NewItemStands
<1> HIDE DEF b
<1>4. n \in R \cup {n} /\ (R \cup {n}) \ {n} = R /\ (L \cup {n}) \ {n} = L
  BY <1>1
<1>5. Stands(Delete(b, n), (L \cup {n}) \ {n}, (R \cup {n}) \ {n}, ks)
  BY <1>3, <1>4, DeleteChildlessStands
<1> QED BY <1>2, <1>4, <1>5

LEMMA DetachStands ==
    ASSUME NEW h, NEW L, NEW R, NEW ks, Stands(h, L, R, ks), NEW p, Owns(h, p),
           NEW i \in Members(h, p)
    PROVE  Stands(DetachItem(h, p, i), L, R \cup {i}, Removed(ks, p, i))
<1>0. Maps(h, R, ks) /\ h.live = L /\ p \in h.live /\ p \notin h.isReference
  BY DEF Stands, Owns
<1>1. LinksInv(h, R) /\ Kids(h, ks) /\ h \in Heap
  BY <1>0, MapsParts
<1>2. PICK par \in [Node -> NodePtr] : Linked(h, R, par)
  BY <1>0, MapsParts
<1>3. Kids(DetachItem(h, p, i), [ks EXCEPT ![p] = Promise!Without(@, i)])
  BY <1>0, <1>1, <1>2, DetachKids
<1>4. LinksInv(DetachItem(h, p, i), R \cup {i})
  BY <1>0, <1>1, DetachLinks
<1>5. DetachItem(h, p, i).live = h.live
  BY <1>1 DEF DetachItem, Heap
<1> QED BY <1>0, <1>3, <1>4, <1>5 DEF Maps, Stands, Removed

LEMMA InsertStands ==
    ASSUME NEW h, NEW L, NEW R, NEW ks, Stands(h, L, R, ks), NEW p, Owns(h, p),
           NEW a \in Members(h, p), NEW i \in R, p \notin Reach(h, {i})
    PROVE  /\ Stands(InsertItemInArray(h, p, a, i), L, R \ {i}, Inserted(ks, p, a, i))
           /\ Owns(InsertItemInArray(h, p, a, i), p)
<1>0. Maps(h, R, ks) /\ h.live = L /\ p \in h.live /\ p \notin h.isReference
  BY DEF Stands, Owns
<1>1. LinksInv(h, R) /\ Kids(h, ks) /\ h \in Heap
  BY <1>0, MapsParts
<1>2. PICK par \in [Node -> NodePtr] : Linked(h, R, par)
  BY <1>0, MapsParts
<1>3. Kids(InsertItemInArray(h, p, a, i), [ks EXCEPT ![p] = Promise!InsertBefore(@, a, i)])
  BY <1>0, <1>1, <1>2, InsertKids
<1>4. LinksInv(InsertItemInArray(h, p, a, i), R \ {i})
  BY <1>0, <1>1, InsertLinks
<1>5. /\ InsertItemInArray(h, p, a, i).live = h.live
      /\ InsertItemInArray(h, p, a, i).isReference = h.isReference
  BY <1>1 DEF InsertItemInArray, AddItemToArray, SuffixObject, Heap
<1> QED BY <1>0, <1>3, <1>4, <1>5 DEF Maps, Stands, Inserted, Owns

\* Taking a child out and deleting it.  The container is not below the child,
\* so that what is deleted is what was below it before.
LEMMA DetachedAside ==
    ASSUME NEW h, NEW R, NEW ks, Maps(h, R, ks), NEW p, Owns(h, p), NEW i \in Members(h, p)
    PROVE  i \in Node /\ i \notin R /\ p \notin Reach(DetachItem(h, p, i), {i})
<1> DEFINE g == DetachItem(h, p, i)
<1>0. p \in h.live /\ p \notin h.isReference
  BY DEF Owns
<1>1. /\ LinksInv(h, R) /\ Kids(h, ks) /\ h \in Heap /\ p \in Node
      /\ ks \in [Node -> Seq(Node)] /\ h.live \in SUBSET Node
  BY <1>0, MapsParts
<1>2. PICK par \in [Node -> NodePtr] : Linked(h, R, par)
  BY MapsParts
<1>3. i \notin R
  BY <1>0, <1>1, DetachLinks
<1>4. Members(h, p) = {n \in h.live : par[n] = p}
  BY <1>0, <1>1, <1>2, MembersOf
<1>5. i \in Node /\ i \in h.live /\ par[i] = p
  BY <1>1, <1>4
<1> DEFINE q == [par EXCEPT ![i] = NULL]
<1>6. g \in Heap /\ Linked(g, R \cup {i}, q)
  BY <1>0, <1>1, <1>2, DetachLinked
<1>7. g.live = h.live
  BY <1>1 DEF DetachItem, Heap
<1>8. q[i] = NULL /\ \A n \in Node \ {i} : q[n] = par[n]
  BY <1>5
<1> HIDE DEF g, q
<1> DEFINE D == Reach(g, {i})
<1>9. i \in R \cup {i}
  OBVIOUS
<1>10. /\ Reach(g, {i}) \subseteq g.live /\ i \in Reach(g, {i}) /\ Closed(g, Reach(g, {i}))
       /\ \A n \in g.live : q[n] \in Reach(g, {i}) => n \in Reach(g, {i})
       /\ \A n \in Reach(g, {i}) : n = i \/ q[n] \in Reach(g, {i})
  BY <1>6, <1>9, DeleteSetIsTree
<1>11. /\ D \in SUBSET h.live /\ i \in D
       /\ \A n \in h.live : q[n] \in D => n \in D
       /\ \A n \in D : n = i \/ q[n] \in D
  BY <1>7, <1>10
<1> HIDE DEF D
<1>12. ASSUME p \in D PROVE FALSE
  <2>1. \A n \in D : par[n] \in D
    BY <1>1, <1>5, <1>8, <1>11, <1>12
  <2>2. \A n \in h.live : par[n] \in D => n \in D
    BY <1>1, <1>5, <1>8, <1>11
  <2>3. D = {}
    BY <1>1, <1>2, <1>11, <2>1, <2>2, NoCycle
  <2> QED BY <1>11, <2>3
<1>13. p \notin Reach(g, {i})
  BY <1>12 DEF D
<1> QED BY <1>3, <1>5, <1>13 DEF g

LEMMA DiscardStands ==
    ASSUME NEW h, NEW L, NEW R, NEW ks, Stands(h, L, R, ks), NEW p, Owns(h, p),
           NEW i \in Members(h, p)
    PROVE  /\ Stands(Delete(DetachItem(h, p, i), i), L \ Promise!Subtree(ks, i), R,
                     Promise!Drop(Removed(ks, p, i), Promise!Subtree(ks, i)))
           /\ p \notin Promise!Subtree(ks, i)
<1> DEFINE g == DetachItem(h, p, i)
           kt == Removed(ks, p, i)
<1>0. Maps(h, R, ks)
  BY DEF Stands
<1>1. ks \in [Node -> Seq(Node)] /\ p \in Node
  BY <1>0, MapsParts DEF Owns
<1>2. i \in Node /\ i \notin R /\ p \notin Reach(g, {i})
  BY <1>0, DetachedAside
<1>3. Stands(g, L, R \cup {i}, kt)
  BY DetachStands
<1>4. kt \in [Node -> Seq(Node)]
  BY <1>3, MapsParts DEF Stands
<1>5. SameElsewhere(ks, kt, p)
  BY <1>1 DEF Removed, SameElsewhere
<1> HIDE DEF g, kt
<1>6. i \in R \cup {i}
  OBVIOUS
<1>7. /\ Stands(Delete(g, i), L \ Promise!Subtree(kt, i), (R \cup {i}) \ {i},
                Promise!Drop(kt, Promise!Subtree(kt, i)))
      /\ Promise!Subtree(kt, i) = Reach(g, {i})
  BY <1>3, <1>6, DeleteStands
<1>8. p \notin Promise!Subtree(kt, i)
  BY <1>2, <1>7
<1>9. Promise!Subtree(ks, i) = Promise!Subtree(kt, i)
  BY ZenonT(30), <1>1, <1>2, <1>4, <1>5, <1>8, SubtreeAside
<1>10. (R \cup {i}) \ {i} = R
  BY <1>2
<1>11. /\ Stands(Delete(g, i), L \ Promise!Subtree(ks, i), R,
                 Promise!Drop(kt, Promise!Subtree(ks, i)))
       /\ p \notin Promise!Subtree(ks, i)
  BY <1>7, <1>8, <1>9, <1>10
<1> QED BY <1>11 DEF g, kt

LEMMA ChildAside ==
    ASSUME NEW h, NEW L, NEW R, NEW kt, Stands(h, L, R, kt), NEW p, Owns(h, p),
           NEW i \in Members(h, p), NEW ks \in [Node -> Seq(Node)], SameElsewhere(ks, kt, p)
    PROVE  Promise!Subtree(ks, i) = Promise!Subtree(kt, i)
<1>1. Maps(h, R, kt)
  BY DEF Stands
<1>2. kt \in [Node -> Seq(Node)] /\ p \in Node
  BY <1>1, MapsParts DEF Owns
<1>3. i \in Node
  BY <1>1, DetachedAside
<1>4. p \notin Promise!Subtree(kt, i)
  BY DiscardStands
<1> QED BY <1>2, <1>3, <1>4, SubtreeAside

\* Replacing a child: the replacement goes in before it, then it is
\* discarded.
LEMMA ReplaceStands ==
    ASSUME NEW h, NEW L, NEW R, NEW ks, Stands(h, L, R, ks), NEW p, Owns(h, p),
           NEW i \in Members(h, p), NEW r \in R, p \notin Reach(h, {r})
    PROVE  Stands(Delete(Substitute(h, p, i, r), i), L \ Promise!Subtree(ks, i), R \ {r},
                  Promise!Drop(Substituted(ks, p, i, r), Promise!Subtree(ks, i)))
<1> DEFINE g == InsertItemInArray(h, p, i, r)
           kt == Inserted(ks, p, i, r)
           s == ks[p]
<1>0. Maps(h, R, ks) /\ h.live = L /\ p \in h.live /\ p \notin h.isReference
  BY DEF Stands, Owns
<1>1. /\ LinksInv(h, R) /\ Kids(h, ks) /\ h \in Heap /\ p \in Node
      /\ ks \in [Node -> Seq(Node)] /\ R \subseteq h.live
      /\ h.live \in SUBSET Node
  BY <1>0, MapsParts
<1>2. PICK par \in [Node -> NodePtr] : Linked(h, R, par)
  BY <1>0, MapsParts
<1>3. Members(h, p) = {n \in h.live : par[n] = p}
  BY <1>0, <1>1, <1>2, MembersOf
<1>4. i \in Node /\ i \notin R
  BY <1>0, DetachedAside
<1>5. i \in h.live /\ par[i] = p /\ r \in Node /\ i # r
  BY <1>1, <1>3, <1>4
<1>6. Stands(g, L, R \ {r}, kt) /\ Owns(g, p)
  BY InsertStands
<1>7. Substitute(h, p, i, r) = DetachItem(g, p, i)
  BY <1>0, <1>1, <1>2, SubstituteIsInsertDetach
<1>8. /\ s \in Seq(Node) /\ Distinct(s)
      /\ \A k \in 1..Len(s) : s[k] \in h.live /\ par[s[k]] = p
      /\ Members(h, p) = {s[k] : k \in 1..Len(s)}
  BY <1>0, <1>1, <1>2, KidsItems
<1>9. r \notin Members(h, p)
  BY <1>0, <1>1, DetachLinks
<1>10. kt = [ks EXCEPT ![p] = Promise!InsertBefore(s, i, r)]
  BY DEF Inserted
<1>11. Substituted(ks, p, i, r) = [ks EXCEPT ![p] = Promise!Substitute(s, i, r)]
  BY DEF Substituted
<1>12. SameElsewhere(ks, kt, p)
  BY <1>1 DEF Inserted, SameElsewhere
<1> HIDE DEF s
<1>13. PICK k \in 1..Len(s) : s[k] = i
  BY <1>8
<1>14. \A j \in 1..Len(s) : s[j] # r
  BY <1>8, <1>9
<1>15. Promise!Without(Promise!InsertBefore(s, i, r), i) = Promise!Substitute(s, i, r)
  <2>1. Promise!Without(Promise!InsertBefore(s, s[k], r), s[k]) = Promise!Substitute(s, s[k], r)
    BY <1>5, <1>8, <1>14, InsertWithout
  <2> QED BY <1>13, <2>1
<1>16. kt[p] = Promise!InsertBefore(s, i, r)
  BY <1>1, <1>10
<1>17. Removed(kt, p, i) = Substituted(ks, p, i, r)
  <2>1. Removed(kt, p, i) = [kt EXCEPT ![p] = Promise!Without(kt[p], i)]
    BY DEF Removed
  <2>2. Removed(kt, p, i) = [kt EXCEPT ![p] = Promise!Substitute(s, i, r)]
    BY <1>15, <1>16, <2>1
  <2> QED BY <1>1, <1>10, <1>11, <2>2
<1>18. i \in Members(g, p)
  <2> DEFINE t == Promise!InsertBefore(s, s[k], r)
  <2>1. /\ t \in Seq(Node) /\ Len(t) = Len(s) + 1 /\ Len(s) \in Nat
        /\ \A j \in 1..(Len(s) + 1) :
             t[j] = IF j < k THEN s[j] ELSE IF j = k THEN r ELSE s[j - 1]
    BY <1>5, <1>8, InsertItems, LenProperties
  <2> HIDE DEF t
  <2>2. k + 1 \in 1..Len(t) /\ t[k + 1] = s[k]
    BY <2>1
  <2>3. kt[p] = t
    BY <1>13, <1>16 DEF t
  <2>4. p \in g.live /\ p \notin g.isReference /\ Maps(g, R \ {r}, kt)
    BY <1>6 DEF Owns, Stands
  <2> HIDE DEF g, kt
  <2>5. g \in Heap /\ Kids(g, kt) /\ \E d \in [Node -> NodePtr] : Linked(g, R \ {r}, d)
    BY <2>4, MapsParts
  <2>6. Members(g, p) = {kt[p][j] : j \in 1..Len(kt[p])}
    BY <2>4, <2>5, KidsItems
  <2> QED BY <1>13, <2>2, <2>3, <2>6
<1> HIDE DEF g, kt
<1>19. kt \in [Node -> Seq(Node)]
  BY <1>6, MapsParts DEF Stands
<1>20. /\ Stands(Delete(DetachItem(g, p, i), i), L \ Promise!Subtree(kt, i), R \ {r},
                 Promise!Drop(Removed(kt, p, i), Promise!Subtree(kt, i)))
       /\ p \notin Promise!Subtree(kt, i)
  BY <1>6, <1>18, DiscardStands
<1>21. Promise!Subtree(ks, i) = Promise!Subtree(kt, i)
  BY <1>1, <1>6, <1>12, <1>18, ChildAside
<1> QED BY <1>7, <1>17, <1>20, <1>21

-----------------------------------------------------------------------------
(* The steps of Forest *)

Represented == \E ks : Stands(heap, heap.live, roots, ks)

\* A step that Forest permits, to a heap that stands for a forest again.
Promised == Represented' /\ [Promise!Next]_(Promise!fvars)

LEMMA KidsNow ==
    ASSUME NEW ks, NEW L, NEW R, Stands(heap, L, R, ks)
    PROVE  [p \in Node |-> ChildSeq(heap, p)] = ks
  BY KidsAreChildSeq DEF Stands

LEMMA KidsNext ==
    ASSUME NEW ks, NEW L, Stands(heap', L, roots', ks)
    PROVE  /\ [p \in Node |-> ChildSeq(heap, p)]' = ks /\ heap'.live = L
           /\ Represented'
<1>1. Maps(heap', roots', ks) /\ heap'.live = L
  BY DEF Stands
<1>2. [p \in Node |-> ChildSeq(heap', p)] = ks
  BY <1>1, KidsAreChildSeq
<1>3. Stands(heap', heap'.live, roots', ks)
  BY <1>1 DEF Stands
<1> QED BY <1>1, <1>2, <1>3 DEF Represented

LEMMA StutterStep ==
    ASSUME NEW ks, Stands(heap, heap.live, roots, ks),
           Stands(heap', heap.live, roots', ks), roots' = roots
    PROVE  Promised
<1>1. [p \in Node |-> ChildSeq(heap, p)] = ks
  BY KidsNow
<1>2. /\ [p \in Node |-> ChildSeq(heap, p)]' = ks /\ heap'.live = heap.live
      /\ Represented'
  BY KidsNext
<1> QED BY <1>1, <1>2 DEF Promised, Promise!fvars

LEMMA CreateStep ==
    ASSUME NEW ks, Stands(heap, heap.live, roots, ks), NEW n \in Node \ heap.live,
           Stands(heap', heap.live \cup {n}, roots', ks), roots' = roots \cup {n}
    PROVE  Promised
<1>1. [p \in Node |-> ChildSeq(heap, p)] = ks
  BY KidsNow
<1>2. /\ [p \in Node |-> ChildSeq(heap, p)]' = ks /\ heap'.live = heap.live \cup {n}
      /\ Represented'
  BY KidsNext
<1>3. Promise!Create(ks, n)
  BY <1>2 DEF Promise!Create
<1>4. Promise!Next
  BY <1>1, <1>3 DEF Promise!Next
<1> QED BY <1>2, <1>4 DEF Promised

LEMMA LoseStep ==
    ASSUME NEW ks, Stands(heap, heap.live, roots, ks), NEW n \in Node \ heap.live,
           Stands(heap', heap.live \cup {n}, roots', ks), roots' = roots
    PROVE  Promised
<1>1. [p \in Node |-> ChildSeq(heap, p)] = ks
  BY KidsNow
<1>2. /\ [p \in Node |-> ChildSeq(heap, p)]' = ks /\ heap'.live = heap.live \cup {n}
      /\ Represented'
  BY KidsNext
<1>3. Promise!Lose(ks, n)
  BY <1>2 DEF Promise!Lose
<1>4. Promise!Next
  BY <1>1, <1>3 DEF Promise!Next
<1> QED BY <1>2, <1>4 DEF Promised

LEMMA CreateInStep ==
    ASSUME NEW ks, Stands(heap, heap.live, roots, ks), NEW n \in Node \ heap.live,
           NEW p \in heap.live,
           Stands(heap', heap.live \cup {n}, roots', Appended(ks, p, n)), roots' = roots
    PROVE  Promised
<1>1. [q \in Node |-> ChildSeq(heap, q)] = ks
  BY KidsNow
<1>2. /\ [q \in Node |-> ChildSeq(heap, q)]' = Appended(ks, p, n)
      /\ heap'.live = heap.live \cup {n} /\ Represented'
  BY KidsNext
<1>3. Promise!CreateIn(ks, p, n)
  BY <1>2 DEF Promise!CreateIn, Appended
<1>4. Promise!Next
  BY <1>1, <1>3 DEF Promise!Next
<1> QED BY <1>2, <1>4 DEF Promised

LEMMA ReleaseStep ==
    ASSUME NEW ks, Stands(heap, heap.live, roots, ks), NEW r \in roots,
           Stands(heap', heap.live \ Promise!Subtree(ks, r), roots',
                  Promise!Drop(ks, Promise!Subtree(ks, r))),
           roots' = roots \ {r}
    PROVE  Promised
<1>1. [q \in Node |-> ChildSeq(heap, q)] = ks
  BY KidsNow
<1>2. /\ [q \in Node |-> ChildSeq(heap, q)]' = Promise!Drop(ks, Promise!Subtree(ks, r))
      /\ heap'.live = heap.live \ Promise!Subtree(ks, r) /\ Represented'
  BY KidsNext
<1>3. Promise!Release(ks, r)
  BY <1>2 DEF Promise!Release
<1>4. Promise!Next
  BY <1>1, <1>3 DEF Promise!Next
<1> QED BY <1>2, <1>4 DEF Promised

LEMMA StoreStep ==
    ASSUME NEW ks, Stands(heap, heap.live, roots, ks), NEW p \in heap.live, NEW i \in roots,
           p \notin Promise!Subtree(ks, i),
           Stands(heap', heap.live, roots', Appended(ks, p, i)), roots' = roots \ {i}
    PROVE  Promised
<1>1. [q \in Node |-> ChildSeq(heap, q)] = ks
  BY KidsNow
<1>2. /\ [q \in Node |-> ChildSeq(heap, q)]' = Appended(ks, p, i)
      /\ heap'.live = heap.live /\ Represented'
  BY KidsNext
<1>3. Promise!Store(ks, p, i)
  BY <1>2 DEF Promise!Store, Appended
<1>4. Promise!Next
  BY <1>1, <1>3 DEF Promise!Next
<1> QED BY <1>2, <1>4 DEF Promised

LEMMA InsertStep ==
    ASSUME NEW ks, Stands(heap, heap.live, roots, ks), NEW p \in heap.live, NEW i \in roots,
           p \notin Promise!Subtree(ks, i), NEW j \in Promise!ToSet(ks[p]),
           Stands(heap', heap.live, roots', Inserted(ks, p, j, i)), roots' = roots \ {i}
    PROVE  Promised
<1>1. [q \in Node |-> ChildSeq(heap, q)] = ks
  BY KidsNow
<1>2. /\ [q \in Node |-> ChildSeq(heap, q)]' = Inserted(ks, p, j, i)
      /\ heap'.live = heap.live /\ Represented'
  BY KidsNext
<1>3. Promise!Insert(ks, p, j, i)
  BY <1>2 DEF Promise!Insert, Inserted
<1>4. Promise!Next
  BY <1>1, <1>3 DEF Promise!Next
<1> QED BY <1>2, <1>4 DEF Promised

LEMMA ReplaceStep ==
    ASSUME NEW ks, Stands(heap, heap.live, roots, ks), NEW p \in heap.live, NEW i \in roots,
           p \notin Promise!Subtree(ks, i), NEW j \in Promise!ToSet(ks[p]),
           Stands(heap', heap.live \ Promise!Subtree(ks, j), roots',
                  Promise!Drop(Substituted(ks, p, j, i), Promise!Subtree(ks, j))),
           roots' = roots \ {i}
    PROVE  Promised
<1>1. [q \in Node |-> ChildSeq(heap, q)] = ks
  BY KidsNow
<1>2. /\ [q \in Node |-> ChildSeq(heap, q)]'
           = Promise!Drop(Substituted(ks, p, j, i), Promise!Subtree(ks, j))
      /\ heap'.live = heap.live \ Promise!Subtree(ks, j) /\ Represented'
  BY KidsNext
<1>3. Promise!Replace(ks, p, j, i)
  BY <1>2 DEF Promise!Replace, Substituted
<1>4. Promise!Next
  BY <1>1, <1>3 DEF Promise!Next
<1> QED BY <1>2, <1>4 DEF Promised

LEMMA TakeOutStep ==
    ASSUME NEW ks, Stands(heap, heap.live, roots, ks), NEW p \in heap.live,
           NEW j \in Promise!ToSet(ks[p]),
           Stands(heap', heap.live, roots', Removed(ks, p, j)), roots' = roots \cup {j}
    PROVE  Promised
<1>1. [q \in Node |-> ChildSeq(heap, q)] = ks
  BY KidsNow
<1>2. /\ [q \in Node |-> ChildSeq(heap, q)]' = Removed(ks, p, j)
      /\ heap'.live = heap.live /\ Represented'
  <2> DEFINE kt == Removed(ks, p, j)
  <2>1. Stands(heap', heap.live, roots', kt)
    OBVIOUS
  <2> HIDE DEF kt
  <2>2. /\ [q \in Node |-> ChildSeq(heap, q)]' = kt
        /\ heap'.live = heap.live /\ Represented'
    BY <2>1, KidsNext
  <2> QED BY <2>2 DEF kt
<1>3. Promise!TakeOut(ks, p, j)
  BY <1>2 DEF Promise!TakeOut, Removed
<1>4. Promise!Next
  BY <1>1, <1>3 DEF Promise!Next
<1> QED BY <1>2, <1>4 DEF Promised

LEMMA DiscardStep ==
    ASSUME NEW ks, Stands(heap, heap.live, roots, ks), NEW p \in heap.live,
           NEW j \in Promise!ToSet(ks[p]),
           Stands(heap', heap.live \ Promise!Subtree(ks, j), roots',
                  Promise!Drop(Removed(ks, p, j), Promise!Subtree(ks, j))),
           roots' = roots
    PROVE  Promised
<1>1. [q \in Node |-> ChildSeq(heap, q)] = ks
  BY KidsNow
<1>2. /\ [q \in Node |-> ChildSeq(heap, q)]'
           = Promise!Drop(Removed(ks, p, j), Promise!Subtree(ks, j))
      /\ heap'.live = heap.live \ Promise!Subtree(ks, j) /\ Represented'
  BY KidsNext
<1>3. Promise!Discard(ks, p, j)
  BY <1>2 DEF Promise!Discard, Removed
<1>4. Promise!Next
  BY <1>1, <1>3 DEF Promise!Next
<1> QED BY <1>2, <1>4 DEF Promised

-----------------------------------------------------------------------------
(* The actions *)

LEMMA ForestFacts ==
    ASSUME NEW ks, Stands(heap, heap.live, roots, ks)
    PROVE  /\ LinksInv(heap, roots)
           /\ \A p \in Containers : /\ p \in heap.live /\ Owns(heap, p)
                                    /\ Promise!ToSet(ks[p]) = Members(heap, p)
           /\ \A r \in roots : Promise!Subtree(ks, r) = Reach(heap, {r})
<1>0. Maps(heap, roots, ks)
  BY DEF Stands
<1>1. LinksInv(heap, roots) /\ heap \in Heap /\ Kids(heap, ks)
  BY <1>0, MapsParts
<1>2. PICK par \in [Node -> NodePtr] : Linked(heap, roots, par)
  BY <1>0, MapsParts
<1>3. ASSUME NEW p \in Containers
      PROVE  p \in heap.live /\ Owns(heap, p) /\ Promise!ToSet(ks[p]) = Members(heap, p)
  <2>1. p \in heap.live /\ p \notin heap.isReference
    BY DEF Containers
  <2>2. Promise!ToSet(ks[p]) = Members(heap, p)
    BY <1>1, <1>2, <2>1, ToSetIsMembers
  <2> QED BY <2>1, <2>2 DEF Owns
<1>4. ASSUME NEW r \in roots PROVE Promise!Subtree(ks, r) = Reach(heap, {r})
  BY <1>1, <1>2, SubtreeIsReach
<1> QED BY <1>1, <1>3, <1>4

\* Appending one of the client's items, or refusing to.
LEMMA StoreInArray ==
    ASSUME NEW ks, Stands(heap, heap.live, roots, ks),
           NEW p \in heap.live, Owns(heap, p), NEW i \in roots,
           p \notin Reach(heap, {i}) \ {i},
           heap' = AddItemToArray(heap, p, i),
           roots' = IF AddItemToArrayAccepts(p, i) THEN roots \ {i} ELSE roots
    PROVE  Promised
<1>1. CASE AddItemToArrayAccepts(p, i)
  <2>1. Stands(AddItemToArray(heap, p, i), heap.live, roots \ {i}, Appended(ks, p, i))
    BY <1>1, AppendStands
  <2>2. Promise!Subtree(ks, i) = Reach(heap, {i})
    BY ForestFacts
  <2>3. p \notin Promise!Subtree(ks, i)
    BY <1>1, <2>2 DEF AddItemToArrayAccepts
  <2>4. roots' = roots \ {i} /\ Stands(heap', heap.live, roots', Appended(ks, p, i))
    BY <1>1, <2>1
  <2> QED BY <2>3, <2>4, StoreStep
<1>2. CASE ~AddItemToArrayAccepts(p, i)
  <2>1. heap' = heap /\ roots' = roots
    BY <1>2 DEF AddItemToArray
  <2>2. Stands(heap', heap.live, roots', ks)
    BY <2>1
  <2> QED BY <2>1, <2>2, StutterStep
<1> QED BY <1>1, <1>2

LEMMA StoreInObject ==
    ASSUME NEW ks, Stands(heap, heap.live, roots, ks),
           NEW p \in heap.live, Owns(heap, p), NEW i \in roots,
           p \notin Reach(heap, {i}) \ {i},
           NEW key \in StrPtr, NEW s \in Str \cup {NULL}, NEW c \in BOOLEAN,
           heap' = AddItemToObject(heap, p, key, i, s, c),
           roots' = IF AddItemToObjectAccepts(p, i, s, c) THEN roots \ {i} ELSE roots
    PROVE  Promised
<1>1. CASE AddItemToObjectAccepts(p, i, s, c)
  <2>1. Stands(AddItemToObject(heap, p, key, i, s, c), heap.live, roots \ {i},
               Appended(ks, p, i))
    BY <1>1, AppendToObjectStands
  <2>2. Promise!Subtree(ks, i) = Reach(heap, {i})
    BY ForestFacts
  <2>3. p \notin Promise!Subtree(ks, i)
    BY <1>1, <2>2 DEF AddItemToArrayAccepts, AddItemToObjectAccepts
  <2>4. roots' = roots \ {i} /\ Stands(heap', heap.live, roots', Appended(ks, p, i))
    BY <1>1, <2>1
  <2> QED BY <2>3, <2>4, StoreStep
<1>2. CASE ~AddItemToObjectAccepts(p, i, s, c)
  <2>1. heap' = heap /\ roots' = roots
    BY <1>2 DEF AddItemToObject
  <2>2. Stands(heap', heap.live, roots', ks)
    BY <2>1
  <2> QED BY <2>1, <2>2, StutterStep
<1> QED BY <1>1, <1>2

\* A new item in the client's hands, or none.
LEMMA CreateAny ==
    ASSUME NEW ks, Stands(heap, heap.live, roots, ks), NEW n \in Node \ heap.live, NEW g,
           Stands(g, heap.live \cup {n}, roots \cup {n}, ks),
           heap' = g, roots' = roots \cup {n}
    PROVE  Promised
<1>1. Stands(heap', heap.live \cup {n}, roots', ks)
  OBVIOUS
<1> QED BY <1>1, CreateStep

LEMMA NothingHappens ==
    ASSUME NEW ks, Stands(heap, heap.live, roots, ks), NEW g,
           Stands(g, heap.live, roots, ks), heap' = g, roots' = roots
    PROVE  Promised
<1>1. Stands(heap', heap.live, roots', ks)
  OBVIOUS
<1> QED BY <1>1, StutterStep

\* Where an item could not be allocated there is nothing to store.
LEMMA AddNothingChanges ==
    ASSUME NEW h, NEW R, LinksInv(h, R), NEW p, NEW key, NEW s
    PROVE  AddNewToObjectResult(h, p, key, NULL, s) = h
<1>1. ~AddItemToObjectAccepts(p, NULL, s, FALSE)
  BY DEF AddItemToObjectAccepts, AddItemToArrayAccepts
<1>2. AddNewToObjectResult(h, p, key, NULL, s) = Delete(h, NULL)
  BY <1>1 DEF AddNewToObjectResult, AddItemToObject
<1> QED BY <1>2, RootLinks, DeleteNull

\* A replacement takes the place of a child of p; g is the heap after the
\* replacement got its key.
LEMMA PutInPlace ==
    ASSUME NEW ks, Stands(heap, heap.live, roots, ks),
           NEW g, Stands(g, heap.live, roots, ks), NEW p \in heap.live, Owns(g, p),
           NEW i \in Members(g, p), NEW r \in roots, p \notin Reach(g, {r}),
           heap' = Delete(Substitute(g, p, i, r), i), roots' = roots \ {r}
    PROVE  Promised
<1>1. Stands(Delete(Substitute(g, p, i, r), i), heap.live \ Promise!Subtree(ks, i), roots \ {r},
             Promise!Drop(Substituted(ks, p, i, r), Promise!Subtree(ks, i)))
  BY ReplaceStands
<1>2. Stands(heap', heap.live \ Promise!Subtree(ks, i), roots',
             Promise!Drop(Substituted(ks, p, i, r), Promise!Subtree(ks, i)))
  BY <1>1
<1>3. Maps(g, roots, ks) /\ p \in g.live /\ p \notin g.isReference
  BY DEF Stands, Owns
<1>4. g \in Heap /\ Kids(g, ks) /\ \E d \in [Node -> NodePtr] : Linked(g, roots, d)
  BY <1>3, MapsParts
<1>5. Promise!Subtree(ks, r) = Reach(g, {r})
  BY <1>4, SubtreeIsReach
<1>6. i \in Promise!ToSet(ks[p])
  <2>1. Promise!ToSet(ks[p]) = Members(g, p)
    BY <1>3, <1>4, ToSetIsMembers
  <2> QED BY <2>1
<1>7. p \notin Promise!Subtree(ks, r)
  BY <1>5
<1> QED BY <1>2, <1>6, <1>7, ReplaceStep

\* A reference is created and stored; without a name it stays outside.
LEMMA StoreReferenceInArray ==
    ASSUME NEW ks, Stands(heap, heap.live, roots, ks),
           NEW p \in heap.live, Owns(heap, p), NEW i \in heap.live, NEW n \in Node \ heap.live,
           heap' = AddItemToArray(CreateReference(heap, n, i), p, n), roots' = roots
    PROVE  Promised
<1> DEFINE g == CreateReference(heap, n, i)
<1>1. /\ Stands(g, heap.live \cup {n}, roots \cup {n}, ks) /\ Childless(g, n)
      /\ \A q : Owns(heap, q) => Owns(g, q)
  BY CreateReferenceStands
<1>2. heap' = AddItemToArray(g, p, n)
  OBVIOUS
<1>3. n \notin roots /\ n # NULL /\ p # n
  BY MapsParts, AddressAssumption DEF Stands
<1> HIDE DEF g
<1>4. n \in roots \cup {n} /\ (roots \cup {n}) \ {n} = roots
  BY <1>3
<1>5. Reach(g, {n}) = {n}
  BY <1>1, <1>4, ChildlessReach
<1>6. p \notin Reach(g, {n}) \ {n} /\ AddItemToArrayAccepts(p, n) /\ Owns(g, p)
  BY <1>1, <1>3, <1>5 DEF AddItemToArrayAccepts
<1>7. Stands(AddItemToArray(g, p, n), heap.live \cup {n}, (roots \cup {n}) \ {n},
             Appended(ks, p, n))
  BY <1>1, <1>4, <1>6, AppendStands
<1>8. Stands(heap', heap.live \cup {n}, roots', Appended(ks, p, n))
  BY <1>2, <1>4, <1>7
<1> QED BY <1>8, CreateInStep

LEMMA StoreReferenceInObject ==
    ASSUME NEW ks, Stands(heap, heap.live, roots, ks),
           NEW p \in heap.live, Owns(heap, p), NEW i \in heap.live, NEW n \in Node \ heap.live,
           NEW key \in StrPtr, NEW s \in Str \cup {NULL},
           heap' = AddItemToObject(CreateReference(heap, n, i), p, key, n, s, FALSE),
           roots' = roots
    PROVE  Promised
<1> DEFINE g == CreateReference(heap, n, i)
<1>1. /\ Stands(g, heap.live \cup {n}, roots \cup {n}, ks) /\ Childless(g, n)
      /\ \A q : Owns(heap, q) => Owns(g, q)
  BY CreateReferenceStands
<1>2. heap' = AddItemToObject(g, p, key, n, s, FALSE)
  OBVIOUS
<1>3. n \notin roots /\ n # NULL /\ p # n /\ FALSE \in BOOLEAN
  BY MapsParts, AddressAssumption DEF Stands
<1>r. /\ heap \in Heap /\ i \in Node
  BY MapsParts DEF Stands
<1>g. /\ g.string[n] = NULL /\ n \in g.isReference
  BY <1>r, CreateReferenceHeap
<1> HIDE DEF g
<1>4. n \in roots \cup {n} /\ (roots \cup {n}) \ {n} = roots
  BY <1>3
<1>5. Reach(g, {n}) = {n}
  BY <1>1, <1>4, ChildlessReach
<1>6. p \notin Reach(g, {n}) \ {n} /\ Owns(g, p)
  BY <1>1, <1>5
<1>7. CASE AddItemToObjectAccepts(p, n, s, FALSE)
  <2>1. Stands(AddItemToObject(g, p, key, n, s, FALSE), heap.live \cup {n},
               (roots \cup {n}) \ {n}, Appended(ks, p, n))
    BY <1>1, <1>3, <1>4, <1>6, <1>7, AppendToObjectStands
  <2>2. Stands(heap', heap.live \cup {n}, roots', Appended(ks, p, n))
    BY <1>2, <1>4, <2>1
  <2> QED BY <2>2, CreateInStep
<1>8. CASE ~AddItemToObjectAccepts(p, n, s, FALSE)
  <2>1. heap' = g
    BY <1>2, <1>8 DEF AddItemToObject
  <2>2. LinksInv(g, roots \cup {n}) /\ Kids(g, ks) /\ g.live = heap.live \cup {n}
    BY <1>1 DEF Stands, Maps
  <2>3. LinksInv(g, (roots \cup {n}) \ {n})
    BY <1>4, <1>g, <2>2, ForgetLinks
  <2>4. Stands(g, heap.live \cup {n}, roots, ks)
    BY <1>4, <2>2, <2>3 DEF Stands, Maps
  <2>5. Stands(heap', heap.live \cup {n}, roots', ks)
    BY <2>1, <2>4
  <2> QED BY <2>5, LoseStep
<1> QED BY <1>7, <1>8

\* A new item is created and stored at once, or deleted again.
LEMMA StoreNewInObject ==
    ASSUME NEW ks, Stands(heap, heap.live, roots, ks),
           NEW p \in heap.live, Owns(heap, p), NEW n \in Node \ heap.live,
           NEW g, Stands(g, heap.live \cup {n}, roots \cup {n}, ks), Childless(g, n), Owns(g, p),
           NEW key \in StrPtr, NEW s \in Str \cup {NULL},
           heap' = AddNewToObjectResult(g, p, key, n, s), roots' = roots
    PROVE  Promised
<1>1. n \notin roots /\ (heap.live \cup {n}) \ {n} = heap.live
  BY MapsParts DEF Stands
<1>2. \/ Stands(AddNewToObjectResult(g, p, key, n, s), heap.live \cup {n}, roots,
                Appended(ks, p, n))
      \/ Stands(AddNewToObjectResult(g, p, key, n, s), (heap.live \cup {n}) \ {n}, roots, ks)
  BY <1>1, AddNewStands
<1>3. CASE Stands(AddNewToObjectResult(g, p, key, n, s), heap.live \cup {n}, roots,
                  Appended(ks, p, n))
  <2>1. Stands(heap', heap.live \cup {n}, roots', Appended(ks, p, n))
    BY <1>3
  <2> QED BY <2>1, CreateInStep
<1>4. CASE Stands(AddNewToObjectResult(g, p, key, n, s), (heap.live \cup {n}) \ {n}, roots, ks)
  <2>1. Stands(heap', heap.live, roots', ks)
    BY <1>1, <1>4
  <2> QED BY <2>1, StutterStep
<1> QED BY <1>2, <1>3, <1>4

\* Every call takes a heap that stands for a forest to one that stands for
\* what a step of Forest, or none, makes of that forest.
THEOREM StepsArePromised == Represented /\ [Next]_vars => Promised
<1> SUFFICES ASSUME Represented, [Next]_vars PROVE Promised
  OBVIOUS
<1>k. PICK ks : Stands(heap, heap.live, roots, ks)
  BY DEF Represented
<1>t. /\ LinksInv(heap, roots)
      /\ \A p \in Containers : /\ p \in heap.live /\ Owns(heap, p)
                               /\ Promise!ToSet(ks[p]) = Members(heap, p)
      /\ \A r \in roots : Promise!Subtree(ks, r) = Reach(heap, {r})
  BY <1>k, ForestFacts
<1>f. /\ heap \in Heap /\ roots \subseteq heap.live /\ heap.live \subseteq Node
      /\ \A p \in Containers : p \in heap.live /\ p \notin heap.isReference
      /\ NewNodes \subseteq (Node \ heap.live) \cup {NULL}
      /\ NewStrings \subseteq Str \cup {NULL}
      /\ Name \subseteq StrPtr
      /\ \A i \in heap.live : KeyArgs(i) \subseteq StrPtr
      /\ \A p \in Containers : \A i \in Storable(p) :
           i \in roots /\ p \notin Reach(heap, {i}) \ {i}
      /\ \A p \in Containers : \A i \in Placeable(p) :
           i \in roots /\ p \notin Reach(heap, {i}) /\ i # p
  BY <1>t, ArgumentFacts
<1>c. Kind \subseteq Type /\ "String" \in Type /\ NULL \notin Node
  BY FlagsAssumption, AddressAssumption DEF Type
<1>n. ASSUME heap' = heap, roots' = roots PROVE Promised
  BY <1>k, <1>n, NothingHappens
<1>1. CASE CreateItem
  <2>1. PICK n \in NewNodes, t \in Kind :
          heap' = NewItem(heap, n, t) /\ roots' = roots \cup ({n} \ {NULL})
    BY <1>1 DEF CreateItem
  <2>2. CASE n = NULL
    <3>1. heap' = heap /\ roots' = roots
      BY <2>1, <2>2 DEF NewItem
    <3> QED BY <3>1, <1>n
  <2>3. CASE n # NULL
    <3>1. n \in Node \ heap.live /\ t \in Type /\ roots' = roots \cup {n}
      BY <1>f, <1>c, <2>1, <2>3
    <3>2. Stands(NewItem(heap, n, t), heap.live \cup {n}, roots \cup {n}, ks)
      BY <1>k, <3>1, NewItemStands
    <3> QED BY <1>k, <2>1, <3>1, <3>2, CreateAny
  <2> QED BY <2>2, <2>3
<1>2. CASE CreateStringItem
  <2>1. PICK n \in NewNodes, s \in NewStrings, name \in Name :
          /\ heap' = CreateString(heap, n, s, name)
          /\ roots' = IF s = NULL THEN roots ELSE roots \cup ({n} \ {NULL})
    BY <1>2 DEF CreateStringItem
  <2>2. CASE n = NULL
    <3>1. heap' = heap /\ roots' = roots
      BY <2>1, <2>2 DEF CreateString
    <3> QED BY <3>1, <1>n
  <2>3. CASE n # NULL /\ s = NULL
    <3>1. n \in Node \ heap.live /\ roots' = roots /\ heap' = CreateString(heap, n, NULL, name)
      BY <1>f, <2>1, <2>3
    <3>2. Stands(CreateString(heap, n, NULL, name), heap.live, roots, ks)
      BY <1>k, <3>1, NoStringStands
    <3> QED BY <1>k, <3>1, <3>2, NothingHappens
  <2>4. CASE n # NULL /\ s # NULL
    <3>1. n \in Node \ heap.live /\ s \in Str /\ roots' = roots \cup {n}
      BY <1>f, <2>1, <2>4
    <3>2. Stands(CreateString(heap, n, s, name), heap.live \cup {n}, roots \cup {n}, ks)
      BY <1>k, <3>1, CreateStringStands
    <3> QED BY <1>k, <2>1, <3>1, <3>2, CreateAny
  <2> QED BY <2>2, <2>3, <2>4
<1>3. CASE CreateStringReference
  <2>1. PICK n \in FreeNodes(heap), name \in Name :
          /\ heap' = [NewItem(heap, n, "String") EXCEPT
                        !.isReference = @ \cup {n}, !.valuestring[n] = name]
          /\ roots' = roots \cup {n}
    BY <1>3 DEF CreateStringReference
  <2>2. n \in Node \ heap.live
    BY DEF FreeNodes
  <2>3. heap' = ReferenceItem(heap, n, "String", NULL, name, {})
    BY <1>f, <2>1, <2>2, StringReferenceIsItem
  <2>4. NULL \in NodePtr /\ name \in StrPtr /\ {} \in SUBSET {n}
    BY <1>f DEF NodePtr
  <2>5. Stands(ReferenceItem(heap, n, "String", NULL, name, {}), heap.live \cup {n},
               roots \cup {n}, ks)
    BY <1>k, <1>c, <2>2, <2>4, ReferenceItemStands
  <2> QED BY <1>k, <2>1, <2>2, <2>3, <2>5, CreateAny
<1>4. CASE CreateContainerReference
  <2>1. PICK n \in FreeNodes(heap), t \in ContainerType, c \in heap.live :
          /\ heap' = [NewItem(heap, n, t) EXCEPT
                        !.isReference = @ \cup {n}, !.child[n] = c]
          /\ roots' = roots \cup {n}
    BY <1>4 DEF CreateContainerReference
  <2>2. n \in Node \ heap.live /\ t \in Type /\ c \in NodePtr
    BY <1>f DEF FreeNodes, ContainerType, Type, NodePtr
  <2>3. heap' = ReferenceItem(heap, n, t, c, NULL, {})
    BY <1>f, <2>1, <2>2, ContainerReferenceIsItem
  <2>4. NULL \in StrPtr /\ {} \in SUBSET {n}
    BY DEF StrPtr
  <2>5. Stands(ReferenceItem(heap, n, t, c, NULL, {}), heap.live \cup {n}, roots \cup {n}, ks)
    BY <1>k, <2>2, <2>4, ReferenceItemStands
  <2> QED BY <1>k, <2>1, <2>2, <2>3, <2>5, CreateAny
<1>5. CASE DeleteRoot
  <2>1. PICK r \in roots : heap' = Delete(heap, r) /\ roots' = roots \ {r}
    BY <1>5 DEF DeleteRoot
  <2>2. Stands(Delete(heap, r), heap.live \ Promise!Subtree(ks, r), roots \ {r},
               Promise!Drop(ks, Promise!Subtree(ks, r)))
    BY <1>k, DeleteStands
  <2>3. Stands(heap', heap.live \ Promise!Subtree(ks, r), roots',
               Promise!Drop(ks, Promise!Subtree(ks, r)))
    BY <2>1, <2>2
  <2> QED BY <1>k, <2>1, <2>3, ReleaseStep
<1>6. CASE AddToArray
  <2>1. PICK p \in Containers : \E i \in Storable(p) :
          /\ heap' = AddItemToArray(heap, p, i)
          /\ roots' = IF AddItemToArrayAccepts(p, i) THEN roots \ {i} ELSE roots
    BY <1>6 DEF AddToArray
  <2>2. PICK i \in Storable(p) :
          /\ heap' = AddItemToArray(heap, p, i)
          /\ roots' = IF AddItemToArrayAccepts(p, i) THEN roots \ {i} ELSE roots
    BY <2>1
  <2>3. /\ p \in heap.live /\ Owns(heap, p)
        /\ i \in roots /\ p \notin Reach(heap, {i}) \ {i}
    BY <1>f, <1>t
  <2> QED BY <1>k, <2>2, <2>3, StoreInArray
<1>7. CASE AddToObject
  <2>1. PICK p \in Containers : \E i \in Storable(p), s \in NewStrings : \E key \in KeyArgs(i) :
          /\ heap' = AddItemToObject(heap, p, key, i, s, FALSE)
          /\ roots' = IF AddItemToObjectAccepts(p, i, s, FALSE) THEN roots \ {i} ELSE roots
    BY <1>7 DEF AddToObject
  <2>2. PICK i \in Storable(p), s \in NewStrings : \E key \in KeyArgs(i) :
          /\ heap' = AddItemToObject(heap, p, key, i, s, FALSE)
          /\ roots' = IF AddItemToObjectAccepts(p, i, s, FALSE) THEN roots \ {i} ELSE roots
    BY <2>1
  <2>3. PICK key \in KeyArgs(i) :
          /\ heap' = AddItemToObject(heap, p, key, i, s, FALSE)
          /\ roots' = IF AddItemToObjectAccepts(p, i, s, FALSE) THEN roots \ {i} ELSE roots
    BY <2>2
  <2>4. /\ p \in heap.live /\ Owns(heap, p)
        /\ i \in roots /\ p \notin Reach(heap, {i}) \ {i}
        /\ key \in StrPtr /\ s \in Str \cup {NULL} /\ FALSE \in BOOLEAN
    BY <1>f, <1>t
  <2> QED BY <1>k, <2>3, <2>4, StoreInObject
<1>8. CASE AddToObjectCS
  <2>1. PICK p \in Containers : \E i \in Storable(p), key \in Name :
          /\ heap' = AddItemToObject(heap, p, key, i, NULL, TRUE)
          /\ roots' = IF AddItemToObjectAccepts(p, i, NULL, TRUE) THEN roots \ {i} ELSE roots
    BY <1>8 DEF AddToObjectCS
  <2>2. PICK i \in Storable(p), key \in Name :
          /\ heap' = AddItemToObject(heap, p, key, i, NULL, TRUE)
          /\ roots' = IF AddItemToObjectAccepts(p, i, NULL, TRUE) THEN roots \ {i} ELSE roots
    BY <2>1
  <2>3. /\ p \in heap.live /\ Owns(heap, p)
        /\ i \in roots /\ p \notin Reach(heap, {i}) \ {i}
        /\ key \in StrPtr /\ NULL \in Str \cup {NULL} /\ TRUE \in BOOLEAN
    BY <1>f, <1>t
  <2> QED BY <1>k, <2>2, <2>3, StoreInObject
<1>9. CASE AddReferenceToArray
  <2>1. PICK p \in Containers, i \in heap.live, n \in NewNodes :
          heap' = AddItemToArray(CreateReference(heap, n, i), p, n) /\ roots' = roots
    BY <1>9 DEF AddReferenceToArray
  <2>2. CASE n = NULL
    <3>1. heap' = heap
      BY <2>1, <2>2 DEF AddItemToArray, AddItemToArrayAccepts, CreateReference
    <3> QED BY <2>1, <3>1, <1>n
  <2>3. CASE n # NULL
    <3>1. n \in Node \ heap.live /\ p \in heap.live /\ Owns(heap, p)
      BY <1>f, <1>t, <2>3
    <3> QED BY <1>k, <2>1, <3>1, StoreReferenceInArray
  <2> QED BY <2>2, <2>3
<1>10. CASE AddReferenceToObject
  <2>1. PICK p \in Containers, i \in heap.live, n \in NewNodes, s \in NewStrings, key \in Name :
          /\ heap' = AddItemToObject(CreateReference(heap, n, i), p, key, n, s, FALSE)
          /\ roots' = roots
    BY <1>10 DEF AddReferenceToObject
  <2>2. CASE n = NULL
    <3>1. heap' = heap
      BY <2>1, <2>2 DEF AddItemToObject, AddItemToObjectAccepts, AddItemToArrayAccepts,
                        CreateReference
    <3> QED BY <2>1, <3>1, <1>n
  <2>3. CASE n # NULL
    <3>1. /\ n \in Node \ heap.live /\ p \in heap.live /\ Owns(heap, p)
          /\ key \in StrPtr /\ s \in Str \cup {NULL}
      BY <1>f, <1>t, <2>3
    <3> QED BY <1>k, <2>1, <3>1, StoreReferenceInObject
  <2> QED BY <2>2, <2>3
<1>11. CASE AddNewToObject
  <2>1. PICK p \in Containers, n \in NewNodes, s \in NewStrings, key \in Name, t \in Kind :
          /\ heap' = AddNewToObjectResult(NewItem(heap, n, t), p, key, n, s)
          /\ roots' = roots
    BY <1>11 DEF AddNewToObject
  <2>2. CASE n = NULL
    <3>1. AddNewToObjectResult(heap, p, key, NULL, s) = heap
      BY <1>t, AddNothingChanges
    <3>2. NewItem(heap, n, t) = heap
      BY <2>2 DEF NewItem
    <3> QED BY <2>1, <2>2, <3>1, <3>2, <1>n
  <2>3. CASE n # NULL
    <3>1. /\ n \in Node \ heap.live /\ t \in Type /\ p \in heap.live /\ Owns(heap, p)
          /\ key \in StrPtr /\ s \in Str \cup {NULL}
      BY <1>f, <1>t, <1>c, <2>3
    <3> DEFINE g == NewItem(heap, n, t)
    <3>2. /\ Stands(g, heap.live \cup {n}, roots \cup {n}, ks) /\ Childless(g, n)
          /\ \A q : Owns(heap, q) => Owns(g, q)
      BY <1>k, <3>1, NewItemStands
    <3>3. heap' = AddNewToObjectResult(g, p, key, n, s) /\ roots' = roots
      BY <2>1
    <3> HIDE DEF g
    <3>4. Owns(g, p)
      BY <3>1, <3>2
    <3> QED BY <1>k, <3>1, <3>2, <3>3, <3>4, StoreNewInObject
  <2> QED BY <2>2, <2>3
<1>12. CASE AddStringToObject
  <2>1. PICK p \in Containers, n \in NewNodes, v \in NewStrings, key \in Name, value \in Name :
          \E s \in (NewStrings \ {v}) \cup (IF MayFail THEN {NULL} ELSE {}) :
            /\ heap' = AddNewToObjectResult(CreateString(heap, n, v, value), p, key,
                                            IF v = NULL THEN NULL ELSE n, s)
            /\ roots' = roots
    BY <1>12 DEF AddStringToObject
  <2>2. PICK s \in (NewStrings \ {v}) \cup (IF MayFail THEN {NULL} ELSE {}) :
            /\ heap' = AddNewToObjectResult(CreateString(heap, n, v, value), p, key,
                                            IF v = NULL THEN NULL ELSE n, s)
            /\ roots' = roots
    BY <2>1
  <2>3. /\ p \in heap.live /\ Owns(heap, p)
        /\ key \in StrPtr /\ v \in Str \cup {NULL}
    BY <1>f, <1>t
  <2>4. s \in Str \cup {NULL}
    BY <1>f
  <2>5. CASE n = NULL
    <3>1. CreateString(heap, n, v, value) = heap /\ (IF v = NULL THEN NULL ELSE n) = NULL
      BY <2>5 DEF CreateString
    <3>2. AddNewToObjectResult(heap, p, key, NULL, s) = heap
      BY <1>t, AddNothingChanges
    <3> QED BY <2>2, <3>1, <3>2, <1>n
  <2>6. CASE n # NULL /\ v = NULL
    <3> DEFINE g == CreateString(heap, n, NULL, value)
    <3>1. n \in Node \ heap.live
      BY <1>f, <2>6
    <3>2. Stands(g, heap.live, roots, ks)
      BY <1>k, <3>1, NoStringStands
    <3>3. heap' = AddNewToObjectResult(g, p, key, NULL, s) /\ roots' = roots
      BY <2>2, <2>6
    <3> HIDE DEF g
    <3>4. AddNewToObjectResult(g, p, key, NULL, s) = g
      <4>1. LinksInv(g, roots)
        BY <3>2 DEF Stands, Maps
      <4> QED BY <4>1, AddNothingChanges
    <3> QED BY <1>k, <3>2, <3>3, <3>4, NothingHappens
  <2>7. CASE n # NULL /\ v # NULL
    <3> DEFINE g == CreateString(heap, n, v, value)
    <3>1. n \in Node \ heap.live /\ v \in Str
      BY <1>f, <2>3, <2>7
    <3>2. /\ Stands(g, heap.live \cup {n}, roots \cup {n}, ks) /\ Childless(g, n)
          /\ \A q : Owns(heap, q) => Owns(g, q)
      BY <1>k, <3>1, CreateStringStands
    <3>3. heap' = AddNewToObjectResult(g, p, key, n, s) /\ roots' = roots
      BY <2>2, <2>7
    <3> HIDE DEF g
    <3>4. Owns(g, p)
      BY <2>3, <3>2
    <3> QED BY <1>k, <2>3, <2>4, <3>1, <3>2, <3>3, <3>4, StoreNewInObject
  <2> QED BY <2>5, <2>6, <2>7
<1>13. CASE InsertIntoArray
  <2>1. PICK p \in Containers : \E after \in Members(heap, p) \cup {NULL} :
          \E i \in IF after = NULL THEN Storable(p) ELSE Placeable(p) :
            /\ heap' = InsertItemInArray(heap, p, after, i)
            /\ roots' = IF p = i THEN roots ELSE roots \ {i}
    BY <1>13 DEF InsertIntoArray
  <2>2. PICK after \in Members(heap, p) \cup {NULL} :
          \E i \in IF after = NULL THEN Storable(p) ELSE Placeable(p) :
            /\ heap' = InsertItemInArray(heap, p, after, i)
            /\ roots' = IF p = i THEN roots ELSE roots \ {i}
    BY <2>1
  <2>3. PICK i \in IF after = NULL THEN Storable(p) ELSE Placeable(p) :
            /\ heap' = InsertItemInArray(heap, p, after, i)
            /\ roots' = IF p = i THEN roots ELSE roots \ {i}
    BY <2>2
  <2>4. p \in heap.live /\ Owns(heap, p) /\ Promise!ToSet(ks[p]) = Members(heap, p)
    BY <1>t
  <2>5. CASE after = NULL
    <3>1. i \in roots /\ p \notin Reach(heap, {i}) \ {i} /\ i # NULL
      BY <1>f, <1>c, <2>5
    <3>2. /\ heap' = AddItemToArray(heap, p, i)
          /\ roots' = IF AddItemToArrayAccepts(p, i) THEN roots \ {i} ELSE roots
      BY <2>3, <2>5, <3>1 DEF InsertItemInArray, AddItemToArrayAccepts
    <3> QED BY <1>k, <2>4, <3>1, <3>2, StoreInArray
  <2>6. CASE after # NULL
    <3>1. i \in roots /\ p \notin Reach(heap, {i}) /\ i # p /\ after \in Members(heap, p)
      BY <1>f, <2>6
    <3>2. Stands(InsertItemInArray(heap, p, after, i), heap.live, roots \ {i},
                 Inserted(ks, p, after, i))
      BY <1>k, <2>4, <3>1, InsertStands
    <3>3. roots' = roots \ {i} /\ Stands(heap', heap.live, roots', Inserted(ks, p, after, i))
      BY <2>3, <3>1, <3>2
    <3>4. p \notin Promise!Subtree(ks, i) /\ after \in Promise!ToSet(ks[p])
      BY <1>t, <2>4, <3>1
    <3> QED BY <1>k, <2>4, <3>1, <3>3, <3>4, InsertStep
  <2> QED BY <2>5, <2>6
<1>14. CASE Detach
  <2>1. PICK p \in Containers : \E i \in Members(heap, p) :
          heap' = DetachItem(heap, p, i) /\ roots' = roots \cup {i}
    BY <1>14 DEF Detach
  <2>2. PICK i \in Members(heap, p) :
          heap' = DetachItem(heap, p, i) /\ roots' = roots \cup {i}
    BY <2>1
  <2>3. p \in heap.live /\ Owns(heap, p) /\ i \in Promise!ToSet(ks[p])
    BY <1>t
  <2>4. Stands(DetachItem(heap, p, i), heap.live, roots \cup {i}, Removed(ks, p, i))
    BY <1>k, <2>3, DetachStands
  <2>5. Stands(heap', heap.live, roots', Removed(ks, p, i))
    BY <2>2, <2>4
  <2> QED BY <1>k, <2>2, <2>3, <2>5, TakeOutStep
<1>15. CASE DeleteFromContainer
  <2>1. PICK p \in Containers : \E i \in Members(heap, p) :
          heap' = Delete(DetachItem(heap, p, i), i) /\ roots' = roots
    BY <1>15 DEF DeleteFromContainer
  <2>2. PICK i \in Members(heap, p) :
          heap' = Delete(DetachItem(heap, p, i), i) /\ roots' = roots
    BY <2>1
  <2>3. p \in heap.live /\ Owns(heap, p) /\ i \in Promise!ToSet(ks[p])
    BY <1>t
  <2>4. Stands(Delete(DetachItem(heap, p, i), i), heap.live \ Promise!Subtree(ks, i), roots,
               Promise!Drop(Removed(ks, p, i), Promise!Subtree(ks, i)))
    BY <1>k, <2>3, DiscardStands
  <2>5. Stands(heap', heap.live \ Promise!Subtree(ks, i), roots',
               Promise!Drop(Removed(ks, p, i), Promise!Subtree(ks, i)))
    BY <2>2, <2>4
  <2> QED BY <1>k, <2>2, <2>3, <2>5, DiscardStep
<1>16. CASE ReplaceItem
  <2>1. PICK p \in Containers : \E i \in Members(heap, p) \cup {NULL} :
          \E r \in Placeable(p) \cup ({i} \ {NULL}) :
            /\ heap' = ReplaceItemViaPointer(heap, p, i, r)
            /\ roots' = IF ReplaceItemAccepts(heap, p, i) THEN roots \ {r} ELSE roots
    BY <1>16 DEF ReplaceItem
  <2>2. PICK i \in Members(heap, p) \cup {NULL} :
          \E r \in Placeable(p) \cup ({i} \ {NULL}) :
            /\ heap' = ReplaceItemViaPointer(heap, p, i, r)
            /\ roots' = IF ReplaceItemAccepts(heap, p, i) THEN roots \ {r} ELSE roots
    BY <2>1
  <2>3. PICK r \in Placeable(p) \cup ({i} \ {NULL}) :
            /\ heap' = ReplaceItemViaPointer(heap, p, i, r)
            /\ roots' = IF ReplaceItemAccepts(heap, p, i) THEN roots \ {r} ELSE roots
    BY <2>2
  <2>4. p \in heap.live /\ Owns(heap, p) /\ p \notin heap.isReference
    BY <1>f, <1>t
  <2>5. CASE ~ReplaceItemAccepts(heap, p, i)
    <3>1. heap' = heap /\ roots' = roots
      BY <2>3, <2>5 DEF ReplaceItemViaPointer
    <3> QED BY <3>1, <1>n
  <2>6. CASE ReplaceItemAccepts(heap, p, i)
    <3>1. i \in Members(heap, p)
      BY <2>6 DEF ReplaceItemAccepts
    <3>2. i \notin roots
      BY <1>t, <2>4, <3>1, DetachLinks
    <3>3. CASE r = i
      <4>1. heap' = heap /\ roots' = roots
        BY <2>3, <2>6, <3>2, <3>3 DEF ReplaceItemViaPointer
      <4> QED BY <4>1, <1>n
    <3>4. CASE r # i
      <4>1. r \in roots /\ p \notin Reach(heap, {r})
        BY <1>f, <3>4
      <4>2. heap' = Delete(Substitute(heap, p, i, r), i) /\ roots' = roots \ {r}
        BY <2>3, <2>6, <3>4 DEF ReplaceItemViaPointer
      <4> QED BY <1>k, <2>4, <3>1, <4>1, <4>2, PutInPlace
    <3> QED BY <3>3, <3>4
  <2> QED BY <2>5, <2>6
<1>17. CASE ReplaceInObject
  <2>1. PICK p \in Containers, key \in Name, s \in NewStrings, cs \in BOOLEAN :
          \E r \in Placeable(p) : ReplaceInObjectStep(p, key, s, cs, r)
    BY <1>17 DEF ReplaceInObject, ReplaceInObjectStep
  <2>2. PICK r \in Placeable(p) : ReplaceInObjectStep(p, key, s, cs, r)
    BY <2>1
  <2> DEFINE g == RenameReplacement(heap, r, key, s)
             i == GetObjectItem(g, p, key, cs)
  <2>3. /\ p \in heap.live /\ Owns(heap, p)
        /\ r \in roots /\ p \notin Reach(heap, {r})
        /\ key \in StrPtr /\ s \in Str \cup {NULL}
    BY <1>f, <1>t
  <2>4. LinksInv(g, roots) /\ SameLinks(g, heap)
    BY <1>t, <2>3, RenameLinks
  <2>5. i \in Members(g, p) \cup {NULL}
    BY DEF GetObjectItem
  <2>6. \/ heap' = g /\ roots' = roots
        \/ /\ ReplaceItemAccepts(g, p, i)
           /\ heap' = ReplaceItemViaPointer(g, p, i, r) /\ roots' = roots \ {r}
    BY <2>2 DEF ReplaceInObjectStep
  <2> HIDE DEF g, i
  <2>7. Stands(g, heap.live, roots, ks) /\ Owns(g, p) /\ p \notin Reach(g, {r})
    <3>1. Maps(heap, roots, ks)
      BY <1>k DEF Stands
    <3>2. Maps(g, roots, ks)
      BY <2>4, <3>1, SameMaps
    <3>3. Reach(g, {r}) = Reach(heap, {r})
      BY <2>4, SameReach DEF SameLinks
    <3> QED BY <2>3, <2>4, <3>2, <3>3 DEF Stands, SameLinks, Owns
  <2>8. CASE heap' = g /\ roots' = roots
    BY <1>k, <2>7, <2>8, NothingHappens
  <2>9. CASE /\ ReplaceItemAccepts(g, p, i)
             /\ heap' = ReplaceItemViaPointer(g, p, i, r) /\ roots' = roots \ {r}
    <3>1. i \in Members(g, p)
      BY <2>5, <2>9 DEF ReplaceItemAccepts
    <3>2. Maps(g, roots, ks)
      BY <2>7 DEF Stands
    <3>3. i \notin roots
      BY <2>7, <3>1, <3>2, DetachedAside
    <3>4. heap' = Delete(Substitute(g, p, i, r), i)
      BY <2>3, <2>9, <3>3 DEF ReplaceItemViaPointer
    <3> QED BY <1>k, <2>3, <2>7, <2>9, <3>1, <3>4, PutInPlace
  <2> QED BY <2>6, <2>8, <2>9
<1>18. CASE SetString
  <2>1. PICK i \in heap.live, name \in Name, s \in NewStrings :
          /\ SetValuestringAccepts(heap, i)
          /\ heap' = SetValuestring(heap, i, name, s) /\ roots' = roots
    BY <1>18 DEF SetString
  <2>2. s \in Str \cup {NULL}
    BY <1>f
  <2> DEFINE g == SetValuestring(heap, i, name, s)
  <2>3. LinksInv(g, roots) /\ SameLinks(g, heap)
    BY <1>t, <2>1, <2>2, SetValuestringLinks
  <2>4. heap' = g /\ roots' = roots
    BY <2>1
  <2> HIDE DEF g
  <2>5. Maps(heap, roots, ks)
    BY <1>k DEF Stands
  <2>6. Maps(g, roots, ks)
    BY <2>3, <2>5, SameMaps
  <2>7. Stands(g, heap.live, roots, ks)
    BY <2>3, <2>6 DEF Stands, SameLinks
  <2> QED BY <1>k, <2>4, <2>7, NothingHappens
<1>19. CASE UNCHANGED vars
  BY <1>19, <1>n DEF vars
<1> QED BY <1>1, <1>2, <1>3, <1>4, <1>5, <1>6, <1>7, <1>8, <1>9, <1>10, <1>11, <1>12,
           <1>13, <1>14, <1>15, <1>16, <1>17, <1>18, <1>19 DEF Next

\* Nothing stands for the empty forest.
LEMMA InitPromised == Init => Represented /\ Promise!Init
<1> SUFFICES ASSUME Init PROVE Represented /\ Promise!Init
  OBVIOUS
<1> DEFINE none == [p \in Node |-> <<>>]
<1>1. heap = EmptyHeap /\ heap.live = {} /\ roots = {} /\ LinksInv(heap, roots)
  BY LinksInit DEF Init, EmptyHeap
<1>2. none \in [Node -> Seq(Node)]
  BY EmptySeq
<1>3. Kids(heap, none)
  BY <1>1, <1>2 DEF Kids
<1>4. [p \in Node |-> ChildSeq(heap, p)] = none
  BY <1>1 DEF ChildSeq
<1>5. Stands(heap, heap.live, roots, none)
  BY <1>1, <1>3 DEF Stands, Maps
<1> QED BY <1>1, <1>4, <1>5 DEF Represented, Promise!Init

\* Every behaviour of the pointer code is a behaviour of the forest: the order
\* of the children that cJSON_GetArraySize and cJSON_GetArrayItem report
\* changes as the header says, whatever the calls and the failed allocations.
THEOREM ManipImplementsForest == Spec => ImplementsForest
<1>1. Init => Represented /\ Promise!Init
  BY InitPromised
<1>2. Represented /\ [Next]_vars => Represented' /\ [Promise!Next]_(Promise!fvars)
  BY StepsArePromised DEF Promised
<1> QED BY <1>1, <1>2, PTL DEF Spec, ImplementsForest, Promise!Spec

=============================================================================
