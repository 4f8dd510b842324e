---------------------------- MODULE ManipTheorems ----------------------------
(***************************************************************************)
(* The safety theorems of Manip: every primitive and every action keeps the *)
(* invariant LinksInv, and TypeOK, ListsWellLinked, SingleOwner and         *)
(* OnlyReferencesLost follow.                                              *)
(***************************************************************************)
EXTENDS ManipInv, TLAPS

-----------------------------------------------------------------------------
(* Reachability *)

\* Reach is contained in every closed set that contains its start.
LEMMA ReachLeast ==
    ASSUME NEW h, NEW S, NEW C \in SUBSET Node, S \subseteq C, Closed(h, C)
    PROVE  Reach(h, S) \subseteq C
BY DEF Reach

\* Reach is itself a closed set that contains its start.
LEMMA ReachClosed ==
    ASSUME NEW h \in Heap, NEW S \in SUBSET Node
    PROVE  /\ Reach(h, S) \in SUBSET Node
           /\ S \subseteq Reach(h, S)
           /\ Closed(h, Reach(h, S))
<1>1. Reach(h, S) \in SUBSET Node /\ S \subseteq Reach(h, S)
  BY DEF Reach
<1>2. ASSUME NEW n \in Reach(h, S), NEW s \in OwnedSucc(h, n)
      PROVE  s \in Reach(h, S)
  <2>1. s \in Node
    BY <1>1, <1>2, AddressAssumption DEF OwnedSucc, Heap, NodePtr
  <2>2. \A C \in SUBSET Node : S \subseteq C /\ Closed(h, C) => s \in C
    BY <1>2 DEF Reach, Closed
  <2> QED BY <2>1, <2>2 DEF Reach
<1> QED BY <1>1, <1>2 DEF Closed

\* The elements of the list of p are the items whose container is p.
LEMMA MembersOf ==
    ASSUME NEW h \in Heap, NEW R, NEW par, Linked(h, R, par),
           NEW p \in h.live, p \notin h.isReference
    PROVE  Members(h, p) = {n \in h.live : par[n] = p}
<1> DEFINE L == {n \in h.live : par[n] = p}
<1> USE AddressAssumption
<1>t. /\ h.live \in SUBSET Node /\ h.next \in [Node -> NodePtr]
      /\ h.child \in [Node -> NodePtr] /\ par \in [Node -> NodePtr]
  BY DEF Linked, Heap
<1>1. Members(h, p) \subseteq L
  <2>1. CASE h.child[p] = NULL
    BY <2>1 DEF Members
  <2>2. CASE h.child[p] # NULL
    <3>1. h.child[p] \in L
      BY <2>2 DEF Linked, FirstChild
    <3>2. ListClosed(h, L)
      BY <1>t DEF Linked, Forward, ListClosed
    <3> QED BY <1>t, <2>2, <3>1, <3>2 DEF Members, ListFrom
  <2> QED BY <2>1, <2>2
<1>2. ASSUME NEW n \in L PROVE n \in Members(h, p)
  <2>1. h.child[p] # NULL
    BY <1>t DEF Linked, Listed
  <2>2. SUFFICES ASSUME NEW C \in SUBSET Node, h.child[p] \in C, ListClosed(h, C)
                 PROVE  n \in C
    BY <1>t, <2>1 DEF Members, ListFrom
  <2> DEFINE X == {m \in h.live : par[m] = p => m \in C}
  <2>3. Tops(h, par) \subseteq X
    BY <1>t DEF Tops
  <2>4. Closed(h, X)
    <3> SUFFICES ASSUME NEW m \in X, NEW s \in OwnedSucc(h, m) PROVE s \in X
      BY DEF Closed
    <3>1. CASE s = h.next[m]
      BY <1>t, <2>2, <3>1 DEF OwnedSucc, Linked, Forward, ListClosed
    <3>2. CASE s = h.child[m] /\ m \notin h.isReference
      BY <1>t, <2>2, <3>2 DEF OwnedSucc, Linked, FirstChild
    <3> QED BY <3>1, <3>2 DEF OwnedSucc
  <2>5. h.live \subseteq X
    BY <1>t, <2>3, <2>4, ReachLeast DEF Linked, Reached
  <2> QED BY <2>5
<1> QED BY <1>1, <1>2

\* Whatever is closed and contains p contains the list of p.
LEMMA ClosedMembers ==
    ASSUME NEW h \in Heap, NEW C \in SUBSET Node, Closed(h, C),
           NEW p \in C, p \notin h.isReference
    PROVE  Members(h, p) \subseteq C
<1>1. ListClosed(h, C)
  BY DEF Closed, ListClosed, OwnedSucc
<1>2. h.child[p] # NULL => h.child[p] \in C
  BY DEF Closed, OwnedSucc
<1> QED BY <1>1, <1>2 DEF Members, ListFrom

-----------------------------------------------------------------------------
(* Links: what each pointer primitive does to Linked *)

\* The fields of a heap that Linked looks at, with their types.
LEMMA HeapTypes ==
    ASSUME NEW h \in Heap
    PROVE  /\ h.live \in SUBSET Node
           /\ h.next \in [Node -> NodePtr]
           /\ h.prev \in [Node -> NodePtr]
           /\ h.child \in [Node -> NodePtr]
BY DEF Heap

\* Setting one prev pointer to a node keeps the shape of the heap.
LEMMA PrevHeap ==
    ASSUME NEW h \in Heap, NEW x \in Node, NEW y \in Node
    PROVE  [h EXCEPT !.prev[x] = y] \in Heap
BY DEF Heap, NodePtr

\* suffix_object keeps the shape of the heap.
LEMMA SuffixHeap ==
    ASSUME NEW h \in Heap, NEW x \in Node, NEW y \in Node
    PROVE  SuffixObject(h, x, y) \in Heap
BY DEF Heap, SuffixObject, NodePtr

\* A fresh node with no links joins the client's items; it may be a
\* reference whose child leads anywhere.
LEMMA FreshLinked ==
    ASSUME NEW h \in Heap, NEW R, NEW par, Linked(h, R, par),
           NEW g \in Heap, NEW n \in Node \ h.live,
           g.live = h.live \cup {n},
           g.next = [h.next EXCEPT ![n] = NULL],
           g.prev = [h.prev EXCEPT ![n] = NULL],
           \A m \in h.live : /\ g.child[m] = h.child[m]
                             /\ g.string[m] = h.string[m]
                             /\ m \in g.isReference <=> m \in h.isReference,
           n \in g.isReference \/ g.child[n] = NULL
    PROVE  Linked(g, R \cup {n}, [par EXCEPT ![n] = NULL])
<1> DEFINE q == [par EXCEPT ![n] = NULL]
<1> USE AddressAssumption, HeapTypes DEF NodePtr
<1>t. q \in [Node -> NodePtr] /\ par \in [Node -> NodePtr]
  BY DEF Linked
<1>p. \A m \in h.live : m # n /\ par[m] # n /\ h.next[m] # n /\ h.prev[m] # n
  BY DEF Linked, TopItems, Listed, Forward
<1>1. TopItems(g, R \cup {n}, q)
  BY <1>t, <1>p DEF Linked, TopItems
<1>2. Listed(g, q)
  BY <1>t, <1>p DEF Linked, Listed
<1>3. Forward(g, q)
  <2> SUFFICES ASSUME NEW m \in g.live, g.next[m] # NULL
               PROVE  /\ g.next[m] \in g.live /\ g.prev[g.next[m]] = m
                      /\ q[g.next[m]] = q[m] /\ g.child[q[m]] # g.next[m]
    BY DEF Forward
  <2>1. m \in h.live /\ g.next[m] = h.next[m]
    BY <1>t
  <2>2. par[m] # NULL
    BY <2>1 DEF Linked, TopItems
  <2> QED BY <1>t, <1>p, <2>1, <2>2 DEF Linked, Forward, Listed
<1>4. FirstChild(g, q)
  BY <1>t, <1>p DEF Linked, FirstChild
<1>5. OneTail(g, q)
  BY <1>t, <1>p DEF Linked, OneTail
<1>6. Reached(g, q)
  <2> SUFFICES ASSUME NEW C \in SUBSET Node, Tops(g, q) \subseteq C, Closed(g, C)
               PROVE  g.live \subseteq C
    BY DEF Reached, Reach
  <2> DEFINE X == C \cap h.live
  <2>1. n \in C /\ Tops(h, par) \subseteq X
    BY <1>t, <1>p DEF Tops
  <2>2. Closed(h, X)
    <3> SUFFICES ASSUME NEW m \in X, NEW s \in OwnedSucc(h, m) PROVE s \in X
      BY DEF Closed
    <3>1. s \in OwnedSucc(g, m)
      BY <1>p DEF OwnedSucc
    <3>2. s \in h.live
      BY DEF OwnedSucc, Linked, Forward, FirstChild
    <3> QED BY <3>1, <3>2 DEF Closed
  <2> QED BY <2>1, <2>2, ReachLeast DEF Linked, Reached
<1> QED BY <1>t, <1>1, <1>2, <1>3, <1>4, <1>5, <1>6 DEF Linked

\* Appending an item of the client to a container outside its own tree.
LEMMA AppendLinked ==
    ASSUME NEW h \in Heap, NEW R, NEW par, Linked(h, R, par),
           NEW p \in h.live, p \notin h.isReference,
           NEW i \in R, p \notin Reach(h, {i})
    PROVE  /\ AddItemToArray(h, p, i) \in Heap
           /\ Linked(AddItemToArray(h, p, i), R \ {i}, [par EXCEPT ![i] = p])
<1> DEFINE g == AddItemToArray(h, p, i)
           q == [par EXCEPT ![i] = p]
           f == h.child[p]
           t == h.prev[f]
<1> USE AddressAssumption DEF NodePtr
<1>h. /\ h.live \in SUBSET Node /\ h.next \in [Node -> NodePtr]
      /\ h.prev \in [Node -> NodePtr] /\ h.child \in [Node -> NodePtr]
  BY HeapTypes
<1>i. /\ i \in h.live /\ par[i] = NULL /\ h.next[i] = NULL /\ h.prev[i] = NULL
      /\ i \in Node /\ p \in Node
  BY <1>h DEF Linked, TopItems
<1>d. p # i
  BY <1>h, <1>i, ReachClosed
<1>t. q \in [Node -> NodePtr] /\ par \in [Node -> NodePtr]
  BY <1>h, <1>i DEF Linked
<1>f. f # NULL => /\ f \in h.live /\ par[f] = p /\ t \in h.live /\ par[t] = p
                  /\ h.next[t] = NULL /\ t # i /\ f # i
  BY <1>h, <1>i, <1>t DEF Linked, FirstChild, Listed
<1>a. AddItemToArrayAccepts(p, i)
  BY <1>d, <1>i DEF AddItemToArrayAccepts
<1>g. /\ g.live = h.live /\ g.isReference = h.isReference /\ g.string = h.string
      /\ f = NULL => /\ g.next = [h.next EXCEPT ![i] = NULL]
                     /\ g.prev = [h.prev EXCEPT ![i] = i]
                     /\ g.child = [h.child EXCEPT ![p] = i]
      /\ f # NULL => /\ g.next = [h.next EXCEPT ![t] = i]
                     /\ g.prev = [h.prev EXCEPT ![i] = t, ![f] = i]
                     /\ g.child = h.child
      /\ g \in Heap
  <2>1. CASE f = NULL
    BY <1>a, <1>i, <2>1 DEF AddItemToArray, Heap
  <2>2. CASE f # NULL
    <3>1. t # NULL
      BY <1>h, <1>f, <2>2
    <3>2. g = [SuffixObject(h, t, i) EXCEPT !.prev[f] = i]
      BY <1>a, <2>2, <3>1 DEF AddItemToArray
    <3>3. /\ g.live = h.live /\ g.isReference = h.isReference /\ g.string = h.string
          /\ g.next = [h.next EXCEPT ![t] = i] /\ g.child = h.child
          /\ g.prev = [[h.prev EXCEPT ![i] = t] EXCEPT ![f] = i]
      BY <3>2 DEF SuffixObject, Heap
    <3>4. g \in Heap
      <4>1. t \in Node /\ f \in Node
        BY <1>h, <1>f, <2>2
      <4>2. SuffixObject(h, t, i) \in Heap
        BY <1>i, <4>1, SuffixHeap
      <4> QED BY <1>i, <3>2, <4>1, <4>2, PrevHeap
    <3> QED BY <1>h, <1>i, <1>f, <2>2, <3>3, <3>4
  <2> QED BY <2>1, <2>2
<1>n. f = NULL => \A m \in h.live : par[m] # p
  BY <1>h, <1>i DEF Linked, Listed
<1>1. TopItems(g, R \ {i}, q)
  BY <1>h, <1>i, <1>t, <1>g, <1>f DEF Linked, TopItems
<1>2. Listed(g, q)
  <2> SUFFICES ASSUME NEW m \in g.live, q[m] # NULL
               PROVE  /\ q[m] \in g.live /\ q[m] \notin g.isReference
                      /\ g.child[q[m]] # NULL
                      /\ g.prev[m] \in g.live /\ q[g.prev[m]] = q[m]
                      /\ g.next[g.prev[m]] = IF g.child[q[m]] = m THEN NULL ELSE m
    BY DEF Listed
  <2>1. CASE m = i
    BY <1>h, <1>i, <1>t, <1>g, <1>f, <1>d, <2>1
  <2>2. CASE m # i
    <3>1. /\ q[m] = par[m] /\ par[m] \in h.live /\ par[m] \notin h.isReference
          /\ h.child[par[m]] # NULL
          /\ h.prev[m] \in h.live /\ par[h.prev[m]] = par[m]
          /\ h.next[h.prev[m]] = IF h.child[par[m]] = m THEN NULL ELSE m
      BY <1>h, <1>t, <1>g, <2>2 DEF Linked, Listed
    <3>2. h.prev[m] # i
      BY <1>h, <1>i, <2>2, <3>1
    <3>3. CASE f = NULL
      BY <1>h, <1>i, <1>t, <1>g, <1>n, <2>2, <3>1, <3>2, <3>3
    <3>4. CASE f # NULL /\ m = f
      BY <1>h, <1>i, <1>t, <1>g, <1>f, <2>2, <3>1, <3>4
    <3>5. CASE f # NULL /\ m # f
      <4>1. h.prev[m] # t
        <5>1. CASE par[m] # p
          BY <1>f, <3>1, <3>5, <5>1
        <5>2. CASE par[m] = p
          BY <1>h, <1>g, <1>f, <3>1, <3>5, <5>2
        <5> QED BY <5>1, <5>2
      <4> QED BY <1>h, <1>i, <1>t, <1>g, <1>f, <2>2, <3>1, <3>2, <3>5, <4>1
    <3> QED BY <3>3, <3>4, <3>5
  <2> QED BY <2>1, <2>2
<1>3. Forward(g, q)
  <2> SUFFICES ASSUME NEW m \in g.live, g.next[m] # NULL
               PROVE  /\ g.next[m] \in g.live /\ g.prev[g.next[m]] = m
                      /\ q[g.next[m]] = q[m] /\ g.child[q[m]] # g.next[m]
    BY DEF Forward
  <2>1. CASE m = t /\ f # NULL
    <3>1. /\ g.next[m] = i /\ g.prev[i] = m /\ g.child = h.child
          /\ par[m] = p /\ m # i /\ f # i
      BY <1>h, <1>i, <1>g, <1>f, <2>1
    <3>2. q[i] = p /\ q[m] = p
      BY <1>h, <1>i, <1>t, <1>g, <3>1
    <3> QED BY <1>g, <1>i, <3>1, <3>2
  <2>2. CASE ~(m = t /\ f # NULL)
    <3>1. /\ m # i /\ g.next[m] = h.next[m]
          /\ h.next[m] \in h.live /\ h.prev[h.next[m]] = m
          /\ par[h.next[m]] = par[m] /\ h.child[par[m]] # h.next[m]
      BY <1>h, <1>i, <1>t, <1>g, <2>2 DEF Linked, Forward
    <3>2. h.next[m] # i /\ par[m] # NULL
      BY <1>h, <1>i, <1>g, <3>1 DEF Linked, TopItems
    <3>3. f # NULL => h.next[m] # f
      BY <1>f, <3>1
    <3>4. par[m] = p => f # NULL
      BY <1>n, <1>g
    <3> QED BY <1>h, <1>i, <1>t, <1>g, <3>1, <3>2, <3>3, <3>4
  <2> QED BY <2>1, <2>2
<1>4. FirstChild(g, q)
  BY <1>h, <1>i, <1>t, <1>g, <1>f DEF Linked, FirstChild
<1>5. OneTail(g, q)
  BY <1>h, <1>i, <1>t, <1>g, <1>f, <1>n DEF Linked, OneTail
<1>6. Reached(g, q)
  <2> SUFFICES ASSUME NEW C \in SUBSET Node, Tops(g, q) \subseteq C, Closed(g, C)
               PROVE  g.live \subseteq C
    BY <1>h, <1>g DEF Reached, Reach
  <2> DEFINE I == Reach(h, {i})
             X == C \cup I
  <2>1. I \in SUBSET Node /\ i \in I /\ Closed(h, I)
    BY <1>h, <1>i, ReachClosed
  <2>2. Tops(h, par) \subseteq X
    BY <1>h, <1>i, <1>t, <1>g, <2>1 DEF Tops
  <2>3. Closed(h, C)
    <3> SUFFICES ASSUME NEW m \in C, NEW s \in OwnedSucc(h, m) PROVE s \in OwnedSucc(g, m)
      BY DEF Closed
    <3> QED BY <1>h, <1>i, <1>t, <1>g, <1>f DEF OwnedSucc
  <2>4. Closed(h, X)
    BY <2>1, <2>3 DEF Closed
  <2>5. h.live \subseteq X
    BY <2>1, <2>2, <2>4, ReachLeast DEF Linked, Reached
  <2>6. p \in C
    BY <2>5
  <2>7. i \in C
    <3>1. CASE f = NULL
      BY <1>h, <1>i, <1>g, <2>6, <3>1 DEF Closed, OwnedSucc
    <3>2. CASE f # NULL
      <4>1. t \in C
        BY <1>f, <2>3, <2>6, <3>2, MembersOf, ClosedMembers
      <4> QED BY <1>h, <1>i, <1>f, <1>g, <3>2, <4>1 DEF Closed, OwnedSucc
    <3> QED BY <3>1, <3>2
  <2>8. I \subseteq C
    BY <1>h, <1>i, <2>3, <2>7, ReachLeast
  <2> QED BY <1>g, <2>5, <2>8
<1> QED BY <1>h, <1>t, <1>g, <1>1, <1>2, <1>3, <1>4, <1>5, <1>6 DEF Linked

\* The neighbourhood of an element of the list of p.
LEMMA ListFacts ==
    ASSUME NEW h \in Heap, NEW R, NEW par, Linked(h, R, par),
           NEW p \in h.live, p \notin h.isReference,
           NEW i \in Members(h, p)
    PROVE  LET f == h.child[p]
               nxt == h.next[i]
               prv == h.prev[i]
           IN  /\ i \in h.live /\ par[i] = p /\ p # i
               /\ f \in h.live /\ prv \in h.live /\ par[prv] = p /\ par[f] = p
               /\ h.next[prv] = IF f = i THEN NULL ELSE i
               /\ f # NULL /\ prv # NULL
               /\ nxt # NULL => /\ nxt \in h.live /\ h.prev[nxt] = i /\ par[nxt] = p
                                /\ nxt # f /\ prv # i
               /\ nxt # i /\ (f # i => prv # i)
               /\ f = i /\ nxt = NULL => Members(h, p) = {i} /\ prv = i
<1> DEFINE f == h.child[p]
           nxt == h.next[i]
           prv == h.prev[i]
<1> USE AddressAssumption DEF NodePtr
<1>h. /\ h.live \in SUBSET Node /\ h.next \in [Node -> NodePtr]
      /\ h.prev \in [Node -> NodePtr] /\ h.child \in [Node -> NodePtr]
  BY HeapTypes
<1>m. \A m : m \in Members(h, p) <=> m \in h.live /\ par[m] = p
  BY MembersOf
<1>i. i \in h.live /\ par[i] = p /\ i \in Node /\ p \in Node /\ p # NULL /\ i # NULL
  BY <1>h, <1>m
<1>l. /\ f \in h.live /\ prv \in h.live /\ par[prv] = p /\ par[f] = p
      /\ h.next[prv] = IF f = i THEN NULL ELSE i
      /\ f # NULL /\ prv # NULL
  BY <1>h, <1>i DEF Linked, Listed, FirstChild
<1>n. nxt # NULL => nxt \in h.live /\ h.prev[nxt] = i /\ par[nxt] = p /\ nxt # f
  BY <1>i DEF Linked, Forward
<1>s. f # i => prv # i
  <2> SUFFICES ASSUME f # i, prv = i PROVE FALSE
    OBVIOUS
  <2> DEFINE C == Members(h, p) \ {i}
  <2>1. ListClosed(h, C)
    <3> SUFFICES ASSUME NEW m \in C, h.next[m] # NULL PROVE h.next[m] \in C
      BY DEF ListClosed
    <3> QED BY <1>m, <1>i DEF Linked, Forward
  <2>2. C \in SUBSET Node /\ f \in C
    BY <1>h, <1>m, <1>l
  <2> QED BY <2>1, <2>2, <1>l DEF Members, ListFrom
<1>o. f = i /\ nxt = NULL => Members(h, p) = {i}
  <2> SUFFICES ASSUME f = i, nxt = NULL PROVE Members(h, p) \subseteq {i}
    OBVIOUS
  <2>1. ListClosed(h, {i})
    BY DEF ListClosed
  <2> QED BY <1>i, <2>1 DEF Members, ListFrom
<1>x. nxt # i
  BY <1>i, <1>n, <1>s
<1>y. nxt # NULL => prv # i
  BY <1>s, <1>l
<1>z. p # i
  <2> SUFFICES ASSUME p = i PROVE FALSE
    OBVIOUS
  <2> DEFINE X == {n \in h.live : par[n] # i}
  <2>1. Tops(h, par) \subseteq X
    BY <1>i DEF Tops
  <2>2. Closed(h, X)
    BY <1>i DEF Closed, OwnedSucc, Linked, Forward, FirstChild
  <2>3. i \in X
    BY <1>h, <1>i, <2>1, <2>2, ReachLeast DEF Linked, Reached
  <2> QED BY <1>i, <2>3
<1>e. f = i /\ nxt = NULL => prv = i
  BY <1>i, <1>l, <1>m, <1>o
<1> QED BY <1>i, <1>l, <1>n, <1>s, <1>o, <1>x, <1>y, <1>z, <1>e

\* What cJSON_DetachItemViaPointer writes.
Detached(h, p, i) ==
    LET g == DetachItem(h, p, i)
        f == h.child[p]
        nxt == h.next[i]
        prv == h.prev[i]
    IN  /\ g \in Heap
        /\ g.live = h.live /\ g.isReference = h.isReference /\ g.string = h.string
        /\ g.next = [n \in Node |-> IF n = i THEN NULL
                                    ELSE IF f # i /\ n = prv THEN nxt ELSE h.next[n]]
        /\ g.prev = [n \in Node |-> IF n = i THEN NULL
                                    ELSE IF n = nxt \/ (f # i /\ nxt = NULL /\ n = f)
                                    THEN prv ELSE h.prev[n]]
        /\ g.child = [h.child EXCEPT ![p] = IF f = i THEN nxt ELSE f]

LEMMA DetachHeap ==
    ASSUME NEW h \in Heap, NEW p \in Node, NEW i \in Node, h.prev[i] \in Node
    PROVE  Detached(h, p, i)
<1> DEFINE g == DetachItem(h, p, i)
           f == h.child[p]
           nxt == h.next[i]
           prv == h.prev[i]
           nx == [n \in Node |-> IF n = i THEN NULL
                                 ELSE IF f # i /\ n = prv THEN nxt ELSE h.next[n]]
           pv == [n \in Node |-> IF n = i THEN NULL
                                 ELSE IF n = nxt \/ (f # i /\ nxt = NULL /\ n = f)
                                 THEN prv ELSE h.prev[n]]
           ch == [h.child EXCEPT ![p] = IF f = i THEN nxt ELSE f]
<1> USE AddressAssumption DEF NodePtr
<1>h. /\ h.next \in [Node -> NodePtr] /\ h.prev \in [Node -> NodePtr]
      /\ h.child \in [Node -> NodePtr] /\ prv # NULL
  BY HeapTypes
<1>1. nx \in [Node -> NodePtr] /\ pv \in [Node -> NodePtr] /\ ch \in [Node -> NodePtr]
  BY <1>h
<1>2. g = [h EXCEPT !.next = nx, !.prev = pv, !.child = ch]
  BY <1>h DEF DetachItem, Heap
<1> HIDE DEF nx, pv, ch, g
<1>3. /\ g \in Heap
      /\ g.live = h.live /\ g.isReference = h.isReference /\ g.string = h.string
      /\ g.next = nx /\ g.prev = pv /\ g.child = ch
  BY <1>1, <1>2 DEF Heap
<1> QED BY <1>3 DEF Detached, nx, pv, ch, g

\* Detaching an element of the list of p.
LEMMA DetachLinked ==
    ASSUME NEW h \in Heap, NEW R, NEW par, Linked(h, R, par),
           NEW p \in h.live, p \notin h.isReference,
           NEW i \in Members(h, p)
    PROVE  /\ DetachItem(h, p, i) \in Heap
           /\ Linked(DetachItem(h, p, i), R \cup {i}, [par EXCEPT ![i] = NULL])
<1> DEFINE g == DetachItem(h, p, i)
           q == [par EXCEPT ![i] = NULL]
           f == h.child[p]
           nxt == h.next[i]
           prv == h.prev[i]
<1> USE AddressAssumption DEF NodePtr
<1>h. /\ h.live \in SUBSET Node /\ h.next \in [Node -> NodePtr]
      /\ h.prev \in [Node -> NodePtr] /\ h.child \in [Node -> NodePtr]
  BY HeapTypes
<1>m. \A m : m \in Members(h, p) <=> m \in h.live /\ par[m] = p
  BY MembersOf
<1>i. i \in h.live /\ par[i] = p /\ i \in Node /\ p \in Node /\ p # NULL /\ i # NULL
  BY <1>h, <1>m
<1>t. q \in [Node -> NodePtr] /\ par \in [Node -> NodePtr]
  BY <1>i DEF Linked
<1>l. /\ f \in h.live /\ prv \in h.live /\ par[prv] = p /\ par[f] = p
      /\ h.next[prv] = IF f = i THEN NULL ELSE i
      /\ f # NULL /\ prv # NULL
  BY ListFacts
<1>n. nxt # NULL => nxt \in h.live /\ h.prev[nxt] = i /\ par[nxt] = p /\ nxt # f /\ prv # i
  BY ListFacts
<1>s. p # i /\ nxt # i /\ (f # i => prv # i)
  BY ListFacts
<1>o. f = i /\ nxt = NULL => Members(h, p) = {i}
  BY ListFacts
<1> DEFINE nx == [n \in Node |-> IF n = i THEN NULL
                                 ELSE IF f # i /\ n = prv THEN nxt ELSE h.next[n]]
           pv == [n \in Node |-> IF n = i THEN NULL
                                 ELSE IF n = nxt \/ (f # i /\ nxt = NULL /\ n = f)
                                 THEN prv ELSE h.prev[n]]
           ch == [h.child EXCEPT ![p] = IF f = i THEN nxt ELSE f]
<1>g. /\ g \in Heap
      /\ g.live = h.live /\ g.isReference = h.isReference /\ g.string = h.string
      /\ g.next = nx /\ g.prev = pv /\ g.child = ch
  <2>1. h.prev[i] \in Node
    BY <1>h, <1>l
  <2>2. h \in Heap
    OBVIOUS
  <2>3. Detached(h, p, i)
    BY <1>i, <2>1, <2>2, DetachHeap
  <2> QED BY <2>3 DEF Detached
<1>1. TopItems(g, R \cup {i}, q)
  BY <1>h, <1>i, <1>t, <1>g, <1>l, <1>n DEF Linked, TopItems
<1>2. Listed(g, q)
  <2> HIDE DEF nx, pv, ch
  <2> SUFFICES ASSUME NEW m \in h.live, m # i, par[m] # NULL
               PROVE  /\ par[m] \in h.live /\ par[m] \notin h.isReference
                      /\ ch[par[m]] # NULL
                      /\ pv[m] \in h.live /\ q[pv[m]] = par[m]
                      /\ nx[pv[m]] = IF ch[par[m]] = m THEN NULL ELSE m
    BY <1>h, <1>i, <1>t, <1>g DEF Listed
  <2> USE DEF nx, pv, ch
  <2>1. /\ par[m] \in h.live /\ par[m] \notin h.isReference /\ h.child[par[m]] # NULL
        /\ h.prev[m] \in h.live /\ par[h.prev[m]] = par[m]
        /\ h.next[h.prev[m]] = IF h.child[par[m]] = m THEN NULL ELSE m
    BY DEF Linked, Listed
  <2>2. m \in Node /\ par[m] \in Node /\ h.prev[m] \in Node
    BY <1>h, <2>1
  <2>3. CASE par[m] # p
    <3>1. pv[m] = h.prev[m] /\ ch[par[m]] = h.child[par[m]]
      BY <1>h, <1>i, <1>l, <1>n, <2>2, <2>3
    <3>2. h.prev[m] # i /\ h.prev[m] # prv
      BY <1>i, <1>l, <2>1, <2>3
    <3> QED BY <1>h, <1>t, <1>i, <2>1, <2>2, <3>1, <3>2
  <2>4. CASE par[m] = p /\ m = nxt
    <3>1. pv[m] = prv /\ prv # i /\ ch[p] = IF f = i THEN nxt ELSE f
      BY <1>h, <1>i, <1>n, <2>2, <2>4
    <3>2. nx[prv] = IF f = i THEN NULL ELSE nxt
      BY <1>h, <1>l, <3>1
    <3> QED BY <1>h, <1>t, <1>i, <1>l, <1>n, <2>1, <2>2, <2>4, <3>1, <3>2
  <2>5. CASE par[m] = p /\ m # nxt /\ f # i /\ m = f
    <3>1. ch[p] = f
      BY <1>h, <1>i, <2>5
    <3>2. CASE nxt = NULL
      <4>1. pv[m] = prv /\ nx[prv] = NULL
        BY <1>h, <1>l, <1>s, <2>2, <2>5, <3>2
      <4> QED BY <1>h, <1>t, <1>i, <1>l, <1>s, <2>1, <2>5, <3>1, <4>1
    <3>3. CASE nxt # NULL
      <4>1. pv[m] = h.prev[m] /\ h.next[h.prev[m]] = NULL
        BY <1>h, <2>1, <2>2, <2>5, <3>3
      <4>2. h.prev[m] # i /\ h.prev[m] # prv
        BY <1>l, <1>i, <2>5, <3>3, <4>1
      <4> QED BY <1>h, <1>t, <1>i, <1>l, <2>1, <2>2, <2>5, <3>1, <4>1, <4>2
    <3> QED BY <3>2, <3>3
  <2>6. CASE par[m] = p /\ m # nxt /\ m # f
    <3>1. pv[m] = h.prev[m] /\ h.next[h.prev[m]] = m
      BY <1>h, <2>1, <2>2, <2>6
    <3>2. h.prev[m] # i /\ (f # i => h.prev[m] # prv)
      BY <1>l, <2>6, <3>1
    <3>3. nx[h.prev[m]] = m
      BY <2>2, <3>1, <3>2
    <3>4. ch[p] # m /\ ch[p] # NULL
      BY <1>h, <1>i, <1>l, <1>o, <1>m, <2>6
    <3> QED BY <1>h, <1>t, <1>i, <2>1, <2>2, <2>6, <3>1, <3>2, <3>3, <3>4
  <2> QED BY <2>3, <2>4, <2>5, <2>6
<1>3. Forward(g, q)
  <2> HIDE DEF nx, pv, ch
  <2> SUFFICES ASSUME NEW m \in h.live, nx[m] # NULL
               PROVE  /\ nx[m] \in h.live /\ pv[nx[m]] = m
                      /\ q[nx[m]] = q[m] /\ ch[q[m]] # nx[m]
    BY <1>g DEF Forward
  <2> USE DEF nx, pv, ch
  <2>1. m \in Node /\ m # i
    BY <1>h
  <2>2. CASE f # i /\ m = prv
    <3>1. nx[m] = nxt /\ nxt # NULL /\ nxt \in Node
      BY <1>h, <2>1, <2>2, <1>n
    <3>2. pv[nxt] = m /\ q[nxt] = p /\ q[m] = p /\ ch[p] = f
      BY <1>h, <1>i, <1>t, <1>l, <1>n, <1>s, <2>1, <2>2, <3>1
    <3> QED BY <1>n, <3>1, <3>2
  <2>3. CASE ~(f # i /\ m = prv)
    <3> DEFINE s == h.next[m]
    <3>1. /\ nx[m] = s /\ s \in h.live /\ h.prev[s] = m /\ par[s] = par[m]
          /\ h.child[par[m]] # s /\ par[m] # NULL
      BY <1>h, <2>1, <2>3 DEF Linked, Forward, TopItems
    <3>2. s # i
      BY <1>i, <1>l, <2>3, <3>1
    <3>3. s # nxt
      BY <1>n, <1>h, <2>1, <3>1
    <3>4. s # f
      BY <1>l, <3>1
    <3>5. pv[s] = m /\ q[s] = par[m] /\ q[m] = par[m]
      BY <1>h, <1>i, <1>t, <2>1, <3>1, <3>2, <3>3, <3>4
    <3>6. par[m] \in Node /\ ch[par[m]] # s
      BY <1>h, <1>t, <1>i, <2>1, <3>1, <3>3, <3>4
    <3> QED BY <3>1, <3>5, <3>6
  <2> QED BY <2>2, <2>3
<1>4. FirstChild(g, q)
  <2> SUFFICES ASSUME NEW k \in h.live, k \notin h.isReference, ch[k] # NULL
               PROVE  ch[k] \in h.live /\ q[ch[k]] = k
    BY <1>g DEF FirstChild
  <2>1. CASE k = p
    BY <1>h, <1>i, <1>t, <1>l, <1>n, <1>s, <2>1
  <2>2. CASE k # p
    <3>1. ch[k] = h.child[k] /\ h.child[k] \in h.live /\ par[h.child[k]] = k
      BY <1>h, <2>2 DEF Linked, FirstChild
    <3> QED BY <1>h, <1>t, <1>i, <2>2, <3>1
  <2> QED BY <2>1, <2>2
<1>5. OneTail(g, q)
  <2> SUFFICES ASSUME NEW m \in h.live, NEW n \in h.live, q[m] = q[n], q[m] # NULL,
                      nx[m] = NULL, nx[n] = NULL
               PROVE  m = n
    BY <1>g DEF OneTail
  <2>1. m # i /\ n # i /\ par[m] = q[m] /\ par[n] = q[n] /\ m \in Node /\ n \in Node
    BY <1>h, <1>t, <1>i
  <2>2. CASE h.next[m] = NULL /\ h.next[n] = NULL
    BY <2>1, <2>2 DEF Linked, OneTail
  <2>3. CASE f # i /\ nxt = NULL /\ par[m] = p
    <3>1. h.next[m] # NULL /\ h.next[n] # NULL
      BY <1>i, <2>1, <2>3 DEF Linked, OneTail
    <3> QED BY <2>1, <3>1
  <2> QED BY <1>i, <1>l, <2>1, <2>2, <2>3
<1>6. Reached(g, q)
  <2> SUFFICES ASSUME NEW C \in SUBSET Node, Tops(g, q) \subseteq C, Closed(g, C)
               PROVE  h.live \subseteq C
    BY <1>h, <1>g DEF Reached, Reach
  <2>1. i \in C /\ Tops(h, par) \subseteq C \ {i}
    BY <1>h, <1>i, <1>t, <1>g DEF Tops
  <2>2. \A m \in (C \cap h.live) \ {i} : \A s \in OwnedSucc(h, m) :
            IF s = i THEN nxt # NULL => nxt \in C ELSE s \in C
    <3> SUFFICES ASSUME NEW m \in (C \cap h.live) \ {i}, NEW s \in OwnedSucc(h, m)
                 PROVE  IF s = i THEN nxt # NULL => nxt \in C ELSE s \in C
      OBVIOUS
    <3>1. CASE m \in h.live /\ s = h.next[m]
      <4>1. m \in Node /\ s # NULL /\ h.prev[s] = m
        BY <1>h, <3>1 DEF OwnedSucc, Linked, Forward
      <4>2. CASE s = i
        <5>1. m = prv /\ f # i
          <6>1. h.next[m] = i /\ i # NULL
            BY <1>h, <1>i, <3>1, <4>2
          <6>2. h.prev[i] = m /\ par[i] = par[m] /\ h.child[par[m]] # i
            BY <3>1, <6>1 DEF Linked, Forward
          <6> QED BY <1>i, <6>2
        <5>2. nx[m] = nxt
          BY <4>1, <5>1
        <5>3. nxt # NULL => nxt \in OwnedSucc(g, m)
          BY <1>g, <5>2 DEF OwnedSucc
        <5> QED BY <4>2, <5>3 DEF Closed
      <4>3. CASE s # i
        <5>1. nx[m] = s
          BY <1>l, <3>1, <4>1, <4>3
        <5>2. s \in OwnedSucc(g, m)
          BY <1>g, <4>1, <5>1 DEF OwnedSucc
        <5> QED BY <4>3, <5>2 DEF Closed
      <4> QED BY <4>2, <4>3
    <3>2. CASE m \in h.live /\ m \notin h.isReference /\ s = h.child[m]
      <4>1. m \in Node /\ s # NULL /\ par[s] = m
        BY <1>h, <3>2 DEF OwnedSucc, Linked, FirstChild
      <4>2. CASE s = i
        <5>1. m = p /\ f = i
          BY <1>i, <3>2, <4>1, <4>2
        <5>2. ch[m] = nxt
          BY <1>h, <4>1, <5>1
        <5>3. nxt # NULL => nxt \in OwnedSucc(g, m)
          BY <1>g, <3>2, <5>2 DEF OwnedSucc
        <5> QED BY <4>2, <5>3 DEF Closed
      <4>3. CASE s # i
        <5>1. ch[m] = s
          BY <1>h, <3>2, <4>1, <4>3
        <5>2. s \in OwnedSucc(g, m)
          BY <1>g, <3>2, <4>1, <5>1 DEF OwnedSucc
        <5> QED BY <4>3, <5>2 DEF Closed
      <4> QED BY <4>2, <4>3
    <3> QED BY <3>1, <3>2 DEF OwnedSucc
  <2>3. OwnedSucc(h, i) \ {nxt} \subseteq C
    <3>1. OwnedSucc(h, i) \ {nxt} \subseteq OwnedSucc(g, i)
      BY <1>h, <1>i, <1>g, <1>s DEF OwnedSucc
    <3> QED BY <2>1, <3>1 DEF Closed
  <2>4. \A m \in h.live : OwnedSucc(h, m) \subseteq h.live
    BY DEF OwnedSucc, Linked, Forward, FirstChild
  <2>5. CASE nxt = NULL \/ nxt \in C
    <3> DEFINE X == C \cap h.live
    <3>1. Closed(h, X)
      BY <2>1, <2>2, <2>3, <2>4, <2>5 DEF Closed, OwnedSucc
    <3>2. Tops(h, par) \subseteq X
      BY <2>1 DEF Tops
    <3> QED BY <1>h, <3>1, <3>2, ReachLeast DEF Linked, Reached
  <2>6. CASE nxt # NULL /\ nxt \notin C
    <3> DEFINE X == (C \cap h.live) \ {i}
    <3>1. Closed(h, X)
      BY <2>2, <2>4, <2>6 DEF Closed
    <3>2. Tops(h, par) \subseteq X
      BY <2>1 DEF Tops
    <3>3. h.live \subseteq X
      BY <1>h, <3>1, <3>2, ReachLeast DEF Linked, Reached
    <3> QED BY <1>i, <3>3
  <2> QED BY <2>5, <2>6
<1> QED BY <1>t, <1>g, <1>1, <1>2, <1>3, <1>4, <1>5, <1>6 DEF Linked

\* What cJSON_InsertItemInArray writes when the index is in range.
InsertNext(h, p, a, i) ==
    [n \in Node |-> IF n = i THEN a
                    ELSE IF a # h.child[p] /\ n = h.prev[a] THEN i ELSE h.next[n]]
InsertPrev(h, p, a, i) ==
    [n \in Node |-> IF n = a THEN i ELSE IF n = i THEN h.prev[a] ELSE h.prev[n]]
InsertChild(h, p, a, i) ==
    [h.child EXCEPT ![p] = IF a = h.child[p] THEN i ELSE h.child[p]]

\* cJSON_InsertItemInArray writes these links and nothing else.
LEMMA InsertHeap ==
    ASSUME NEW h \in Heap, NEW p \in Node, NEW a \in Node, NEW i \in Node, i # a,
           h.prev[a] \in Node
    PROVE  LET g == InsertItemInArray(h, p, a, i)
           IN  /\ g \in Heap
               /\ g.live = h.live /\ g.isReference = h.isReference /\ g.string = h.string
               /\ g.next = InsertNext(h, p, a, i) /\ g.prev = InsertPrev(h, p, a, i)
               /\ g.child = InsertChild(h, p, a, i)
<1> DEFINE g == InsertItemInArray(h, p, a, i)
           f == h.child[p]
           prv == h.prev[a]
           nx == [n \in Node |-> IF n = i THEN a
                                 ELSE IF a # f /\ n = prv THEN i ELSE h.next[n]]
           pv == [n \in Node |-> IF n = a THEN i ELSE IF n = i THEN prv ELSE h.prev[n]]
           ch == [h.child EXCEPT ![p] = IF a = f THEN i ELSE f]
<1> USE AddressAssumption DEF NodePtr
<1>h. /\ h.next \in [Node -> NodePtr] /\ h.prev \in [Node -> NodePtr]
      /\ h.child \in [Node -> NodePtr] /\ prv # NULL /\ a # NULL /\ i # a
  BY HeapTypes
<1>g. /\ g \in Heap
      /\ g.live = h.live /\ g.isReference = h.isReference /\ g.string = h.string
      /\ g.next = nx /\ g.prev = pv /\ g.child = ch
  <2>1. nx \in [Node -> NodePtr] /\ pv \in [Node -> NodePtr] /\ ch \in [Node -> NodePtr]
    BY <1>h
  <2>2. g = [h EXCEPT !.next = nx, !.prev = pv, !.child = ch]
    <3>1. ~(a # f /\ prv = NULL)
      BY <1>h
    <3>2. pv = [h.prev EXCEPT ![i] = prv, ![a] = i]
      BY <1>h
    <3>3. CASE a = f
      <4>1. nx = [h.next EXCEPT ![i] = a] /\ ch = [h.child EXCEPT ![p] = i]
        BY <1>h, <3>3
      <4>2. g = [h EXCEPT !.next = [h.next EXCEPT ![i] = a],
                          !.prev = [h.prev EXCEPT ![i] = prv, ![a] = i],
                          !.child = [h.child EXCEPT ![p] = i]]
        BY <1>h, <3>3 DEF InsertItemInArray, Heap
      <4> HIDE DEF nx, pv, ch, g
      <4> QED BY <3>2, <4>1, <4>2
    <3>4. CASE a # f
      <4>1. nx = [[h.next EXCEPT ![i] = a] EXCEPT ![prv] = i] /\ ch = h.child
        BY <1>h, <3>4
      <4>2. g = [h EXCEPT !.next = [[h.next EXCEPT ![i] = a] EXCEPT ![prv] = i],
                          !.prev = [h.prev EXCEPT ![i] = prv, ![a] = i],
                          !.child = h.child]
        BY <1>h, <3>4 DEF InsertItemInArray, Heap
      <4> HIDE DEF nx, pv, ch, g
      <4> QED BY <3>2, <4>1, <4>2
    <3> QED BY <3>3, <3>4
  <2> HIDE DEF nx, pv, ch, g
  <2> QED BY <2>1, <2>2 DEF Heap
<1> HIDE DEF nx, pv, ch, g
<1> QED BY <1>g DEF nx, pv, ch, g, InsertNext, InsertPrev, InsertChild

\* Inserting an item of the client before element a of the list of p.
LEMMA InsertLinked ==
    ASSUME NEW h \in Heap, NEW R, NEW par, Linked(h, R, par),
           NEW p \in h.live, p \notin h.isReference,
           NEW a \in Members(h, p),
           NEW i \in R, p \notin Reach(h, {i})
    PROVE  /\ InsertItemInArray(h, p, a, i) \in Heap
           /\ Linked(InsertItemInArray(h, p, a, i), R \ {i}, [par EXCEPT ![i] = p])
<1> DEFINE g == InsertItemInArray(h, p, a, i)
           q == [par EXCEPT ![i] = p]
           f == h.child[p]
           prv == h.prev[a]
           nx == [n \in Node |-> IF n = i THEN a
                                 ELSE IF a # f /\ n = prv THEN i ELSE h.next[n]]
           pv == [n \in Node |-> IF n = a THEN i ELSE IF n = i THEN prv ELSE h.prev[n]]
           ch == [h.child EXCEPT ![p] = IF a = f THEN i ELSE f]
<1> USE AddressAssumption DEF NodePtr
<1>h. /\ h.live \in SUBSET Node /\ h.next \in [Node -> NodePtr]
      /\ h.prev \in [Node -> NodePtr] /\ h.child \in [Node -> NodePtr]
  BY HeapTypes
<1>m. \A m : m \in Members(h, p) <=> m \in h.live /\ par[m] = p
  BY MembersOf
<1>i. /\ i \in h.live /\ par[i] = NULL /\ h.next[i] = NULL /\ h.prev[i] = NULL
      /\ i \in Node /\ p \in Node /\ i # NULL /\ p # NULL
  BY <1>h DEF Linked, TopItems
<1>a. a \in h.live /\ par[a] = p /\ a \in Node /\ a # NULL /\ a # i
  BY <1>h, <1>m, <1>i
<1>d. p # i
  BY <1>i, ReachClosed
<1>t. q \in [Node -> NodePtr] /\ par \in [Node -> NodePtr]
  BY <1>i DEF Linked
<1>l. /\ f \in h.live /\ prv \in h.live /\ par[prv] = p /\ par[f] = p
      /\ h.next[prv] = IF f = a THEN NULL ELSE a
      /\ f # NULL /\ prv # NULL /\ f # i /\ prv # i
  BY <1>h, <1>i, <1>a DEF Linked, Listed, FirstChild
<1>g. /\ g \in Heap
      /\ g.live = h.live /\ g.isReference = h.isReference /\ g.string = h.string
      /\ g.next = nx /\ g.prev = pv /\ g.child = ch
  <2>1. p \in Node /\ a \in Node /\ i \in Node /\ i # a /\ h.prev[a] \in Node
    BY <1>h, <1>i, <1>a, <1>l
  <2>2. /\ g \in Heap
        /\ g.live = h.live /\ g.isReference = h.isReference /\ g.string = h.string
        /\ g.next = InsertNext(h, p, a, i) /\ g.prev = InsertPrev(h, p, a, i)
        /\ g.child = InsertChild(h, p, a, i)
    BY <2>1, InsertHeap
  <2> QED BY <2>2 DEF InsertNext, InsertPrev, InsertChild
<1>1. TopItems(g, R \ {i}, q)
  BY <1>h, <1>i, <1>a, <1>t, <1>g, <1>l DEF Linked, TopItems
<1>2. Listed(g, q)
  <2> HIDE DEF nx, pv, ch
  <2> SUFFICES ASSUME NEW m \in h.live, q[m] # NULL
               PROVE  /\ q[m] \in h.live /\ q[m] \notin h.isReference
                      /\ ch[q[m]] # NULL
                      /\ pv[m] \in h.live /\ q[pv[m]] = q[m]
                      /\ nx[pv[m]] = IF ch[q[m]] = m THEN NULL ELSE m
    BY <1>g DEF Listed
  <2> USE DEF nx, pv, ch
  <2>1. CASE m = i
    <3>1. pv[m] = prv /\ q[m] = p /\ ch[p] = (IF a = f THEN i ELSE f)
      BY <1>h, <1>i, <1>a, <1>t, <2>1
    <3>2. nx[prv] = (IF a = f THEN NULL ELSE i) /\ q[prv] = p
      BY <1>h, <1>i, <1>t, <1>l
    <3> QED BY <1>i, <1>l, <2>1, <3>1, <3>2
  <2>2. CASE m = a
    BY <1>h, <1>i, <1>a, <1>t, <1>l, <2>2
  <2>3. CASE m # i /\ m # a
    <3>1. /\ q[m] = par[m] /\ par[m] \in h.live /\ par[m] \notin h.isReference
          /\ h.child[par[m]] # NULL
          /\ h.prev[m] \in h.live /\ par[h.prev[m]] = par[m]
          /\ h.next[h.prev[m]] = IF h.child[par[m]] = m THEN NULL ELSE m
      BY <1>t, <1>h, <2>3 DEF Linked, Listed
    <3>2. /\ m \in Node /\ par[m] \in Node /\ h.prev[m] \in Node /\ h.prev[m] # i
          /\ pv[m] = h.prev[m] /\ q[h.prev[m]] = par[m]
      BY <1>h, <1>i, <1>t, <2>3, <3>1
    <3>3. ch[par[m]] # NULL /\ (ch[par[m]] = m <=> h.child[par[m]] = m)
      BY <1>h, <1>i, <1>l, <2>3, <3>1, <3>2
    <3>4. a # f => h.prev[m] # prv
      BY <1>l, <1>a, <2>3, <3>1
    <3> QED BY <3>1, <3>2, <3>3, <3>4
  <2> QED BY <2>1, <2>2, <2>3
<1>3. Forward(g, q)
  <2> HIDE DEF nx, pv, ch
  <2> SUFFICES ASSUME NEW m \in h.live, nx[m] # NULL
               PROVE  /\ nx[m] \in h.live /\ pv[nx[m]] = m
                      /\ q[nx[m]] = q[m] /\ ch[q[m]] # nx[m]
    BY <1>g DEF Forward
  <2> USE DEF nx, pv, ch
  <2>1. CASE m = i
    BY <1>h, <1>i, <1>a, <1>t, <1>l, <2>1
  <2>2. CASE a # f /\ m = prv
    BY <1>h, <1>i, <1>a, <1>t, <1>l, <2>2
  <2>3. CASE m # i /\ ~(a # f /\ m = prv)
    <3> DEFINE s == h.next[m]
    <3>1. /\ nx[m] = s /\ s \in h.live /\ h.prev[s] = m /\ par[s] = par[m]
          /\ h.child[par[m]] # s /\ par[m] # NULL /\ m \in Node /\ s \in Node
      BY <1>h, <2>3 DEF Linked, Forward, TopItems
    <3>2. s # i /\ s # a
      BY <1>i, <1>a, <1>l, <2>3, <3>1
    <3>3. pv[s] = m /\ q[s] = par[m] /\ q[m] = par[m]
      BY <1>h, <1>i, <1>t, <2>3, <3>1, <3>2
    <3>4. ch[par[m]] # s
      BY <1>h, <1>t, <3>1, <3>2
    <3> QED BY <3>1, <3>3, <3>4
  <2> QED BY <2>1, <2>2, <2>3
<1>4. FirstChild(g, q)
  <2> SUFFICES ASSUME NEW k \in h.live, k \notin h.isReference, ch[k] # NULL
               PROVE  ch[k] \in h.live /\ q[ch[k]] = k
    BY <1>g DEF FirstChild
  <2>1. CASE k = p
    BY <1>h, <1>i, <1>t, <1>l, <2>1
  <2>2. CASE k # p
    <3>1. ch[k] = h.child[k] /\ h.child[k] \in h.live /\ par[h.child[k]] = k
      BY <1>h, <2>2 DEF Linked, FirstChild
    <3> QED BY <1>h, <1>t, <1>i, <2>2, <3>1
  <2> QED BY <2>1, <2>2
<1>5. OneTail(g, q)
  <2> SUFFICES ASSUME NEW m \in h.live, NEW n \in h.live, q[m] = q[n], q[m] # NULL,
                      nx[m] = NULL, nx[n] = NULL
               PROVE  m = n
    BY <1>g DEF OneTail
  <2>1. m # i /\ n # i /\ h.next[m] = NULL /\ h.next[n] = NULL
    BY <1>h, <1>i, <1>a
  <2>2. par[m] = q[m] /\ par[n] = q[n]
    BY <1>h, <1>t, <2>1
  <2> QED BY <2>1, <2>2 DEF Linked, OneTail
<1>6. Reached(g, q)
  <2> SUFFICES ASSUME NEW C \in SUBSET Node, Tops(g, q) \subseteq C, Closed(g, C)
               PROVE  h.live \subseteq C
    BY <1>h, <1>g DEF Reached, Reach
  <2> DEFINE I == Reach(h, {i})
             X == (C \cap h.live) \cup I
  <2>1. I \in SUBSET Node /\ i \in I /\ Closed(h, I)
    BY <1>i, ReachClosed
  <2>2. Tops(h, par) \subseteq X
    BY <1>h, <1>i, <1>t, <1>g, <2>1 DEF Tops
  <2>3. \A m \in C \cap h.live : OwnedSucc(h, m) \subseteq C \cap h.live
    <3> SUFFICES ASSUME NEW m \in C \cap h.live, NEW s \in OwnedSucc(h, m)
                 PROVE  s \in C \cap h.live
      OBVIOUS
    <3>0. s \in h.live
      BY DEF OwnedSucc, Linked, Forward, FirstChild
    <3>1. CASE s \in OwnedSucc(g, m)
      BY <3>0, <3>1 DEF Closed
    <3>2. CASE s \notin OwnedSucc(g, m)
      <4>1. s = a /\ i \in OwnedSucc(g, m)
        <5>1. m # i
          BY <1>h, <1>i, <1>g, <1>d, <3>2 DEF OwnedSucc
        <5>2. CASE s = h.next[m]
          BY <1>h, <1>i, <1>a, <1>l, <1>g, <3>2, <5>1, <5>2 DEF OwnedSucc
        <5>3. CASE s = h.child[m] /\ m \notin h.isReference
          BY <1>h, <1>i, <1>a, <1>l, <1>g, <3>2, <5>1, <5>3 DEF OwnedSucc
        <5> QED BY <5>2, <5>3 DEF OwnedSucc
      <4>2. i \in C
        BY <4>1 DEF Closed
      <4>3. a \in OwnedSucc(g, i)
        BY <1>i, <1>a, <1>g DEF OwnedSucc
      <4> QED BY <3>0, <4>1, <4>2, <4>3 DEF Closed
    <3> QED BY <3>1, <3>2
  <2>4. Closed(h, X) /\ Closed(h, C \cap h.live) /\ X \in SUBSET Node
    BY <1>h, <2>1, <2>3 DEF Closed
  <2>5. h.live \subseteq X
    <3> HIDE DEF X, I
    <3> QED BY <2>2, <2>4, ReachLeast DEF Linked, Reached
  <2>6. p \in C
    BY <2>5
  <2>7. i \in C
    <3>1. CASE a = f
      <4>1. i \in OwnedSucc(g, p)
        BY <1>h, <1>i, <1>g, <3>1 DEF OwnedSucc
      <4> QED BY <2>6, <4>1 DEF Closed
    <3>2. CASE a # f
      <4>1. prv \in C
        BY <1>h, <1>l, <1>m, <2>4, <2>6, ClosedMembers
      <4>2. i \in OwnedSucc(g, prv)
        BY <1>h, <1>i, <1>l, <1>g, <3>2 DEF OwnedSucc
      <4> QED BY <4>1, <4>2 DEF Closed
    <3> QED BY <3>1, <3>2
  <2>8. I \subseteq C \cap h.live
    BY <1>i, <2>4, <2>7, ReachLeast
  <2> QED BY <2>5, <2>8
<1> QED BY <1>t, <1>g, <1>1, <1>2, <1>3, <1>4, <1>5, <1>6 DEF Linked

\* A replacement takes the place of i: it has the effect of inserting the
\* replacement before i and then detaching i.
LEMMA SubstituteIsInsertDetach ==
    ASSUME NEW h \in Heap, NEW R, NEW par, Linked(h, R, par),
           NEW p \in h.live, p \notin h.isReference,
           NEW i \in Members(h, p),
           NEW r \in R
    PROVE  Substitute(h, p, i, r) = DetachItem(InsertItemInArray(h, p, i, r), p, i)
<1> DEFINE g == InsertItemInArray(h, p, i, r)
           f == h.child[p]
           nxt == h.next[i]
           prv == h.prev[i]
           sx == [n \in Node |-> IF n = i THEN NULL
                                 ELSE IF n = r THEN nxt
                                 ELSE IF f # i /\ n = prv THEN r ELSE h.next[n]]
           sv == [n \in Node |-> IF n = i THEN NULL
                                 ELSE IF n = r
                                 THEN (IF f = i /\ prv = i THEN r ELSE prv)
                                 ELSE IF n = nxt \/ (f # i /\ nxt = NULL /\ n = f)
                                 THEN r ELSE h.prev[n]]
           sc == [h.child EXCEPT ![p] = IF f = i THEN r ELSE f]
<1> USE AddressAssumption DEF NodePtr
<1>h. /\ h.live \in SUBSET Node /\ h.next \in [Node -> NodePtr]
      /\ h.prev \in [Node -> NodePtr] /\ h.child \in [Node -> NodePtr]
  BY HeapTypes
<1>l. /\ i \in h.live /\ par[i] = p
      /\ prv \in h.live /\ f # NULL
      /\ h.next[prv] = IF f = i THEN NULL ELSE i
      /\ nxt # i /\ (f # i => prv # i)
      /\ f = i /\ nxt = NULL => prv = i
  BY ListFacts
<1>r. r \in h.live /\ par[r] = NULL /\ r # i /\ r # f /\ r # nxt /\ i # NULL /\ p # NULL
  <2>1. r \in h.live /\ par[r] = NULL /\ i # NULL /\ p # NULL
    BY <1>h, <1>l DEF Linked, TopItems
  <2>2. par[f] = p /\ (nxt # NULL => par[nxt] = p) /\ r # NULL
    BY <1>h, <2>1, ListFacts
  <2> QED BY <1>l, <2>1, <2>2
<1>n. p \in Node /\ i \in Node /\ r \in Node /\ r # i /\ prv \in Node
  BY <1>h, <1>l, <1>r
<1>g. /\ g \in Heap
      /\ g.next = [n \in Node |-> IF n = r THEN i
                                  ELSE IF i # f /\ n = prv THEN r ELSE h.next[n]]
      /\ g.prev = [n \in Node |-> IF n = i THEN r ELSE IF n = r THEN prv ELSE h.prev[n]]
      /\ g.child = [h.child EXCEPT ![p] = IF i = f THEN r ELSE f]
  <2>1. /\ g \in Heap
        /\ g.next = InsertNext(h, p, i, r) /\ g.prev = InsertPrev(h, p, i, r)
        /\ g.child = InsertChild(h, p, i, r)
    BY <1>n, InsertHeap
  <2> QED BY <2>1 DEF InsertNext, InsertPrev, InsertChild
<1>s. Substitute(h, p, i, r) = [h EXCEPT !.next = sx, !.prev = sv, !.child = sc]
  BY DEF Substitute, Heap
<1>e. g = [h EXCEPT !.next = g.next, !.prev = g.prev, !.child = g.child]
  BY <1>n, <1>r DEF InsertItemInArray, Heap
<1> HIDE DEF g
<1>1. /\ g.child[p] # i /\ g.prev[i] = r /\ g.next[i] = nxt
      /\ g.child[p] = (IF i = f THEN r ELSE f)
  BY <1>h, <1>n, <1>g, <1>l, <1>r
<1>2. DetachItem(g, p, i) =
        [g EXCEPT !.next = [n \in Node |-> IF n = i THEN NULL
                                           ELSE IF n = r THEN nxt ELSE g.next[n]],
                  !.prev = [n \in Node |-> IF n = i THEN NULL
                                           ELSE IF n = nxt \/ (nxt = NULL /\ n = g.child[p])
                                           THEN r ELSE g.prev[n]],
                  !.child = g.child]
  <2>1. g.child = [g.child EXCEPT ![p] = g.child[p]]
    BY <1>h, <1>n, <1>g
  <2>2. ~(g.child[p] # i /\ g.prev[i] = NULL) /\ g.child[p] # i
    BY <1>n, <1>1
  <2> DEFINE gc == g.child[p]
  <2>3. DetachItem(g, p, i) =
        [g EXCEPT !.next = [n \in Node |-> IF n = i THEN NULL
                                           ELSE IF n = r THEN nxt ELSE g.next[n]],
                  !.prev = [n \in Node |-> IF n = i THEN NULL
                                           ELSE IF n = nxt \/ (nxt = NULL /\ n = gc)
                                           THEN r ELSE g.prev[n]],
                  !.child = [g.child EXCEPT ![p] = gc]]
    BY <1>1, <2>2 DEF DetachItem
  <2> QED BY <2>1, <2>3
<1>3. sx = [n \in Node |-> IF n = i THEN NULL ELSE IF n = r THEN nxt ELSE g.next[n]]
  BY <1>n, <1>g
<1>4. sv = [n \in Node |-> IF n = i THEN NULL
                           ELSE IF n = nxt \/ (nxt = NULL /\ n = g.child[p])
                           THEN r ELSE g.prev[n]]
  <2> SUFFICES ASSUME NEW n \in Node
               PROVE  sv[n] = IF n = i THEN NULL
                              ELSE IF n = nxt \/ (nxt = NULL /\ n = g.child[p])
                              THEN r ELSE g.prev[n]
    OBVIOUS
  <2>1. CASE n = i
    BY <2>1
  <2>2. CASE n = r
    <3>1. f = i /\ prv = i <=> f = i /\ nxt = NULL
      BY <1>l
    <3> QED BY <1>n, <1>g, <1>1, <1>r, <2>2, <3>1
  <2>3. CASE n # i /\ n # r
    BY <1>n, <1>g, <1>1, <1>r, <2>3
  <2> QED BY <2>1, <2>2, <2>3
<1>5. sc = g.child
  BY <1>g
<1> HIDE DEF sx, sv, sc
<1>6. DetachItem(g, p, i) = [g EXCEPT !.next = sx, !.prev = sv, !.child = sc]
  BY <1>2, <1>3, <1>4, <1>5, Zenon
<1>7. ASSUME NEW x, NEW y, NEW z,
             g = [h EXCEPT !.next = x, !.prev = y, !.child = z]
      PROVE  [g EXCEPT !.next = sx, !.prev = sv, !.child = sc]
                = [h EXCEPT !.next = sx, !.prev = sv, !.child = sc]
  BY <1>7 DEF Heap
<1>8. Substitute(h, p, i, r) = DetachItem(g, p, i)
  BY <1>s, <1>e, <1>6, <1>7
<1> QED BY <1>8 DEF g

\* Replacing an element of the list of p by an item of the client.
LEMMA SubstituteLinked ==
    ASSUME NEW h \in Heap, NEW R, NEW par, Linked(h, R, par),
           NEW p \in h.live, p \notin h.isReference,
           NEW i \in Members(h, p),
           NEW r \in R, p \notin Reach(h, {r})
    PROVE  /\ Substitute(h, p, i, r) \in Heap
           /\ Linked(Substitute(h, p, i, r), (R \ {r}) \cup {i},
                     [[par EXCEPT ![r] = p] EXCEPT ![i] = NULL])
<1> DEFINE g == InsertItemInArray(h, p, i, r)
           q == [par EXCEPT ![r] = p]
<1>1. g \in Heap /\ Linked(g, R \ {r}, q)
  BY InsertLinked
<1>h. h.live \in SUBSET Node
  BY HeapTypes
<1>2. /\ i \in h.live /\ par[i] = p /\ i \in Node /\ p \in Node /\ h.prev[i] \in Node
      /\ par \in [Node -> NodePtr]
  BY <1>h, ListFacts DEF Linked
<1>3. r \in Node /\ r # i
  BY <1>h, <1>2, AddressAssumption DEF Linked, TopItems
<1>4. g.live = h.live /\ g.isReference = h.isReference
  BY <1>2, <1>3, InsertHeap
<1>5. q[i] = p
  BY <1>2, <1>3
<1> HIDE DEF g, q
<1>6. i \in Members(g, p)
  BY <1>1, <1>2, <1>4, <1>5, MembersOf
<1>7. /\ DetachItem(g, p, i) \in Heap
      /\ Linked(DetachItem(g, p, i), (R \ {r}) \cup {i}, [q EXCEPT ![i] = NULL])
  BY <1>1, <1>4, <1>6, DetachLinked
<1> QED BY <1>7, SubstituteIsInsertDetach DEF g, q

\* Deleting a tree the client holds frees exactly its own nodes.
LEMMA DeleteSetIsTree ==
    ASSUME NEW h \in Heap, NEW R, NEW par, Linked(h, R, par), NEW r \in R
    PROVE  /\ Reach(h, {r}) \subseteq h.live
           /\ r \in Reach(h, {r}) /\ Closed(h, Reach(h, {r}))
           /\ \A n \in h.live : par[n] \in Reach(h, {r}) => n \in Reach(h, {r})
           /\ \A n \in Reach(h, {r}) : n = r \/ par[n] \in Reach(h, {r})
<1> DEFINE D == Reach(h, {r})
<1> USE AddressAssumption DEF NodePtr
<1>h. /\ h.live \in SUBSET Node /\ h.next \in [Node -> NodePtr]
      /\ h.prev \in [Node -> NodePtr] /\ h.child \in [Node -> NodePtr]
  BY HeapTypes
<1>r. r \in h.live /\ r \in Node /\ par[r] = NULL /\ h.next[r] = NULL
  BY <1>h DEF Linked, TopItems
<1>c. r \in D /\ D \in SUBSET Node /\ Closed(h, D)
  BY <1>r, ReachClosed
<1>1. D \subseteq h.live
  <2>1. Closed(h, h.live)
    BY DEF Closed, OwnedSucc, Linked, Forward, FirstChild
  <2> QED BY <1>h, <1>r, <2>1, ReachLeast
<1>2. ASSUME NEW n \in h.live, par[n] \in D PROVE n \in D
  <2>1. par[n] \in h.live /\ par[n] \notin h.isReference
    BY <1>c, <1>2 DEF Linked, Listed
  <2>2. n \in Members(h, par[n])
    BY <2>1, MembersOf
  <2> QED BY <1>c, <1>2, <2>1, <2>2, ClosedMembers
<1>3. \A n \in D : n = r \/ par[n] \in D
  <2> DEFINE X == {n \in D : n = r \/ par[n] \in D}
  <2>1. Closed(h, X)
    <3> SUFFICES ASSUME NEW m \in X, NEW s \in OwnedSucc(h, m) PROVE s \in X
      BY DEF Closed
    <3>1. s \in D /\ m \in h.live
      BY <1>1, <1>c DEF Closed
    <3>2. CASE s = h.next[m]
      <4>1. s # NULL /\ par[s] = par[m]
        BY <3>1, <3>2 DEF OwnedSucc, Linked, Forward
      <4> QED BY <1>r, <3>1, <3>2, <4>1
    <3>3. CASE s = h.child[m] /\ m \notin h.isReference
      <4>1. s # NULL /\ par[s] = m
        BY <3>1, <3>3 DEF OwnedSucc, Linked, FirstChild
      <4> QED BY <3>1, <4>1
    <3> QED BY <3>2, <3>3 DEF OwnedSucc
  <2>2. D \subseteq X
    BY <1>c, <2>1, ReachLeast
  <2> QED BY <2>2
<1> QED BY <1>c, <1>1, <1>2, <1>3

\* The freed fields keep their types.
LEMMA DeleteHeap ==
    ASSUME NEW h \in Heap, NEW r \in Node
    PROVE  /\ Delete(h, r) \in Heap
           /\ Delete(h, r).live = h.live \ Reach(h, {r})
           /\ Delete(h, r).next = Erase(h.next, Reach(h, {r}), NULL)
           /\ Delete(h, r).prev = Erase(h.prev, Reach(h, {r}), NULL)
           /\ Delete(h, r).child = Erase(h.child, Reach(h, {r}), NULL)
           /\ Delete(h, r).string = Erase(h.string, Reach(h, {r}), NULL)
           /\ Delete(h, r).isReference = h.isReference \ Reach(h, {r})
           /\ Delete(h, r).stringIsConst = h.stringIsConst \ Reach(h, {r})
<1> DEFINE D == Reach(h, {r})
           freed == UNION {OwnedStrings(h, n) : n \in D}
           bad == h.fault \/ ~DeleteIsSafe(h, r, D)
<1>1. r # NULL /\ DeleteSet(h, r) = D
  BY AddressAssumption DEF DeleteSet
<1>2. Delete(h, r) =
        [h EXCEPT !.live = h.live \ D,
                  !.next = Erase(h.next, D, NULL),
                  !.prev = Erase(h.prev, D, NULL),
                  !.child = Erase(h.child, D, NULL),
                  !.type = Erase(h.type, D, "Invalid"),
                  !.isReference = h.isReference \ D,
                  !.stringIsConst = h.stringIsConst \ D,
                  !.string = Erase(h.string, D, NULL),
                  !.valuestring = Erase(h.valuestring, D, NULL),
                  !.text = Erase(h.text, freed, NULL),
                  !.fault = bad]
  BY <1>1 DEF Delete, Heap
<1>3. /\ Erase(h.next, D, NULL) \in [Node -> NodePtr]
      /\ Erase(h.prev, D, NULL) \in [Node -> NodePtr]
      /\ Erase(h.child, D, NULL) \in [Node -> NodePtr]
  BY DEF Erase, Heap, NodePtr
<1>4. /\ Erase(h.type, D, "Invalid") \in [Node -> Type]
      /\ Erase(h.string, D, NULL) \in [Node -> StrPtr]
      /\ Erase(h.valuestring, D, NULL) \in [Node -> StrPtr]
      /\ Erase(h.text, freed, NULL) \in [Str -> Name \cup {NULL}]
  BY DEF Erase, Heap, Type, StrPtr
<1>5. bad \in BOOLEAN
  BY DEF Heap
<1>7. /\ h.live \ D \in SUBSET Node /\ h.isReference \ D \in SUBSET Node
      /\ h.stringIsConst \ D \in SUBSET Node
  BY DEF Heap
<1> HIDE DEF D, freed, bad
<1>6. Delete(h, r) \in Heap
  <2> DEFINE lv == h.live \ D
             rf == h.isReference \ D
             cs == h.stringIsConst \ D
             nx == Erase(h.next, D, NULL)
             pv == Erase(h.prev, D, NULL)
             ch == Erase(h.child, D, NULL)
             ty == Erase(h.type, D, "Invalid")
             sg == Erase(h.string, D, NULL)
             vs == Erase(h.valuestring, D, NULL)
             tx == Erase(h.text, freed, NULL)
  <2>1. /\ lv \in SUBSET Node /\ rf \in SUBSET Node /\ cs \in SUBSET Node
        /\ nx \in [Node -> NodePtr] /\ pv \in [Node -> NodePtr] /\ ch \in [Node -> NodePtr]
        /\ ty \in [Node -> Type] /\ sg \in [Node -> StrPtr] /\ vs \in [Node -> StrPtr]
        /\ tx \in [Str -> Name \cup {NULL}]
    BY <1>3, <1>4, <1>7
  <2> HIDE DEF lv, rf, cs, nx, pv, ch, ty, sg, vs, tx
  <2>2. Delete(h, r) = [live |-> lv, next |-> nx, prev |-> pv, child |-> ch, type |-> ty,
                        isReference |-> rf, stringIsConst |-> cs, string |-> sg,
                        valuestring |-> vs, text |-> tx, fault |-> bad]
    BY <1>2 DEF Heap, lv, rf, cs, nx, pv, ch, ty, sg, vs, tx
  <2> QED BY <1>5, <2>1, <2>2 DEF Heap
<1> QED BY ZenonT(30), <1>2, <1>6 DEF D, Heap

\* cJSON_Delete of an item of the client leaves all other lists linked.
LEMMA DeleteLinked ==
    ASSUME NEW h \in Heap, NEW R, NEW par, Linked(h, R, par), NEW r \in R
    PROVE  /\ Delete(h, r) \in Heap
           /\ Linked(Delete(h, r), R \ {r}, par)
<1> DEFINE g == Delete(h, r)
           D == Reach(h, {r})
<1> USE AddressAssumption DEF NodePtr
<1>h. /\ h.live \in SUBSET Node /\ h.next \in [Node -> NodePtr]
      /\ h.prev \in [Node -> NodePtr] /\ h.child \in [Node -> NodePtr]
      /\ DOMAIN h.next = Node /\ DOMAIN h.prev = Node /\ DOMAIN h.child = Node
  BY HeapTypes
<1>s. h.string \in [Node -> StrPtr]
  BY DEF Heap
<1>r. r \in h.live /\ r \in Node /\ par[r] = NULL
  BY <1>h DEF Linked, TopItems
<1>d. /\ D \subseteq h.live /\ r \in D /\ Closed(h, D)
      /\ \A n \in h.live : par[n] \in D => n \in D
      /\ \A n \in D : n = r \/ par[n] \in D
  BY DeleteSetIsTree
<1> HIDE DEF D
<1>g. /\ g \in Heap
      /\ g.live = h.live \ D /\ g.isReference = h.isReference \ D
      /\ \A n \in Node \ D : /\ g.next[n] = h.next[n] /\ g.prev[n] = h.prev[n]
                             /\ g.child[n] = h.child[n] /\ g.string[n] = h.string[n]
      /\ \A n \in D : g.next[n] = NULL /\ g.child[n] = NULL
  <2>1. /\ g \in Heap
        /\ g.live = h.live \ D /\ g.isReference = h.isReference \ D
        /\ g.next = Erase(h.next, D, NULL) /\ g.prev = Erase(h.prev, D, NULL)
        /\ g.child = Erase(h.child, D, NULL) /\ g.string = Erase(h.string, D, NULL)
    BY <1>r, DeleteHeap DEF D
  <2> HIDE DEF g
  <2>2. D \subseteq Node /\ DOMAIN h.string = Node
    BY <1>h, <1>s, <1>d
  <2> QED BY <1>h, <2>1, <2>2 DEF Erase
<1> HIDE DEF g
<1>t. par \in [Node -> NodePtr]
  BY DEF Linked
<1>n. NULL \notin D
  BY <1>h, <1>d
<1>1. TopItems(g, R \ {r}, par)
  <2>1. R \ {r} \subseteq g.live
    BY <1>g, <1>d, <1>n DEF Linked, TopItems
  <2> QED BY <1>h, <1>g, <1>d, <2>1 DEF Linked, TopItems
<1>2. Listed(g, par)
  <2> SUFFICES ASSUME NEW m \in h.live \ D, par[m] # NULL
               PROVE  /\ par[m] \in g.live /\ par[m] \notin g.isReference
                      /\ g.child[par[m]] # NULL
                      /\ g.prev[m] \in g.live /\ par[g.prev[m]] = par[m]
                      /\ g.next[g.prev[m]] = IF g.child[par[m]] = m THEN NULL ELSE m
    BY <1>g DEF Listed
  <2>1. /\ par[m] \in h.live /\ par[m] \notin h.isReference /\ h.child[par[m]] # NULL
        /\ h.prev[m] \in h.live /\ par[h.prev[m]] = par[m]
        /\ h.next[h.prev[m]] = IF h.child[par[m]] = m THEN NULL ELSE m
    BY DEF Linked, Listed
  <2>2. par[m] \notin D /\ m \in Node
    BY <1>h, <1>d
  <2>3. h.prev[m] \notin D
    BY <1>r, <1>d, <2>1, <2>2
  <2> QED BY <1>h, <1>g, <2>1, <2>2, <2>3
<1>3. Forward(g, par)
  <2> SUFFICES ASSUME NEW m \in h.live \ D, g.next[m] # NULL
               PROVE  /\ g.next[m] \in g.live /\ g.prev[g.next[m]] = m
                      /\ par[g.next[m]] = par[m] /\ g.child[par[m]] # g.next[m]
    BY <1>g DEF Forward
  <2>1. /\ g.next[m] = h.next[m] /\ h.next[m] # NULL /\ m \in Node
    BY <1>h, <1>g
  <2>2. /\ h.next[m] \in h.live /\ h.prev[h.next[m]] = m
        /\ par[h.next[m]] = par[m] /\ h.child[par[m]] # h.next[m] /\ par[m] # NULL
    BY <2>1 DEF Linked, Forward, TopItems
  <2>3. h.next[m] \notin D /\ par[m] \notin D /\ par[m] \in Node
    BY <1>t, <1>r, <1>d, <2>1, <2>2
  <2> QED BY <1>h, <1>g, <2>1, <2>2, <2>3
<1>4. FirstChild(g, par)
  <2> SUFFICES ASSUME NEW k \in h.live \ D, k \notin h.isReference, g.child[k] # NULL
               PROVE  g.child[k] \in g.live /\ par[g.child[k]] = k
    BY <1>g DEF FirstChild
  <2>1. /\ g.child[k] = h.child[k] /\ h.child[k] \in h.live /\ par[h.child[k]] = k
        /\ k \in Node /\ k # NULL
    BY <1>h, <1>g DEF Linked, FirstChild
  <2>2. h.child[k] \notin D
    BY <1>r, <1>d, <2>1
  <2> QED BY <1>g, <2>1, <2>2
<1>5. OneTail(g, par)
  <2> SUFFICES ASSUME NEW m \in h.live \ D, NEW n \in h.live \ D, par[m] = par[n],
                      par[m] # NULL, g.next[m] = NULL, g.next[n] = NULL
               PROVE  m = n
    BY <1>g DEF OneTail
  <2>1. h.next[m] = NULL /\ h.next[n] = NULL
    BY <1>h, <1>g
  <2> QED BY <2>1 DEF Linked, OneTail
<1>6. Reached(g, par)
  <2> SUFFICES ASSUME NEW C \in SUBSET Node, Tops(g, par) \subseteq C, Closed(g, C)
               PROVE  g.live \subseteq C
    BY <1>h, <1>g DEF Reached, Reach
  <2> DEFINE X == C \cup D
  <2>1. Closed(h, X)
    <3> SUFFICES ASSUME NEW m \in X, NEW s \in OwnedSucc(h, m) PROVE s \in X
      BY DEF Closed
    <3>1. CASE m \in D
      BY <1>d, <3>1 DEF Closed
    <3>2. CASE m \in C \ D
      <4>1. s \in OwnedSucc(g, m)
        BY <1>g, <3>2 DEF OwnedSucc
      <4> QED BY <3>2, <4>1 DEF Closed
    <3> QED BY <3>1, <3>2
  <2>2. Tops(h, par) \subseteq X /\ X \in SUBSET Node
    BY <1>h, <1>g, <1>d DEF Tops
  <2>3. h.live \subseteq X
    <3> HIDE DEF X
    <3> QED BY <2>1, <2>2, ReachLeast DEF Linked, Reached
  <2> QED BY <1>g, <2>3
<1> QED BY <1>t, <1>g, <1>1, <1>2, <1>3, <1>4, <1>5, <1>6 DEF Linked, g

-----------------------------------------------------------------------------
(* Strings: copying, freeing and renaming leave the links alone *)

SameLinks(g, h) ==
    /\ g.live = h.live /\ g.next = h.next /\ g.prev = h.prev /\ g.child = h.child
    /\ g.isReference = h.isReference

\* What can be reached depends on the links alone.
LEMMA SameReach ==
    ASSUME NEW g, NEW h, SameLinks(g, h), NEW S
    PROVE  Reach(g, S) = Reach(h, S)
<1>1. \A C : Closed(g, C) <=> Closed(h, C)
  BY DEF Closed, OwnedSucc, SameLinks
<1> QED BY <1>1 DEF Reach

\* The links stay right when only strings change, as long as no item
\* without a name outside the client's hands gets lost.
LEMMA SameLinked ==
    ASSUME NEW g, NEW h, SameLinks(g, h), NEW R, NEW par, Linked(h, R, par),
           \A n \in h.live \ R : h.string[n] = NULL => g.string[n] = NULL
    PROVE  Linked(g, R, par)
<1>1. TopItems(g, R, par)
  BY DEF Linked, TopItems, SameLinks
<1>2. Listed(g, par) /\ Forward(g, par) /\ FirstChild(g, par) /\ OneTail(g, par)
  BY DEF Linked, Listed, Forward, FirstChild, OneTail, SameLinks
<1>3. Tops(g, par) = Tops(h, par)
  BY DEF Tops, SameLinks
<1>4. Reached(g, par)
  BY <1>3, SameReach DEF Linked, Reached, SameLinks
<1> QED BY <1>1, <1>2, <1>4 DEF Linked

\* cJSON_strdup into a free block.
LEMMA StrdupHeap ==
    ASSUME NEW h \in Heap, NEW s \in Str \cup {NULL}, NEW p \in StrPtr
    PROVE  LET g == Strdup(h, s, p)
           IN  /\ g \in Heap /\ SameLinks(g, h)
               /\ g.string = h.string /\ g.stringIsConst = h.stringIsConst
<1>1. CASE s = NULL
  BY <1>1 DEF Strdup, SameLinks
<1>2. CASE s # NULL
  <2> DEFINE tx == [h.text EXCEPT ![s] = Text(h, p)]
             bad == h.fault \/ ~Allocated(h, p)
  <2>1. Text(h, p) \in Name \cup {NULL}
    BY DEF Text, StrPtr, Heap
  <2>2. tx \in [Str -> Name \cup {NULL}] /\ bad \in BOOLEAN
    BY <2>1 DEF Heap
  <2>3. Strdup(h, s, p) = [h EXCEPT !.text = tx, !.fault = bad]
    BY <1>2 DEF Strdup, Heap
  <2> HIDE DEF tx, bad
  <2> QED BY <2>2, <2>3 DEF Heap, SameLinks
<1> QED BY <1>1, <1>2

\* Freeing a string touches neither links nor keys.
LEMMA FreeStringHeap ==
    ASSUME NEW h \in Heap, NEW p \in StrPtr
    PROVE  LET g == FreeString(h, p)
           IN  /\ g \in Heap /\ SameLinks(g, h)
               /\ g.string = h.string /\ g.stringIsConst = h.stringIsConst
<1>1. CASE p = NULL
  BY <1>1 DEF FreeString, SameLinks
<1>2. CASE p # NULL /\ p \in Str /\ h.text[p] # NULL
  <2> DEFINE tx == [h.text EXCEPT ![p] = NULL]
  <2>1. tx \in [Str -> Name \cup {NULL}]
    BY <1>2 DEF Heap
  <2>2. FreeString(h, p) = [h EXCEPT !.text = tx]
    BY <1>2 DEF FreeString, Heap
  <2> HIDE DEF tx
  <2> QED BY <2>1, <2>2 DEF Heap, SameLinks
<1>3. CASE p # NULL /\ ~(p \in Str /\ h.text[p] # NULL)
  BY <1>3 DEF FreeString, Heap, SameLinks
<1> QED BY <1>1, <1>2, <1>3

\* Setting a key touches no links.
LEMMA SetKeyHeap ==
    ASSUME NEW h \in Heap, NEW i \in Node, NEW key \in StrPtr, NEW c \in BOOLEAN
    PROVE  LET g == SetKey(h, i, key, c)
           IN  /\ g \in Heap /\ SameLinks(g, h)
               /\ g.string = [h.string EXCEPT ![i] = key]
               /\ g.stringIsConst \subseteq h.stringIsConst \cup {i}
<1> DEFINE sg == [h.string EXCEPT ![i] = key]
           cs == IF c THEN h.stringIsConst \cup {i} ELSE h.stringIsConst \ {i}
<1>1. sg \in [Node -> StrPtr] /\ cs \in SUBSET Node /\ cs \subseteq h.stringIsConst \cup {i}
  BY DEF Heap
<1>2. SetKey(h, i, key, c) = [h EXCEPT !.string = sg, !.stringIsConst = cs]
  BY DEF SetKey, Heap
<1> HIDE DEF sg, cs
<1>3. LET g == SetKey(h, i, key, c)
      IN  g \in Heap /\ SameLinks(g, h) /\ g.string = sg /\ g.stringIsConst = cs
  BY <1>1, <1>2 DEF Heap, SameLinks
<1> QED BY <1>1, <1>3 DEF sg


-----------------------------------------------------------------------------
(* New items *)

\* cJSON_New_Item returns a zeroed node and touches nothing else.
LEMMA NewItemHeap ==
    ASSUME NEW h \in Heap, NEW n \in Node, NEW t \in Type
    PROVE  LET g == NewItem(h, n, t)
           IN  /\ g \in Heap
               /\ g.live = h.live \cup {n}
               /\ g.next = [h.next EXCEPT ![n] = NULL]
               /\ g.prev = [h.prev EXCEPT ![n] = NULL]
               /\ g.child = [h.child EXCEPT ![n] = NULL]
               /\ g.string = [h.string EXCEPT ![n] = NULL]
               /\ g.isReference = h.isReference \ {n}
               /\ g.stringIsConst = h.stringIsConst \ {n}
<1> DEFINE nx == [h.next EXCEPT ![n] = NULL]
           pv == [h.prev EXCEPT ![n] = NULL]
           ch == [h.child EXCEPT ![n] = NULL]
           ty == [h.type EXCEPT ![n] = t]
           sg == [h.string EXCEPT ![n] = NULL]
           vs == [h.valuestring EXCEPT ![n] = NULL]
           lv == h.live \cup {n}
           rf == h.isReference \ {n}
           cs == h.stringIsConst \ {n}
<1>1. /\ nx \in [Node -> NodePtr] /\ pv \in [Node -> NodePtr] /\ ch \in [Node -> NodePtr]
      /\ ty \in [Node -> Type] /\ sg \in [Node -> StrPtr] /\ vs \in [Node -> StrPtr]
      /\ lv \in SUBSET Node /\ rf \in SUBSET Node /\ cs \in SUBSET Node
  BY DEF Heap, NodePtr, StrPtr
<1>2. n # NULL
  BY AddressAssumption
<1>3. NewItem(h, n, t) = [h EXCEPT !.live = lv, !.next = nx, !.prev = pv, !.child = ch,
                                   !.type = ty, !.isReference = rf, !.stringIsConst = cs,
                                   !.string = sg, !.valuestring = vs]
  BY <1>2 DEF NewItem, Heap
<1> HIDE DEF nx, pv, ch, ty, sg, vs, lv, rf, cs
<1>4. LET g == NewItem(h, n, t)
      IN  /\ g \in Heap /\ g.live = lv /\ g.next = nx /\ g.prev = pv /\ g.child = ch
          /\ g.string = sg /\ g.isReference = rf /\ g.stringIsConst = cs
  BY ZenonT(30), <1>1, <1>3 DEF Heap
<1> QED BY <1>4 DEF nx, pv, ch, sg, lv, rf, cs

\* A new item that borrows its children or has none can join the roots.
LEMMA FreshLinks ==
    ASSUME NEW h, NEW R, LinksInv(h, R),
           NEW g \in Heap, NEW n \in Node \ h.live,
           g.live = h.live \cup {n},
           g.next = [h.next EXCEPT ![n] = NULL],
           g.prev = [h.prev EXCEPT ![n] = NULL],
           \A m \in h.live : g.child[m] = h.child[m] /\ g.string[m] = h.string[m],
           g.isReference \in {h.isReference, h.isReference \cup {n}},
           g.stringIsConst \subseteq h.stringIsConst \cup {n},
           n \in g.isReference \/ g.child[n] = NULL
    PROVE  LinksInv(g, R \cup {n})
<1>1. PICK par \in [Node -> NodePtr] : h \in Heap /\ Linked(h, R, par)
  BY DEF LinksInv, HeapOK
<1>2. \A m \in h.live : m \in g.isReference <=> m \in h.isReference
  OBVIOUS
<1>3. Linked(g, R \cup {n}, [par EXCEPT ![n] = NULL])
  BY <1>1, <1>2, FreshLinked
<1>4. HeapOK(g)
  BY DEF LinksInv, HeapOK
<1>5. [par EXCEPT ![n] = NULL] \in [Node -> NodePtr]
  BY <1>1 DEF NodePtr
<1> QED BY <1>3, <1>4, <1>5 DEF LinksInv

\* cJSON_CreateNull, cJSON_CreateArray and their kind.
LEMMA NewItemLinks ==
    ASSUME NEW h, NEW R, LinksInv(h, R), NEW n \in Node \ h.live, NEW t \in Type
    PROVE  LinksInv(NewItem(h, n, t), R \cup {n})
<1> DEFINE g == NewItem(h, n, t)
<1>h. h \in Heap /\ h.isReference \subseteq h.live /\ h.stringIsConst \subseteq h.live
  BY DEF LinksInv, HeapOK
<1>1. /\ g \in Heap
      /\ g.live = h.live \cup {n}
      /\ g.next = [h.next EXCEPT ![n] = NULL]
      /\ g.prev = [h.prev EXCEPT ![n] = NULL]
      /\ g.child = [h.child EXCEPT ![n] = NULL]
      /\ g.string = [h.string EXCEPT ![n] = NULL]
      /\ g.isReference = h.isReference \ {n}
      /\ g.stringIsConst = h.stringIsConst \ {n}
  BY <1>h, NewItemHeap
<1> HIDE DEF g
<1>2. g.isReference = h.isReference /\ g.stringIsConst = h.stringIsConst
  BY <1>1, <1>h
<1>3. \A m \in h.live : g.child[m] = h.child[m] /\ g.string[m] = h.string[m]
  BY <1>1, <1>h DEF Heap
<1>4. g.child[n] = NULL
  BY <1>1, <1>h DEF Heap
<1>5. LinksInv(g, R \cup {n})
  BY <1>1, <1>2, <1>3, <1>4, FreshLinks
<1> QED BY <1>5 DEF g

\* A fresh item that borrows the children c and the value v.
ReferenceItem(h, n, t, c, v, K) ==
    [NewItem(h, n, t) EXCEPT
        !.child[n] = c, !.valuestring[n] = v,
        !.isReference = @ \cup {n},
        !.stringIsConst = @ \cup K]

\* Its fields: what it borrows does not touch the other items.
LEMMA ReferenceItemHeap ==
    ASSUME NEW h \in Heap, NEW n \in Node, NEW t \in Type,
           NEW c \in NodePtr, NEW v \in StrPtr, NEW K \in SUBSET {n}
    PROVE  LET g == ReferenceItem(h, n, t, c, v, K)
           IN  /\ g \in Heap
               /\ g.live = h.live \cup {n}
               /\ g.next = [h.next EXCEPT ![n] = NULL]
               /\ g.prev = [h.prev EXCEPT ![n] = NULL]
               /\ g.child = [h.child EXCEPT ![n] = c]
               /\ g.string = [h.string EXCEPT ![n] = NULL]
               /\ g.isReference = h.isReference \cup {n}
               /\ g.stringIsConst \subseteq h.stringIsConst \cup {n}
<1> DEFINE g == ReferenceItem(h, n, t, c, v, K)
           b == NewItem(h, n, t)
           ch == [b.child EXCEPT ![n] = c]
           vs == [b.valuestring EXCEPT ![n] = v]
           rf == b.isReference \cup {n}
           cs == b.stringIsConst \cup K
<1>1. /\ b \in Heap
      /\ b.live = h.live \cup {n}
      /\ b.next = [h.next EXCEPT ![n] = NULL]
      /\ b.prev = [h.prev EXCEPT ![n] = NULL]
      /\ b.child = [h.child EXCEPT ![n] = NULL]
      /\ b.string = [h.string EXCEPT ![n] = NULL]
      /\ b.isReference = h.isReference \ {n}
      /\ b.stringIsConst = h.stringIsConst \ {n}
  BY NewItemHeap
<1> HIDE DEF b
<1>2. /\ ch \in [Node -> NodePtr] /\ vs \in [Node -> StrPtr]
      /\ rf \in SUBSET Node /\ cs \in SUBSET Node
  BY <1>1 DEF Heap
<1>3. /\ ch = [h.child EXCEPT ![n] = c]
      /\ rf = h.isReference \cup {n}
      /\ cs \subseteq h.stringIsConst \cup {n}
  BY <1>1 DEF Heap
<1>4. g = [b EXCEPT !.child = ch, !.valuestring = vs, !.isReference = rf, !.stringIsConst = cs]
  BY <1>1 DEF ReferenceItem, b, Heap
<1> HIDE DEF g, ch, vs, rf, cs
<1>5. b \in Heap
  BY <1>1
<1>6. /\ g \in Heap /\ g.live = b.live /\ g.next = b.next /\ g.prev = b.prev
      /\ g.child = ch /\ g.string = b.string /\ g.isReference = rf /\ g.stringIsConst = cs
  BY <1>2, <1>4, <1>5 DEF Heap
<1> QED BY <1>1, <1>3, <1>6 DEF g

\* A new reference item can join the roots.
LEMMA ReferenceItemLinks ==
    ASSUME NEW h, NEW R, LinksInv(h, R), NEW n \in Node \ h.live, NEW t \in Type,
           NEW c \in NodePtr, NEW v \in StrPtr, NEW K \in SUBSET {n}
    PROVE  LinksInv(ReferenceItem(h, n, t, c, v, K), R \cup {n})
<1> DEFINE g == ReferenceItem(h, n, t, c, v, K)
<1>h. h \in Heap
  BY DEF LinksInv, HeapOK
<1>1. /\ g \in Heap
      /\ g.live = h.live \cup {n}
      /\ g.next = [h.next EXCEPT ![n] = NULL]
      /\ g.prev = [h.prev EXCEPT ![n] = NULL]
      /\ g.child = [h.child EXCEPT ![n] = c]
      /\ g.string = [h.string EXCEPT ![n] = NULL]
      /\ g.isReference = h.isReference \cup {n}
      /\ g.stringIsConst \subseteq h.stringIsConst \cup {n}
  BY <1>h, ReferenceItemHeap
<1> HIDE DEF g
<1>2. \A m \in h.live : g.child[m] = h.child[m] /\ g.string[m] = h.string[m]
  BY <1>1, <1>h DEF Heap
<1>3. /\ g.isReference \in {h.isReference, h.isReference \cup {n}}
      /\ n \in g.isReference \/ g.child[n] = NULL
  BY <1>1
<1>4. LinksInv(g, R \cup {n})
  BY <1>1, <1>2, <1>3, FreshLinks
<1> QED BY <1>4 DEF g

\* create_reference makes such an item.
LEMMA CreateReferenceIsItem ==
    ASSUME NEW h \in Heap, NEW n \in Node, NEW item \in Node
    PROVE  \E t \in Type, c \in NodePtr, v \in StrPtr, K \in SUBSET {n} :
               CreateReference(h, n, item) = ReferenceItem(h, n, t, c, v, K)
<1>1. /\ h.type[item] \in Type /\ h.child[item] \in NodePtr
      /\ h.valuestring[item] \in StrPtr /\ n # NULL
  BY AddressAssumption DEF Heap
<1>2. CASE item \in h.stringIsConst
  <2>1. CreateReference(h, n, item) =
          ReferenceItem(h, n, h.type[item], h.child[item], h.valuestring[item], {n})
    BY <1>1, <1>2 DEF CreateReference, ReferenceItem
  <2> QED BY <1>1, <2>1
<1>3. CASE item \notin h.stringIsConst
  <2>1. CreateReference(h, n, item) =
          ReferenceItem(h, n, h.type[item], h.child[item], h.valuestring[item], {})
    BY <1>1, <1>3 DEF CreateReference, ReferenceItem
  <2> QED BY <1>1, <2>1
<1> QED BY <1>2, <1>3

\* create_reference; the reference is alone and has no key yet.
LEMMA CreateReferenceLinks ==
    ASSUME NEW h, NEW R, LinksInv(h, R), NEW n \in Node \ h.live, NEW item \in h.live
    PROVE  LinksInv(CreateReference(h, n, item), R \cup {n})
<1>1. h \in Heap /\ item \in Node
  BY DEF LinksInv, HeapOK, Heap
<1>2. PICK t \in Type, c \in NodePtr, v \in StrPtr, K \in SUBSET {n} :
        CreateReference(h, n, item) = ReferenceItem(h, n, t, c, v, K)
  BY <1>1, CreateReferenceIsItem
<1>3. LinksInv(ReferenceItem(h, n, t, c, v, K), R \cup {n})
  BY ReferenceItemLinks
<1> QED BY <1>2, <1>3

\* A new reference is a live unlinked item without a name.
LEMMA CreateReferenceHeap ==
    ASSUME NEW h \in Heap, NEW n \in Node, NEW item \in Node
    PROVE  LET g == CreateReference(h, n, item)
           IN  /\ g \in Heap
               /\ g.live = h.live \cup {n} /\ g.next[n] = NULL /\ g.string[n] = NULL
               /\ g.isReference = h.isReference \cup {n}
<1>1. PICK t \in Type, c \in NodePtr, v \in StrPtr, K \in SUBSET {n} :
        CreateReference(h, n, item) = ReferenceItem(h, n, t, c, v, K)
  BY CreateReferenceIsItem
<1> DEFINE g == ReferenceItem(h, n, t, c, v, K)
<1>2. /\ g \in Heap
      /\ g.live = h.live \cup {n}
      /\ g.next = [h.next EXCEPT ![n] = NULL]
      /\ g.prev = [h.prev EXCEPT ![n] = NULL]
      /\ g.child = [h.child EXCEPT ![n] = c]
      /\ g.string = [h.string EXCEPT ![n] = NULL]
      /\ g.isReference = h.isReference \cup {n}
      /\ g.stringIsConst \subseteq h.stringIsConst \cup {n}
  BY ReferenceItemHeap
<1> HIDE DEF g
<1>3. g.next[n] = NULL /\ g.string[n] = NULL
  BY <1>2 DEF Heap
<1> QED BY <1>1, <1>2, <1>3 DEF g

\* The item handed over without a name is the one kind the client may forget.
LEMMA ForgetLinks ==
    ASSUME NEW h, NEW R, LinksInv(h, R),
           NEW n \in R, n \in h.isReference, h.string[n] = NULL
    PROVE  LinksInv(h, R \ {n})
<1>1. PICK par \in [Node -> NodePtr] : HeapOK(h) /\ Linked(h, R, par)
  BY DEF LinksInv
<1>2. TopItems(h, R \ {n}, par)
  BY <1>1 DEF Linked, TopItems
<1>3. Linked(h, R \ {n}, par)
  BY <1>1, <1>2 DEF Linked
<1> QED BY <1>1, <1>3 DEF LinksInv

\* An item without links reaches only itself.
LEMMA ReachAlone ==
    ASSUME NEW h \in Heap, NEW n \in Node, OwnedSucc(h, n) = {}
    PROVE  Reach(h, {n}) = {n}
<1>1. Closed(h, {n})
  BY DEF Closed
<1>2. Reach(h, {n}) \subseteq {n}
  BY <1>1, ReachLeast
<1>3. n \in Reach(h, {n})
  BY ReachClosed
<1> QED BY <1>2, <1>3

\* The client's items are outside every list.
LEMMA RootLinks ==
    ASSUME NEW h, NEW R, LinksInv(h, R)
    PROVE  /\ h \in Heap /\ R \subseteq h.live /\ h.live \subseteq Node
           /\ \A r \in R : h.next[r] = NULL /\ h.prev[r] = NULL
  BY DEF LinksInv, HeapOK, Heap, Linked, TopItems

\* A change of strings and flags leaves the links as they are.
LEMMA SameLinksInv ==
    ASSUME NEW h, NEW R, LinksInv(h, R), NEW g \in Heap, SameLinks(g, h),
           g.stringIsConst \subseteq h.live,
           \A n \in h.live \ R : h.string[n] = NULL => g.string[n] = NULL
    PROVE  LinksInv(g, R)
<1>1. PICK par \in [Node -> NodePtr] : HeapOK(h) /\ Linked(h, R, par)
  BY DEF LinksInv
<1>2. Linked(g, R, par)
  BY <1>1, SameLinked
<1>3. HeapOK(g)
  BY <1>1 DEF HeapOK, SameLinks
<1> QED BY <1>2, <1>3 DEF LinksInv

-----------------------------------------------------------------------------
(* Storing, taking out, deleting *)

\* add_item_to_array, accepted or refused.
LEMMA AddItemToArrayLinks ==
    ASSUME NEW h, NEW R, LinksInv(h, R),
           NEW p \in h.live, p \notin h.isReference,
           NEW i \in R, p \notin Reach(h, {i}) \ {i}
    PROVE  LinksInv(AddItemToArray(h, p, i),
                    IF AddItemToArrayAccepts(p, i) THEN R \ {i} ELSE R)
<1>1. PICK par \in [Node -> NodePtr] : HeapOK(h) /\ Linked(h, R, par)
  BY DEF LinksInv
<1>2. CASE ~AddItemToArrayAccepts(p, i)
  BY <1>2 DEF AddItemToArray
<1>3. CASE AddItemToArrayAccepts(p, i)
  <2> DEFINE g == AddItemToArray(h, p, i)
  <2>1. p \notin Reach(h, {i})
    BY <1>3 DEF AddItemToArrayAccepts
  <2>2. h \in Heap
    BY <1>1 DEF HeapOK
  <2>3. g \in Heap /\ Linked(g, R \ {i}, [par EXCEPT ![i] = p])
    BY <1>1, <2>1, <2>2, AppendLinked
  <2>4. /\ g.live = h.live /\ g.isReference = h.isReference
        /\ g.stringIsConst = h.stringIsConst
    BY <2>2 DEF AddItemToArray, SuffixObject, Heap
  <2>5. HeapOK(g)
    BY <1>1, <2>3, <2>4 DEF HeapOK
  <2>6. [par EXCEPT ![i] = p] \in [Node -> NodePtr]
    BY <1>1, <2>2 DEF NodePtr, Heap
  <2> QED BY <1>3, <2>3, <2>5, <2>6 DEF LinksInv
<1> QED BY <1>2, <1>3

\* add_item_to_object, with the key copied into s or borrowed.
LEMMA AddItemToObjectLinks ==
    ASSUME NEW h, NEW R, LinksInv(h, R),
           NEW p \in h.live, p \notin h.isReference,
           NEW i \in R, p \notin Reach(h, {i}) \ {i},
           NEW key \in StrPtr, NEW s \in Str \cup {NULL}, NEW c \in BOOLEAN
    PROVE  LinksInv(AddItemToObject(h, p, key, i, s, c),
                    IF AddItemToObjectAccepts(p, i, s, c) THEN R \ {i} ELSE R)
<1>1. CASE ~AddItemToObjectAccepts(p, i, s, c)
  BY <1>1 DEF AddItemToObject
<1>2. CASE AddItemToObjectAccepts(p, i, s, c)
  <2> DEFINE named == IF c THEN h ELSE Strdup(h, s, key)
             clean == FreeString(named, OwnedKey(h, i))
             newKey == IF c THEN key ELSE s
             set == SetKey(clean, i, newKey, c)
  <2>1. h \in Heap /\ i \in h.live /\ i \in Node /\ h.stringIsConst \subseteq h.live
    BY RootLinks DEF LinksInv, HeapOK
  <2>2. /\ named \in Heap /\ SameLinks(named, h)
        /\ named.string = h.string /\ named.stringIsConst = h.stringIsConst
    BY <2>1, StrdupHeap DEF SameLinks
  <2>3. OwnedKey(h, i) \in StrPtr
    BY <2>1 DEF OwnedKey, Heap, StrPtr
  <2> HIDE DEF named
  <2>4. /\ clean \in Heap /\ SameLinks(clean, h)
        /\ clean.string = h.string /\ clean.stringIsConst = h.stringIsConst
    BY <2>2, <2>3, FreeStringHeap DEF SameLinks
  <2>5. newKey \in StrPtr
    BY DEF StrPtr
  <2> HIDE DEF clean, newKey
  <2>6. /\ set \in Heap /\ SameLinks(set, h)
        /\ set.string = [h.string EXCEPT ![i] = newKey]
        /\ set.stringIsConst \subseteq h.stringIsConst \cup {i}
    BY <2>1, <2>4, <2>5, SetKeyHeap DEF SameLinks
  <2> HIDE DEF set
  <2>7. set.stringIsConst \subseteq h.live
    BY <2>1, <2>6
  <2>8. \A n \in h.live \ R : h.string[n] = NULL => set.string[n] = NULL
    BY <2>1, <2>6 DEF Heap
  <2>9. LinksInv(set, R)
    BY <2>6, <2>7, <2>8, SameLinksInv
  <2>10. Reach(set, {i}) = Reach(h, {i}) /\ p \in set.live /\ p \notin set.isReference
    BY <2>6, SameReach DEF SameLinks
  <2>11. AddItemToArrayAccepts(p, i)
    BY <1>2 DEF AddItemToObjectAccepts
  <2>12. LinksInv(AddItemToArray(set, p, i), R \ {i})
    BY <2>9, <2>10, <2>11, AddItemToArrayLinks
  <2>13. AddItemToObject(h, p, key, i, s, c) = AddItemToArray(set, p, i)
    BY <1>2 DEF AddItemToObject, set, clean, newKey, named
  <2> QED BY <1>2, <2>12, <2>13
<1> QED BY <1>1, <1>2

\* cJSON_DetachItemViaPointer of an element of the list.
LEMMA DetachLinks ==
    ASSUME NEW h, NEW R, LinksInv(h, R),
           NEW p \in h.live, p \notin h.isReference, NEW i \in Members(h, p)
    PROVE  LinksInv(DetachItem(h, p, i), R \cup {i}) /\ i \notin R
<1> DEFINE g == DetachItem(h, p, i)
<1>1. PICK par \in [Node -> NodePtr] : HeapOK(h) /\ Linked(h, R, par)
  BY DEF LinksInv
<1>2. h \in Heap
  BY <1>1 DEF HeapOK
<1>3. g \in Heap /\ Linked(g, R \cup {i}, [par EXCEPT ![i] = NULL])
  BY <1>1, <1>2, DetachLinked
<1>4. /\ g.live = h.live /\ g.isReference = h.isReference
      /\ g.stringIsConst = h.stringIsConst
  BY <1>2 DEF DetachItem, Heap
<1>5. HeapOK(g)
  BY <1>1, <1>3, <1>4 DEF HeapOK
<1>6. [par EXCEPT ![i] = NULL] \in [Node -> NodePtr]
  BY <1>1 DEF NodePtr
<1>7. i \in h.live /\ par[i] = p
  BY <1>1, <1>2, MembersOf
<1>8. i \notin R
  BY <1>1, <1>2, <1>7, AddressAssumption DEF Linked, TopItems, Heap
<1> QED BY <1>3, <1>5, <1>6, <1>8 DEF LinksInv

\* cJSON_Delete of an item the client holds.
LEMMA DeleteLinks ==
    ASSUME NEW h, NEW R, LinksInv(h, R), NEW r \in R
    PROVE  LinksInv(Delete(h, r), R \ {r})
<1> DEFINE g == Delete(h, r)
<1>1. PICK par \in [Node -> NodePtr] : HeapOK(h) /\ Linked(h, R, par)
  BY DEF LinksInv
<1>2. h \in Heap /\ r \in Node
  BY <1>1, RootLinks DEF HeapOK
<1>3. g \in Heap /\ Linked(g, R \ {r}, par)
  BY <1>1, <1>2, DeleteLinked
<1>4. /\ g.live = h.live \ Reach(h, {r})
      /\ g.isReference = h.isReference \ Reach(h, {r})
      /\ g.stringIsConst = h.stringIsConst \ Reach(h, {r})
  BY <1>2, DeleteHeap
<1>5. HeapOK(g)
  BY <1>1, <1>3, <1>4 DEF HeapOK
<1> QED BY <1>3, <1>5 DEF LinksInv

\* cJSON_InsertItemInArray before an element of the list.
LEMMA InsertLinks ==
    ASSUME NEW h, NEW R, LinksInv(h, R),
           NEW p \in h.live, p \notin h.isReference,
           NEW a \in Members(h, p), NEW i \in R, p \notin Reach(h, {i})
    PROVE  LinksInv(InsertItemInArray(h, p, a, i), R \ {i})
<1> DEFINE g == InsertItemInArray(h, p, a, i)
<1>1. PICK par \in [Node -> NodePtr] : HeapOK(h) /\ Linked(h, R, par)
  BY DEF LinksInv
<1>2. h \in Heap /\ p \in Node
  BY <1>1 DEF HeapOK, Heap
<1>3. g \in Heap /\ Linked(g, R \ {i}, [par EXCEPT ![i] = p])
  BY <1>1, <1>2, InsertLinked
<1>4. a # NULL
  BY <1>1, <1>2, MembersOf, AddressAssumption DEF Heap
<1>5. /\ g.live = h.live /\ g.isReference = h.isReference
      /\ g.stringIsConst = h.stringIsConst
  BY <1>2, <1>4 DEF InsertItemInArray, Heap
<1>6. HeapOK(g)
  BY <1>1, <1>3, <1>5 DEF HeapOK
<1>7. [par EXCEPT ![i] = p] \in [Node -> NodePtr]
  BY <1>1, <1>2 DEF NodePtr
<1> QED BY <1>3, <1>6, <1>7 DEF LinksInv

\* The relinking half of cJSON_ReplaceItemViaPointer: the client now holds the
\* replaced item.
LEMMA SubstituteLinks ==
    ASSUME NEW h, NEW R, LinksInv(h, R),
           NEW p \in h.live, p \notin h.isReference,
           NEW i \in Members(h, p), NEW r \in R, p \notin Reach(h, {r})
    PROVE  LinksInv(Substitute(h, p, i, r), (R \ {r}) \cup {i})
<1> DEFINE g == Substitute(h, p, i, r)
<1>1. PICK par \in [Node -> NodePtr] : HeapOK(h) /\ Linked(h, R, par)
  BY DEF LinksInv
<1>2. h \in Heap /\ p \in Node
  BY <1>1 DEF HeapOK, Heap
<1>3. g \in Heap /\ Linked(g, (R \ {r}) \cup {i}, [[par EXCEPT ![r] = p] EXCEPT ![i] = NULL])
  BY <1>1, <1>2, SubstituteLinked
<1>4. /\ g.live = h.live /\ g.isReference = h.isReference
      /\ g.stringIsConst = h.stringIsConst
  BY <1>2 DEF Substitute, Heap
<1>5. HeapOK(g)
  BY <1>1, <1>3, <1>4 DEF HeapOK
<1>6. [[par EXCEPT ![r] = p] EXCEPT ![i] = NULL] \in [Node -> NodePtr]
  BY <1>1, <1>2 DEF NodePtr
<1> QED BY <1>3, <1>5, <1>6 DEF LinksInv

\* cJSON_ReplaceItemViaPointer of an element of the list by another item.
LEMMA ReplaceLinks ==
    ASSUME NEW h, NEW R, LinksInv(h, R),
           NEW p \in h.live, p \notin h.isReference,
           NEW i \in Members(h, p), NEW r \in R, p \notin Reach(h, {r})
    PROVE  LinksInv(Delete(Substitute(h, p, i, r), i), R \ {r})
<1>1. LinksInv(Substitute(h, p, i, r), (R \ {r}) \cup {i})
  BY SubstituteLinks
<1>2. i \notin R
  BY DetachLinks
<1>3. ((R \ {r}) \cup {i}) \ {i} = R \ {r}
  BY <1>2
<1> QED BY <1>1, <1>3, DeleteLinks

\* replace_item_in_object renames the replacement, or strips its key.
LEMMA RenameLinks ==
    ASSUME NEW h, NEW R, LinksInv(h, R),
           NEW r \in R, NEW key \in StrPtr, NEW s \in Str \cup {NULL}
    PROVE  LET g == RenameReplacement(h, r, key, s)
           IN  LinksInv(g, R) /\ SameLinks(g, h)
<1> DEFINE clean == FreeString(h, OwnedKey(h, r))
           copied == Strdup(clean, s, key)
           g == RenameReplacement(h, r, key, s)
<1>1. h \in Heap /\ r \in h.live /\ r \in Node /\ h.stringIsConst \subseteq h.live
  BY RootLinks DEF LinksInv, HeapOK
<1>2. OwnedKey(h, r) \in StrPtr
  BY <1>1 DEF OwnedKey, Heap, StrPtr
<1>3. /\ clean \in Heap /\ SameLinks(clean, h)
      /\ clean.string = h.string /\ clean.stringIsConst = h.stringIsConst
  BY <1>1, <1>2, FreeStringHeap
<1> HIDE DEF clean
<1>4. CASE s = NULL
  <2> DEFINE sg == [clean.string EXCEPT ![r] = NULL]
  <2>1. sg \in [Node -> StrPtr] /\ sg = [h.string EXCEPT ![r] = NULL]
    BY <1>1, <1>3 DEF Heap, StrPtr
  <2>2. g = [clean EXCEPT !.string = sg]
    BY <1>3, <1>4 DEF RenameReplacement, clean, Heap
  <2> HIDE DEF sg
  <2>3. clean \in Heap
    BY <1>3
  <2>4. g \in Heap /\ SameLinks(g, clean) /\ g.string = sg
        /\ g.stringIsConst = clean.stringIsConst
    BY <2>1, <2>2, <2>3 DEF Heap, SameLinks
  <2> HIDE DEF g
  <2>5. SameLinks(g, h) /\ g.stringIsConst \subseteq h.live
    BY <1>1, <1>3, <2>4 DEF SameLinks
  <2>6. \A n \in h.live \ R : h.string[n] = NULL => g.string[n] = NULL
    BY <1>1, <2>1, <2>4 DEF Heap
  <2>7. LinksInv(g, R)
    BY <2>4, <2>5, <2>6, SameLinksInv
  <2> QED BY <2>5, <2>7 DEF g
<1>5. CASE s # NULL
  <2>1. /\ copied \in Heap /\ SameLinks(copied, clean)
        /\ copied.string = clean.string /\ copied.stringIsConst = clean.stringIsConst
    BY <1>3, StrdupHeap
  <2> HIDE DEF copied
  <2>2. s \in StrPtr
    BY DEF StrPtr
  <2> DEFINE set == SetKey(copied, r, s, FALSE)
  <2>3. /\ set \in Heap /\ SameLinks(set, copied)
        /\ set.string = [copied.string EXCEPT ![r] = s]
        /\ set.stringIsConst \subseteq copied.stringIsConst \cup {r}
    BY <1>1, <2>1, <2>2, SetKeyHeap
  <2>4. g = set
    BY <1>5 DEF RenameReplacement, clean, copied
  <2> HIDE DEF set, g
  <2>5. SameLinks(g, h) /\ g.stringIsConst \subseteq h.live
    BY <1>1, <1>3, <2>1, <2>3, <2>4 DEF SameLinks
  <2>6. \A n \in h.live \ R : h.string[n] = NULL => g.string[n] = NULL
    BY <1>1, <1>3, <2>1, <2>3, <2>4 DEF Heap
  <2>7. LinksInv(g, R)
    BY <2>3, <2>4, <2>5, <2>6, SameLinksInv
  <2> QED BY <2>5, <2>7 DEF g
<1> QED BY <1>4, <1>5

\* cJSON_Delete(NULL) does nothing.
LEMMA DeleteNull ==
    ASSUME NEW h \in Heap
    PROVE  Delete(h, NULL) = h
<1> DEFINE D == DeleteSet(h, NULL)
           freed == UNION {OwnedStrings(h, n) : n \in D}
<1>1. D = {} /\ freed = {}
  BY DEF DeleteSet
<1>2. DeleteIsSafe(h, NULL, D)
  BY <1>1 DEF DeleteIsSafe
<1>3. /\ Erase(h.next, D, NULL) = h.next /\ Erase(h.prev, D, NULL) = h.prev
      /\ Erase(h.child, D, NULL) = h.child /\ Erase(h.string, D, NULL) = h.string
      /\ Erase(h.type, D, "Invalid") = h.type
      /\ Erase(h.valuestring, D, NULL) = h.valuestring
      /\ Erase(h.text, freed, NULL) = h.text
  BY <1>1 DEF Erase, Heap
<1>4. /\ h.live \ D = h.live /\ h.isReference \ D = h.isReference
      /\ h.stringIsConst \ D = h.stringIsConst
      /\ (h.fault \/ ~DeleteIsSafe(h, NULL, D)) = h.fault
  BY <1>1, <1>2 DEF Heap
<1> HIDE DEF D, freed
<1>5. Delete(h, NULL) =
        [h EXCEPT !.live = h.live \ D,
                  !.next = Erase(h.next, D, NULL), !.prev = Erase(h.prev, D, NULL),
                  !.child = Erase(h.child, D, NULL),
                  !.type = Erase(h.type, D, "Invalid"),
                  !.isReference = h.isReference \ D,
                  !.stringIsConst = h.stringIsConst \ D,
                  !.string = Erase(h.string, D, NULL),
                  !.valuestring = Erase(h.valuestring, D, NULL),
                  !.text = Erase(h.text, freed, NULL),
                  !.fault = h.fault \/ ~DeleteIsSafe(h, NULL, D)]
  BY DEF Delete, D, freed
<1>6. Delete(h, NULL) =
        [h EXCEPT !.live = h.live, !.next = h.next, !.prev = h.prev, !.child = h.child,
                  !.type = h.type, !.isReference = h.isReference,
                  !.stringIsConst = h.stringIsConst, !.string = h.string,
                  !.valuestring = h.valuestring, !.text = h.text, !.fault = h.fault]
  BY <1>3, <1>4, <1>5
<1> QED BY <1>6 DEF Heap

\* cJSON_CreateString with enough memory: a new item that differs from a
\* zeroed one in its type and its value only.
LEMMA CreateStringHeap ==
    ASSUME NEW h \in Heap, NEW n \in Node, NEW s \in Str, NEW p \in Name
    PROVE  LET g == CreateString(h, n, s, p)
           IN  /\ g \in Heap /\ SameLinks(g, NewItem(h, n, "String"))
               /\ g.string = NewItem(h, n, "String").string
               /\ g.stringIsConst = NewItem(h, n, "String").stringIsConst
<1> DEFINE b == NewItem(h, n, "String")
           g == CreateString(h, n, s, p)
           d == Strdup(b, s, p)
           vs == [d.valuestring EXCEPT ![n] = s]
<1>1. n # NULL /\ s # NULL /\ "String" \in Type /\ p \in StrPtr /\ s \in Str \cup {NULL}
  BY AddressAssumption DEF Type, StrPtr
<1>2. b \in Heap
  BY <1>1, NewItemHeap
<1> HIDE DEF b
<1>3. /\ d \in Heap /\ SameLinks(d, b)
      /\ d.string = b.string /\ d.stringIsConst = b.stringIsConst
  BY <1>1, <1>2, StrdupHeap
<1>4. g = [d EXCEPT !.valuestring = vs]
  BY <1>1, <1>3 DEF CreateString, b, Heap
<1> HIDE DEF d
<1>5. vs \in [Node -> StrPtr]
  BY <1>3 DEF Heap, StrPtr
<1> HIDE DEF vs
<1>6. d \in Heap
  BY <1>3
<1>7. /\ g \in Heap /\ SameLinks(g, d)
      /\ g.string = d.string /\ g.stringIsConst = d.stringIsConst
  BY <1>4, <1>5, <1>6 DEF Heap, SameLinks
<1> HIDE DEF g
<1>8. SameLinks(g, b) /\ g.string = b.string /\ g.stringIsConst = b.stringIsConst
  BY <1>3, <1>7 DEF SameLinks
<1> QED BY <1>7, <1>8 DEF g, b

\* cJSON_CreateString: the item has its value, or there is no item.
LEMMA CreateStringLinks ==
    ASSUME NEW h, NEW R, LinksInv(h, R), NEW n \in Node \ h.live,
           NEW s \in Str \cup {NULL}, NEW p \in Name
    PROVE  LinksInv(CreateString(h, n, s, p), IF s = NULL THEN R ELSE R \cup {n})
<1> DEFINE b == NewItem(h, n, "String")
           g == CreateString(h, n, s, p)
<1>1. h \in Heap /\ R \subseteq h.live /\ n # NULL
  BY RootLinks, AddressAssumption
<1>2. "String" \in Type
  BY DEF Type
<1>3. LinksInv(b, R \cup {n})
  BY <1>2, NewItemLinks
<1>4. CASE s = NULL
  <2>1. LinksInv(Delete(b, n), (R \cup {n}) \ {n})
    BY <1>3, DeleteLinks
  <2>2. (R \cup {n}) \ {n} = R
    BY <1>1
  <2> QED BY <1>1, <1>4, <2>1, <2>2 DEF CreateString
<1>5. CASE s # NULL
  <2>1. s \in Str
    BY <1>5
  <2>2. /\ g \in Heap /\ SameLinks(g, b)
        /\ g.string = b.string /\ g.stringIsConst = b.stringIsConst
    BY <1>1, <2>1, CreateStringHeap
  <2>3. b.stringIsConst \subseteq b.live
    BY <1>3 DEF LinksInv, HeapOK
  <2> HIDE DEF b, g
  <2>4. LinksInv(g, R \cup {n})
    BY <1>3, <2>2, <2>3, SameLinksInv
  <2> QED BY <1>5, <2>4 DEF g
<1> QED BY <1>4, <1>5

\* cJSON_SetValuestring touches no link.
LEMMA SetValuestringLinks ==
    ASSUME NEW h, NEW R, LinksInv(h, R), NEW i \in h.live,
           NEW name \in Name, NEW s \in Str \cup {NULL},
           SetValuestringAccepts(h, i)
    PROVE  /\ LinksInv(SetValuestring(h, i, name, s), R)
           /\ SameLinks(SetValuestring(h, i, name, s), h)
<1> DEFINE g == SetValuestring(h, i, name, s)
<1>1. h \in Heap /\ i \in Node /\ h.stringIsConst \subseteq h.live
  BY RootLinks DEF LinksInv, HeapOK
<1>2. /\ g \in Heap /\ SameLinks(g, h) /\ g.string = h.string
      /\ g.stringIsConst = h.stringIsConst
  <2>1. CASE FitsInPlace(h, i, name)
    <3> DEFINE tx == [h.text EXCEPT ![h.valuestring[i]] = name]
    <3>1. tx \in [Str -> Name \cup {NULL}]
      BY <1>1 DEF Heap
    <3>2. g = [h EXCEPT !.text = tx]
      BY <1>1, <2>1 DEF SetValuestring, Heap
    <3> HIDE DEF tx, g
    <3> QED BY <1>1, <3>1, <3>2 DEF Heap, SameLinks
  <2>2. CASE ~FitsInPlace(h, i, name) /\ s = NULL
    BY <1>1, <2>2 DEF SetValuestring, SameLinks
  <2>3. CASE ~FitsInPlace(h, i, name) /\ s # NULL
    <3> DEFINE d == Strdup(h, s, name)
               f == FreeString(d, h.valuestring[i])
               vs == [f.valuestring EXCEPT ![i] = s]
    <3>1. name \in StrPtr /\ h.valuestring[i] \in StrPtr
      BY <1>1 DEF StrPtr, Heap
    <3>2. /\ d \in Heap /\ SameLinks(d, h)
          /\ d.string = h.string /\ d.stringIsConst = h.stringIsConst
      BY <1>1, <3>1, StrdupHeap
    <3> HIDE DEF d
    <3>3. /\ f \in Heap /\ SameLinks(f, d)
          /\ f.string = d.string /\ f.stringIsConst = d.stringIsConst
      BY <3>1, <3>2, FreeStringHeap
    <3>4. g = [f EXCEPT !.valuestring = vs]
      BY <2>3, <3>3 DEF SetValuestring, d, Heap
    <3> HIDE DEF f
    <3>5. vs \in [Node -> StrPtr]
      BY <2>3, <3>3 DEF Heap, StrPtr
    <3> HIDE DEF vs, g
    <3>6. f \in Heap
      BY <3>3
    <3>7. /\ g \in Heap /\ SameLinks(g, f)
          /\ g.string = f.string /\ g.stringIsConst = f.stringIsConst
      BY <3>4, <3>5, <3>6 DEF Heap, SameLinks
    <3> QED BY <3>2, <3>3, <3>7 DEF SameLinks
  <2> QED BY <2>1, <2>2, <2>3
<1> HIDE DEF g
<1>3. LinksInv(g, R)
  BY <1>1, <1>2, SameLinksInv
<1> QED BY <1>2, <1>3 DEF g

\* An item that has just been created and owns nothing is stored, or deleted
\* when its key could not be copied.
LEMMA AddNewLinks ==
    ASSUME NEW h, NEW R, NEW n, n \notin R, LinksInv(h, R \cup {n}),
           h.next[n] = NULL, n \in h.isReference \/ h.child[n] = NULL,
           NEW p \in h.live, p \notin h.isReference, p # n,
           NEW key \in StrPtr, NEW s \in Str \cup {NULL}
    PROVE  LinksInv(AddNewToObjectResult(h, p, key, n, s), R)
<1>1. h \in Heap /\ n \in Node /\ n \in h.live
  BY RootLinks
<1>2. Reach(h, {n}) = {n}
  <2>1. OwnedSucc(h, n) = {}
    BY <1>1 DEF OwnedSucc
  <2> QED BY <1>1, <2>1, ReachAlone
<1>3. p \notin Reach(h, {n}) \ {n} /\ n \in R \cup {n}
  BY <1>2
<1>4. (R \cup {n}) \ {n} = R
  OBVIOUS
<1>5. FALSE \in BOOLEAN
  OBVIOUS
<1>6. LinksInv(AddItemToObject(h, p, key, n, s, FALSE),
               IF AddItemToObjectAccepts(p, n, s, FALSE) THEN (R \cup {n}) \ {n} ELSE R \cup {n})
  BY <1>3, <1>5, AddItemToObjectLinks
<1>7. CASE AddItemToObjectAccepts(p, n, s, FALSE)
  BY <1>4, <1>6, <1>7 DEF AddNewToObjectResult
<1>8. CASE ~AddItemToObjectAccepts(p, n, s, FALSE)
  <2>1. LinksInv(AddItemToObject(h, p, key, n, s, FALSE), R \cup {n})
    BY <1>6, <1>8
  <2>2. LinksInv(Delete(AddItemToObject(h, p, key, n, s, FALSE), n), (R \cup {n}) \ {n})
    BY <1>3, <2>1, DeleteLinks
  <2> QED BY <1>4, <1>8, <2>2 DEF AddNewToObjectResult
<1> QED BY <1>7, <1>8

\* Without an item nothing is stored and nothing is deleted.
LEMMA AddNothingLinks ==
    ASSUME NEW h, NEW R, LinksInv(h, R), NEW p, NEW key, NEW s
    PROVE  LinksInv(AddNewToObjectResult(h, p, key, NULL, s), R)
<1>1. ~AddItemToObjectAccepts(p, NULL, s, FALSE)
  BY DEF AddItemToObjectAccepts, AddItemToArrayAccepts
<1>2. AddNewToObjectResult(h, p, key, NULL, s) = Delete(h, NULL)
  BY <1>1 DEF AddNewToObjectResult, AddItemToObject
<1> QED BY <1>2, RootLinks, DeleteNull

\* cJSON_AddItemReferenceToArray.
LEMMA NewReferenceInArrayLinks ==
    ASSUME NEW h, NEW R, LinksInv(h, R), NEW n \in Node \ h.live, NEW i \in h.live,
           NEW p \in h.live, p \notin h.isReference
    PROVE  LinksInv(AddItemToArray(CreateReference(h, n, i), p, n), R)
<1> DEFINE g == CreateReference(h, n, i)
<1>1. h \in Heap /\ i \in Node /\ n \notin R /\ n # NULL /\ p # n
  BY RootLinks, AddressAssumption
<1>2. LinksInv(g, R \cup {n})
  BY CreateReferenceLinks
<1>3. /\ g \in Heap
      /\ g.live = h.live \cup {n} /\ g.next[n] = NULL /\ g.string[n] = NULL
      /\ g.isReference = h.isReference \cup {n}
  BY <1>1, CreateReferenceHeap
<1> HIDE DEF g
<1>4. Reach(g, {n}) = {n}
  <2>1. OwnedSucc(g, n) = {}
    BY <1>3 DEF OwnedSucc
  <2> QED BY <1>3, <2>1, ReachAlone
<1>5. /\ p \in g.live /\ p \notin g.isReference
      /\ n \in R \cup {n} /\ p \notin Reach(g, {n}) \ {n}
  BY <1>1, <1>3, <1>4
<1>6. LinksInv(AddItemToArray(g, p, n),
               IF AddItemToArrayAccepts(p, n) THEN (R \cup {n}) \ {n} ELSE R \cup {n})
  BY <1>2, <1>5, AddItemToArrayLinks
<1>7. AddItemToArrayAccepts(p, n) /\ (R \cup {n}) \ {n} = R
  BY <1>1 DEF AddItemToArrayAccepts
<1> QED BY <1>6, <1>7 DEF g

\* cJSON_AddItemReferenceToObject: a reference that cannot be named is lost.
LEMMA NewReferenceInObjectLinks ==
    ASSUME NEW h, NEW R, LinksInv(h, R), NEW n \in Node \ h.live, NEW i \in h.live,
           NEW p \in h.live, p \notin h.isReference,
           NEW key \in StrPtr, NEW s \in Str \cup {NULL}
    PROVE  LinksInv(AddItemToObject(CreateReference(h, n, i), p, key, n, s, FALSE), R)
<1> DEFINE g == CreateReference(h, n, i)
<1>1. h \in Heap /\ i \in Node /\ n \notin R /\ p # n /\ FALSE \in BOOLEAN
  BY RootLinks
<1>2. LinksInv(g, R \cup {n})
  BY CreateReferenceLinks
<1>3. /\ g \in Heap
      /\ g.live = h.live \cup {n} /\ g.next[n] = NULL /\ g.string[n] = NULL
      /\ g.isReference = h.isReference \cup {n}
  BY <1>1, CreateReferenceHeap
<1> HIDE DEF g
<1>4. Reach(g, {n}) = {n}
  <2>1. OwnedSucc(g, n) = {}
    BY <1>3 DEF OwnedSucc
  <2> QED BY <1>3, <2>1, ReachAlone
<1>5. /\ p \in g.live /\ p \notin g.isReference
      /\ n \in R \cup {n} /\ p \notin Reach(g, {n}) \ {n}
  BY <1>1, <1>3, <1>4
<1>6. LinksInv(AddItemToObject(g, p, key, n, s, FALSE),
               IF AddItemToObjectAccepts(p, n, s, FALSE)
               THEN (R \cup {n}) \ {n} ELSE R \cup {n})
  BY <1>1, <1>2, <1>5, AddItemToObjectLinks
<1>7. (R \cup {n}) \ {n} = R
  BY <1>1
<1>8. CASE AddItemToObjectAccepts(p, n, s, FALSE)
  BY <1>6, <1>7, <1>8 DEF g
<1>9. CASE ~AddItemToObjectAccepts(p, n, s, FALSE)
  <2>1. AddItemToObject(g, p, key, n, s, FALSE) = g
    BY <1>9 DEF AddItemToObject
  <2>2. LinksInv(g, (R \cup {n}) \ {n})
    BY <1>2, <1>3, <1>5, ForgetLinks
  <2> QED BY <1>7, <2>1, <2>2 DEF g
<1> QED BY <1>8, <1>9

-----------------------------------------------------------------------------
(* The actions *)

\* What a client may pass: the facts about arguments every action shares.
LEMMA ArgumentFacts ==
    ASSUME LinksInv(heap, roots)
    PROVE  /\ heap \in Heap /\ roots \subseteq heap.live /\ heap.live \subseteq Node
           /\ \A p \in Containers : p \in heap.live /\ p \notin heap.isReference
           /\ NewNodes \subseteq (Node \ heap.live) \cup {NULL}
           /\ NewStrings \subseteq Str \cup {NULL}
           /\ Name \subseteq StrPtr
           /\ \A i \in heap.live : KeyArgs(i) \subseteq StrPtr
           /\ \A p \in Containers : \A i \in Storable(p) :
                i \in roots /\ p \notin Reach(heap, {i}) \ {i}
           /\ \A p \in Containers : \A i \in Placeable(p) :
                i \in roots /\ p \notin Reach(heap, {i}) /\ i # p
<1>1. heap \in Heap /\ roots \subseteq heap.live /\ heap.live \subseteq Node
  BY RootLinks
<1>2. /\ NewNodes \subseteq (Node \ heap.live) \cup {NULL}
      /\ NewStrings \subseteq Str \cup {NULL}
  BY DEF NewNodes, NewStrings, FreeNodes, FreeStrings
<1>3. Name \subseteq StrPtr /\ \A i \in heap.live : KeyArgs(i) \subseteq StrPtr
  BY <1>1 DEF KeyArgs, StrPtr, Heap
<1> QED BY <1>1, <1>2, <1>3 DEF Containers, Storable, Placeable

\* cJSON_CreateStringReference makes a reference item.
LEMMA StringReferenceIsItem ==
    ASSUME NEW h \in Heap, NEW n \in Node, NEW name
    PROVE  [NewItem(h, n, "String") EXCEPT !.isReference = @ \cup {n}, !.valuestring[n] = name]
             = ReferenceItem(h, n, "String", NULL, name, {})
<1> DEFINE b == NewItem(h, n, "String")
           vs == [b.valuestring EXCEPT ![n] = name]
           rf == b.isReference \cup {n}
<1>1. "String" \in Type /\ n # NULL
  BY AddressAssumption DEF Type
<1>2. b \in Heap /\ b.child[n] = NULL
  <2>1. b \in Heap
    BY <1>1, NewItemHeap
  <2>2. b.child = [h.child EXCEPT ![n] = NULL]
    BY <1>1 DEF NewItem, Heap
  <2> QED BY <2>1, <2>2 DEF Heap
<1> HIDE DEF b
<1>3. [b.child EXCEPT ![n] = NULL] = b.child /\ b.stringIsConst \cup {} = b.stringIsConst
  BY <1>2 DEF Heap
<1>4. [b EXCEPT !.isReference = @ \cup {n}, !.valuestring[n] = name] =
        [b EXCEPT !.isReference = rf, !.valuestring = vs]
  OBVIOUS
<1>5. ReferenceItem(h, n, "String", NULL, name, {}) =
        [b EXCEPT !.child = [b.child EXCEPT ![n] = NULL], !.valuestring = vs,
                  !.isReference = rf, !.stringIsConst = b.stringIsConst \cup {}]
  BY <1>2 DEF ReferenceItem, b, Heap
<1> HIDE DEF vs, rf
<1>6. ReferenceItem(h, n, "String", NULL, name, {}) =
        [b EXCEPT !.child = b.child, !.valuestring = vs,
                  !.isReference = rf, !.stringIsConst = b.stringIsConst]
  BY <1>3, <1>5
<1>7. ReferenceItem(h, n, "String", NULL, name, {}) =
        [b EXCEPT !.isReference = rf, !.valuestring = vs]
  BY <1>2, <1>6 DEF Heap
<1> QED BY <1>4, <1>7 DEF b

\* cJSON_CreateArrayReference and cJSON_CreateObjectReference make reference items.
LEMMA ContainerReferenceIsItem ==
    ASSUME NEW h \in Heap, NEW n \in Node, NEW t \in Type, NEW c
    PROVE  [NewItem(h, n, t) EXCEPT !.isReference = @ \cup {n}, !.child[n] = c]
             = ReferenceItem(h, n, t, c, NULL, {})
<1> DEFINE b == NewItem(h, n, t)
           ch == [b.child EXCEPT ![n] = c]
           rf == b.isReference \cup {n}
<1>1. b \in Heap /\ b.valuestring[n] = NULL
  <2>1. b \in Heap
    BY NewItemHeap
  <2>2. b.valuestring = [h.valuestring EXCEPT ![n] = NULL]
    BY AddressAssumption DEF NewItem, Heap
  <2> QED BY <2>1, <2>2 DEF Heap
<1> HIDE DEF b
<1>2. /\ [b.valuestring EXCEPT ![n] = NULL] = b.valuestring
      /\ b.stringIsConst \cup {} = b.stringIsConst
  BY <1>1 DEF Heap
<1>3. [b EXCEPT !.isReference = @ \cup {n}, !.child[n] = c] =
        [b EXCEPT !.isReference = rf, !.child = ch]
  OBVIOUS
<1>4. ReferenceItem(h, n, t, c, NULL, {}) =
        [b EXCEPT !.child = ch, !.valuestring = [b.valuestring EXCEPT ![n] = NULL],
                  !.isReference = rf, !.stringIsConst = b.stringIsConst \cup {}]
  BY <1>1 DEF ReferenceItem, b, Heap
<1> HIDE DEF ch, rf
<1>5. ReferenceItem(h, n, t, c, NULL, {}) =
        [b EXCEPT !.child = ch, !.valuestring = b.valuestring,
                  !.isReference = rf, !.stringIsConst = b.stringIsConst]
  BY <1>2, <1>4
<1>6. ReferenceItem(h, n, t, c, NULL, {}) = [b EXCEPT !.isReference = rf, !.child = ch]
  BY <1>1, <1>5 DEF Heap
<1> QED BY <1>3, <1>6 DEF b

\* One call of cJSON_ReplaceItemInObject, its arguments chosen.
ReplaceInObjectStep(p, key, s, cs, r) ==
    LET renamed == RenameReplacement(heap, r, key, s)
        i == GetObjectItem(renamed, p, key, cs)
    IN  IF s = NULL \/ ~ReplaceItemAccepts(renamed, p, i)
        THEN heap' = renamed /\ UNCHANGED roots
        ELSE /\ heap' = ReplaceItemViaPointer(renamed, p, i, r)
             /\ roots' = roots \ {r}

\* The part of the invariant that is about links and flags is inductive.
THEOREM LinksInductive ==
    LinksInv(heap, roots) /\ [Next]_vars => LinksInv(heap', roots')
<1> SUFFICES ASSUME LinksInv(heap, roots), [Next]_vars
             PROVE  LinksInv(heap', roots')
  OBVIOUS
<1>f. /\ heap \in Heap /\ roots \subseteq heap.live /\ heap.live \subseteq Node
      /\ \A p \in Containers : p \in heap.live /\ p \notin heap.isReference
      /\ NewNodes \subseteq (Node \ heap.live) \cup {NULL}
      /\ NewStrings \subseteq Str \cup {NULL}
      /\ Name \subseteq StrPtr
      /\ \A i \in heap.live : KeyArgs(i) \subseteq StrPtr
      /\ \A p \in Containers : \A i \in Storable(p) :
           i \in roots /\ p \notin Reach(heap, {i}) \ {i}
      /\ \A p \in Containers : \A i \in Placeable(p) :
           i \in roots /\ p \notin Reach(heap, {i}) /\ i # p
  BY ArgumentFacts
<1>k. Kind \subseteq Type /\ "String" \in Type /\ NULL \notin Node
  BY FlagsAssumption, AddressAssumption DEF Type
<1>1. CASE CreateItem
  <2>1. PICK n \in NewNodes, t \in Kind :
          heap' = NewItem(heap, n, t) /\ roots' = roots \cup ({n} \ {NULL})
    BY <1>1 DEF CreateItem
  <2>2. CASE n = NULL
    <3>1. heap' = heap /\ roots' = roots
      BY <2>1, <2>2 DEF NewItem
    <3> QED BY <3>1
  <2>3. CASE n # NULL
    <3>1. n \in Node \ heap.live /\ t \in Type /\ roots' = roots \cup {n}
      BY <1>f, <1>k, <2>1, <2>3
    <3>2. LinksInv(NewItem(heap, n, t), roots \cup {n})
      BY <3>1, NewItemLinks
    <3> QED BY <2>1, <3>1, <3>2
  <2> QED BY <2>2, <2>3
<1>2. CASE CreateStringItem
  <2>1. PICK n \in NewNodes, s \in NewStrings, name \in Name :
          /\ heap' = CreateString(heap, n, s, name)
          /\ roots' = IF s = NULL THEN roots ELSE roots \cup ({n} \ {NULL})
    BY <1>2 DEF CreateStringItem
  <2>2. CASE n = NULL
    <3>1. heap' = heap /\ roots' = roots
      BY <2>1, <2>2 DEF CreateString
    <3> QED BY <3>1
  <2>3. CASE n # NULL
    <3>1. n \in Node \ heap.live /\ s \in Str \cup {NULL}
          /\ roots' = IF s = NULL THEN roots ELSE roots \cup {n}
      BY <1>f, <2>1, <2>3
    <3>2. LinksInv(CreateString(heap, n, s, name), IF s = NULL THEN roots ELSE roots \cup {n})
      BY <3>1, CreateStringLinks
    <3> QED BY <2>1, <3>1, <3>2
  <2> QED BY <2>2, <2>3
<1>3. CASE CreateStringReference
  <2>1. PICK n \in FreeNodes(heap), name \in Name :
          /\ heap' = [NewItem(heap, n, "String") EXCEPT
                        !.isReference = @ \cup {n}, !.valuestring[n] = name]
          /\ roots' = roots \cup {n}
    BY <1>3 DEF CreateStringReference
  <2>2. n \in Node \ heap.live
    BY DEF FreeNodes
  <2>3. heap' = ReferenceItem(heap, n, "String", NULL, name, {})
    BY <1>f, <2>1, <2>2, StringReferenceIsItem
  <2>4. NULL \in NodePtr /\ name \in StrPtr /\ {} \in SUBSET {n}
    BY <1>f DEF NodePtr
  <2>5. LinksInv(ReferenceItem(heap, n, "String", NULL, name, {}), roots \cup {n})
    BY <1>k, <2>2, <2>4, ReferenceItemLinks
  <2> QED BY <2>1, <2>3, <2>5
<1>4. CASE CreateContainerReference
  <2>1. PICK n \in FreeNodes(heap), t \in ContainerType, c \in heap.live :
          /\ heap' = [NewItem(heap, n, t) EXCEPT
                        !.isReference = @ \cup {n}, !.child[n] = c]
          /\ roots' = roots \cup {n}
    BY <1>4 DEF CreateContainerReference
  <2>2. n \in Node \ heap.live /\ t \in Type /\ c \in NodePtr
    BY <1>f DEF FreeNodes, ContainerType, Type, NodePtr
  <2>3. heap' = ReferenceItem(heap, n, t, c, NULL, {})
    BY <1>f, <2>1, <2>2, ContainerReferenceIsItem
  <2>4. NULL \in StrPtr /\ {} \in SUBSET {n}
    BY DEF StrPtr
  <2>5. LinksInv(ReferenceItem(heap, n, t, c, NULL, {}), roots \cup {n})
    BY <2>2, <2>4, ReferenceItemLinks
  <2> QED BY <2>1, <2>3, <2>5
<1>5. CASE DeleteRoot
  <2>1. PICK item \in roots : heap' = Delete(heap, item) /\ roots' = roots \ {item}
    BY <1>5 DEF DeleteRoot
  <2> QED BY <2>1, DeleteLinks
<1>6. CASE AddToArray
  <2>1. PICK p \in Containers : \E i \in Storable(p) :
          /\ heap' = AddItemToArray(heap, p, i)
          /\ roots' = IF AddItemToArrayAccepts(p, i) THEN roots \ {i} ELSE roots
    BY <1>6 DEF AddToArray
  <2>2. PICK i \in Storable(p) :
          /\ heap' = AddItemToArray(heap, p, i)
          /\ roots' = IF AddItemToArrayAccepts(p, i) THEN roots \ {i} ELSE roots
    BY <2>1
  <2>3. /\ p \in heap.live /\ p \notin heap.isReference
        /\ i \in roots /\ p \notin Reach(heap, {i}) \ {i}
    BY <1>f
  <2>4. LinksInv(AddItemToArray(heap, p, i),
                 IF AddItemToArrayAccepts(p, i) THEN roots \ {i} ELSE roots)
    BY <2>3, AddItemToArrayLinks
  <2> QED BY <2>2, <2>4
<1>7. CASE AddToObject
  <2>1. PICK p \in Containers : \E i \in Storable(p), s \in NewStrings : \E key \in KeyArgs(i) :
          /\ heap' = AddItemToObject(heap, p, key, i, s, FALSE)
          /\ roots' = IF AddItemToObjectAccepts(p, i, s, FALSE) THEN roots \ {i} ELSE roots
    BY <1>7 DEF AddToObject
  <2>2. PICK i \in Storable(p), s \in NewStrings : \E key \in KeyArgs(i) :
          /\ heap' = AddItemToObject(heap, p, key, i, s, FALSE)
          /\ roots' = IF AddItemToObjectAccepts(p, i, s, FALSE) THEN roots \ {i} ELSE roots
    BY <2>1
  <2>3. PICK key \in KeyArgs(i) :
          /\ heap' = AddItemToObject(heap, p, key, i, s, FALSE)
          /\ roots' = IF AddItemToObjectAccepts(p, i, s, FALSE) THEN roots \ {i} ELSE roots
    BY <2>2
  <2>4. /\ p \in heap.live /\ p \notin heap.isReference
        /\ i \in roots /\ p \notin Reach(heap, {i}) \ {i}
        /\ key \in StrPtr /\ s \in Str \cup {NULL} /\ FALSE \in BOOLEAN
    BY <1>f
  <2>5. LinksInv(AddItemToObject(heap, p, key, i, s, FALSE),
                 IF AddItemToObjectAccepts(p, i, s, FALSE) THEN roots \ {i} ELSE roots)
    BY <2>4, AddItemToObjectLinks
  <2> QED BY <2>3, <2>5
<1>8. CASE AddToObjectCS
  <2>1. PICK p \in Containers : \E i \in Storable(p), key \in Name :
          /\ heap' = AddItemToObject(heap, p, key, i, NULL, TRUE)
          /\ roots' = IF AddItemToObjectAccepts(p, i, NULL, TRUE) THEN roots \ {i} ELSE roots
    BY <1>8 DEF AddToObjectCS
  <2>2. PICK i \in Storable(p), key \in Name :
          /\ heap' = AddItemToObject(heap, p, key, i, NULL, TRUE)
          /\ roots' = IF AddItemToObjectAccepts(p, i, NULL, TRUE) THEN roots \ {i} ELSE roots
    BY <2>1
  <2>3. /\ p \in heap.live /\ p \notin heap.isReference
        /\ i \in roots /\ p \notin Reach(heap, {i}) \ {i}
        /\ key \in StrPtr /\ NULL \in Str \cup {NULL} /\ TRUE \in BOOLEAN
    BY <1>f
  <2>4. LinksInv(AddItemToObject(heap, p, key, i, NULL, TRUE),
                 IF AddItemToObjectAccepts(p, i, NULL, TRUE) THEN roots \ {i} ELSE roots)
    BY <2>3, AddItemToObjectLinks
  <2> QED BY <2>2, <2>4
<1>9. CASE AddReferenceToArray
  <2>1. PICK p \in Containers, i \in heap.live, n \in NewNodes :
          heap' = AddItemToArray(CreateReference(heap, n, i), p, n) /\ roots' = roots
    BY <1>9 DEF AddReferenceToArray
  <2>2. CASE n = NULL
    <3>1. heap' = heap
      BY <2>1, <2>2 DEF AddItemToArray, AddItemToArrayAccepts, CreateReference
    <3> QED BY <2>1, <3>1
  <2>3. CASE n # NULL
    <3>1. n \in Node \ heap.live /\ p \in heap.live /\ p \notin heap.isReference
      BY <1>f, <2>3
    <3>2. LinksInv(AddItemToArray(CreateReference(heap, n, i), p, n), roots)
      BY <3>1, NewReferenceInArrayLinks
    <3> QED BY <2>1, <3>2
  <2> QED BY <2>2, <2>3
<1>10. CASE AddReferenceToObject
  <2>1. PICK p \in Containers, i \in heap.live, n \in NewNodes, s \in NewStrings, key \in Name :
          /\ heap' = AddItemToObject(CreateReference(heap, n, i), p, key, n, s, FALSE)
          /\ roots' = roots
    BY <1>10 DEF AddReferenceToObject
  <2>2. CASE n = NULL
    <3>1. heap' = heap
      BY <2>1, <2>2 DEF AddItemToObject, AddItemToObjectAccepts, AddItemToArrayAccepts,
                        CreateReference
    <3> QED BY <2>1, <3>1
  <2>3. CASE n # NULL
    <3>1. /\ n \in Node \ heap.live /\ p \in heap.live /\ p \notin heap.isReference
          /\ key \in StrPtr /\ s \in Str \cup {NULL}
      BY <1>f, <2>3
    <3>2. LinksInv(AddItemToObject(CreateReference(heap, n, i), p, key, n, s, FALSE), roots)
      BY <3>1, NewReferenceInObjectLinks
    <3> QED BY <2>1, <3>2
  <2> QED BY <2>2, <2>3
<1>11. CASE AddNewToObject
  <2>1. PICK p \in Containers, n \in NewNodes, s \in NewStrings, key \in Name, t \in Kind :
          /\ heap' = AddNewToObjectResult(NewItem(heap, n, t), p, key, n, s)
          /\ roots' = roots
    BY <1>11 DEF AddNewToObject
  <2>2. CASE n = NULL
    <3>1. NewItem(heap, n, t) = heap
      BY <2>2 DEF NewItem
    <3> QED BY <2>1, <2>2, <3>1, AddNothingLinks
  <2>3. CASE n # NULL
    <3> DEFINE g == NewItem(heap, n, t)
    <3>1. /\ n \in Node \ heap.live /\ n \notin roots /\ t \in Type
          /\ p \in heap.live /\ p \notin heap.isReference /\ p # n
          /\ key \in StrPtr /\ s \in Str \cup {NULL}
      BY <1>f, <1>k, <2>3
    <3>2. LinksInv(g, roots \cup {n})
      BY <3>1, NewItemLinks
    <3>3. /\ g \in Heap
          /\ g.live = heap.live \cup {n}
          /\ g.next = [heap.next EXCEPT ![n] = NULL]
          /\ g.prev = [heap.prev EXCEPT ![n] = NULL]
          /\ g.child = [heap.child EXCEPT ![n] = NULL]
          /\ g.string = [heap.string EXCEPT ![n] = NULL]
          /\ g.isReference = heap.isReference \ {n}
          /\ g.stringIsConst = heap.stringIsConst \ {n}
      BY <1>f, <3>1, NewItemHeap
    <3> HIDE DEF g
    <3>4. g.next[n] = NULL /\ g.child[n] = NULL
          /\ p \in g.live /\ p \notin g.isReference
      BY <1>f, <3>1, <3>3 DEF Heap
    <3>5. LinksInv(AddNewToObjectResult(g, p, key, n, s), roots)
      BY <3>1, <3>2, <3>4, AddNewLinks
    <3> QED BY <2>1, <3>5 DEF g
  <2> QED BY <2>2, <2>3
<1>12. CASE AddStringToObject
  <2>1. PICK p \in Containers, n \in NewNodes, v \in NewStrings, key \in Name, value \in Name :
          \E s \in (NewStrings \ {v}) \cup (IF MayFail THEN {NULL} ELSE {}) :
            /\ heap' = AddNewToObjectResult(CreateString(heap, n, v, value), p, key,
                                            IF v = NULL THEN NULL ELSE n, s)
            /\ roots' = roots
    BY <1>12 DEF AddStringToObject
  <2>2. PICK s \in (NewStrings \ {v}) \cup (IF MayFail THEN {NULL} ELSE {}) :
            /\ heap' = AddNewToObjectResult(CreateString(heap, n, v, value), p, key,
                                            IF v = NULL THEN NULL ELSE n, s)
            /\ roots' = roots
    BY <2>1
  <2>3. /\ p \in heap.live /\ p \notin heap.isReference
        /\ key \in StrPtr /\ v \in Str \cup {NULL}
    BY <1>f
  <2>4. s \in Str \cup {NULL}
    BY <1>f
  <2>5. CASE n = NULL
    <3>1. CreateString(heap, n, v, value) = heap /\ (IF v = NULL THEN NULL ELSE n) = NULL
      BY <2>5 DEF CreateString
    <3> QED BY <2>2, <3>1, AddNothingLinks
  <2>6. CASE n # NULL
    <3> DEFINE g == CreateString(heap, n, v, value)
    <3>1. n \in Node \ heap.live /\ n \notin roots /\ p # n
      BY <1>f, <2>3, <2>6
    <3>2. LinksInv(g, IF v = NULL THEN roots ELSE roots \cup {n})
      BY <2>3, <3>1, CreateStringLinks
    <3> HIDE DEF g
    <3>3. CASE v = NULL
      <4>1. LinksInv(g, roots)
        BY <3>2, <3>3
      <4>2. heap' = AddNewToObjectResult(g, p, key, NULL, s)
        BY <2>2, <3>3 DEF g
      <4> QED BY <2>2, <4>1, <4>2, AddNothingLinks
    <3>4. CASE v # NULL
      <4> DEFINE b == NewItem(heap, n, "String")
      <4>1. /\ b \in Heap
            /\ b.live = heap.live \cup {n}
            /\ b.next = [heap.next EXCEPT ![n] = NULL]
            /\ b.prev = [heap.prev EXCEPT ![n] = NULL]
            /\ b.child = [heap.child EXCEPT ![n] = NULL]
            /\ b.string = [heap.string EXCEPT ![n] = NULL]
            /\ b.isReference = heap.isReference \ {n}
            /\ b.stringIsConst = heap.stringIsConst \ {n}
        BY SMTT(30), <1>f, <1>k, <3>1, NewItemHeap
      <4>2. v \in Str
        BY <2>3, <3>4
      <4>3. /\ g \in Heap /\ SameLinks(g, b)
            /\ g.string = b.string /\ g.stringIsConst = b.stringIsConst
        BY <1>f, <3>1, <4>2, CreateStringHeap DEF g
      <4> HIDE DEF b
      <4>4. /\ g.next[n] = NULL /\ g.child[n] = NULL
            /\ p \in g.live /\ p \notin g.isReference
        BY <1>f, <2>3, <3>1, <4>1, <4>3 DEF SameLinks, Heap
      <4>5. /\ LinksInv(g, roots \cup {n}) /\ g.next[n] = NULL /\ g.child[n] = NULL
            /\ p \in g.live /\ p \notin g.isReference
        BY <3>2, <3>4, <4>4
      <4>6. heap' = AddNewToObjectResult(g, p, key, n, s)
        BY <2>2, <3>4 DEF g
      <4>7. LinksInv(AddNewToObjectResult(g, p, key, n, s), roots)
        BY <2>3, <2>4, <3>1, <4>5, AddNewLinks
      <4> QED BY <2>2, <4>6, <4>7
    <3> QED BY <3>3, <3>4
  <2> QED BY <2>5, <2>6
<1>13. CASE InsertIntoArray
  <2>1. PICK p \in Containers : \E after \in Members(heap, p) \cup {NULL} :
          \E i \in IF after = NULL THEN Storable(p) ELSE Placeable(p) :
            /\ heap' = InsertItemInArray(heap, p, after, i)
            /\ roots' = IF p = i THEN roots ELSE roots \ {i}
    BY <1>13 DEF InsertIntoArray
  <2>2. PICK after \in Members(heap, p) \cup {NULL} :
          \E i \in IF after = NULL THEN Storable(p) ELSE Placeable(p) :
            /\ heap' = InsertItemInArray(heap, p, after, i)
            /\ roots' = IF p = i THEN roots ELSE roots \ {i}
    BY <2>1
  <2>3. PICK i \in IF after = NULL THEN Storable(p) ELSE Placeable(p) :
            /\ heap' = InsertItemInArray(heap, p, after, i)
            /\ roots' = IF p = i THEN roots ELSE roots \ {i}
    BY <2>2
  <2>4. p \in heap.live /\ p \notin heap.isReference
    BY <1>f
  <2>5. CASE after = NULL
    <3>1. i \in roots /\ p \notin Reach(heap, {i}) \ {i} /\ i # NULL
      BY <1>f, <1>k, <2>5
    <3>2. LinksInv(AddItemToArray(heap, p, i),
                   IF AddItemToArrayAccepts(p, i) THEN roots \ {i} ELSE roots)
      BY <2>4, <3>1, AddItemToArrayLinks
    <3> QED BY <2>3, <2>5, <3>1, <3>2 DEF InsertItemInArray, AddItemToArrayAccepts
  <2>6. CASE after # NULL
    <3>1. i \in roots /\ p \notin Reach(heap, {i}) /\ i # p /\ after \in Members(heap, p)
      BY <1>f, <2>6
    <3>2. LinksInv(InsertItemInArray(heap, p, after, i), roots \ {i})
      BY <2>4, <3>1, InsertLinks
    <3> QED BY <2>3, <3>1, <3>2
  <2> QED BY <2>5, <2>6
<1>14. CASE Detach
  <2>1. PICK p \in Containers : \E i \in Members(heap, p) :
          heap' = DetachItem(heap, p, i) /\ roots' = roots \cup {i}
    BY <1>14 DEF Detach
  <2>2. PICK i \in Members(heap, p) :
          heap' = DetachItem(heap, p, i) /\ roots' = roots \cup {i}
    BY <2>1
  <2>3. p \in heap.live /\ p \notin heap.isReference
    BY <1>f
  <2> QED BY <2>2, <2>3, DetachLinks
<1>15. CASE DeleteFromContainer
  <2>1. PICK p \in Containers : \E i \in Members(heap, p) :
          heap' = Delete(DetachItem(heap, p, i), i) /\ roots' = roots
    BY <1>15 DEF DeleteFromContainer
  <2>2. PICK i \in Members(heap, p) :
          heap' = Delete(DetachItem(heap, p, i), i) /\ roots' = roots
    BY <2>1
  <2>3. p \in heap.live /\ p \notin heap.isReference
    BY <1>f
  <2>4. LinksInv(DetachItem(heap, p, i), roots \cup {i}) /\ i \notin roots
    BY <2>3, DetachLinks
  <2>5. LinksInv(Delete(DetachItem(heap, p, i), i), (roots \cup {i}) \ {i})
    BY <2>4, DeleteLinks
  <2>6. (roots \cup {i}) \ {i} = roots
    BY <2>4
  <2> QED BY <2>2, <2>5, <2>6
<1>16. CASE ReplaceItem
  <2>1. PICK p \in Containers : \E i \in Members(heap, p) \cup {NULL} :
          \E r \in Placeable(p) \cup ({i} \ {NULL}) :
            /\ heap' = ReplaceItemViaPointer(heap, p, i, r)
            /\ roots' = IF ReplaceItemAccepts(heap, p, i) THEN roots \ {r} ELSE roots
    BY <1>16 DEF ReplaceItem
  <2>2. PICK i \in Members(heap, p) \cup {NULL} :
          \E r \in Placeable(p) \cup ({i} \ {NULL}) :
            /\ heap' = ReplaceItemViaPointer(heap, p, i, r)
            /\ roots' = IF ReplaceItemAccepts(heap, p, i) THEN roots \ {r} ELSE roots
    BY <2>1
  <2>3. PICK r \in Placeable(p) \cup ({i} \ {NULL}) :
            /\ heap' = ReplaceItemViaPointer(heap, p, i, r)
            /\ roots' = IF ReplaceItemAccepts(heap, p, i) THEN roots \ {r} ELSE roots
    BY <2>2
  <2>4. p \in heap.live /\ p \notin heap.isReference
    BY <1>f
  <2>5. CASE ~ReplaceItemAccepts(heap, p, i)
    BY <2>3, <2>5 DEF ReplaceItemViaPointer
  <2>6. CASE ReplaceItemAccepts(heap, p, i)
    <3>1. i \in Members(heap, p)
      BY <2>6 DEF ReplaceItemAccepts
    <3>2. i \notin roots
      BY <2>4, <3>1, DetachLinks
    <3>3. CASE r = i
      BY <2>3, <2>6, <3>2, <3>3 DEF ReplaceItemViaPointer
    <3>4. CASE r # i
      <4>1. r \in roots /\ p \notin Reach(heap, {r})
        BY <1>f, <3>4
      <4>2. LinksInv(Delete(Substitute(heap, p, i, r), i), roots \ {r})
        BY <2>4, <3>1, <4>1, ReplaceLinks
      <4> QED BY <2>3, <2>6, <3>4, <4>2 DEF ReplaceItemViaPointer
    <3> QED BY <3>3, <3>4
  <2> QED BY <2>5, <2>6
<1>17. CASE ReplaceInObject
  <2>1. PICK p \in Containers, key \in Name, s \in NewStrings, cs \in BOOLEAN :
          \E r \in Placeable(p) : ReplaceInObjectStep(p, key, s, cs, r)
    BY <1>17 DEF ReplaceInObject, ReplaceInObjectStep
  <2>2. PICK r \in Placeable(p) : ReplaceInObjectStep(p, key, s, cs, r)
    BY <2>1
  <2> DEFINE g == RenameReplacement(heap, r, key, s)
             i == GetObjectItem(g, p, key, cs)
  <2>3. /\ p \in heap.live /\ p \notin heap.isReference
        /\ r \in roots /\ p \notin Reach(heap, {r})
        /\ key \in StrPtr /\ s \in Str \cup {NULL}
    BY <1>f
  <2>4. LinksInv(g, roots) /\ SameLinks(g, heap)
    BY <2>3, RenameLinks
  <2>5. i \in Members(g, p) \cup {NULL}
    BY DEF GetObjectItem
  <2>6. \/ heap' = g /\ roots' = roots
        \/ /\ ReplaceItemAccepts(g, p, i)
           /\ heap' = ReplaceItemViaPointer(g, p, i, r) /\ roots' = roots \ {r}
    BY <2>2 DEF ReplaceInObjectStep
  <2> HIDE DEF g, i
  <2>7. CASE heap' = g /\ roots' = roots
    BY <2>4, <2>7
  <2>8. CASE /\ ReplaceItemAccepts(g, p, i)
             /\ heap' = ReplaceItemViaPointer(g, p, i, r) /\ roots' = roots \ {r}
    <3>1. i \in Members(g, p)
      BY <2>5, <2>8 DEF ReplaceItemAccepts
    <3>2. p \in g.live /\ p \notin g.isReference /\ p \notin Reach(g, {r})
      BY <2>3, <2>4, SameReach DEF SameLinks
    <3>3. i \notin roots
      BY <2>4, <3>1, <3>2, DetachLinks
    <3>4. LinksInv(Delete(Substitute(g, p, i, r), i), roots \ {r})
      BY <2>3, <2>4, <3>1, <3>2, ReplaceLinks
    <3> QED BY <2>3, <2>8, <3>3, <3>4 DEF ReplaceItemViaPointer
  <2> QED BY <2>6, <2>7, <2>8
<1>18. CASE SetString
  <2>1. PICK i \in heap.live, name \in Name, s \in NewStrings :
          /\ SetValuestringAccepts(heap, i)
          /\ heap' = SetValuestring(heap, i, name, s) /\ roots' = roots
    BY <1>18 DEF SetString
  <2>2. s \in Str \cup {NULL}
    BY <1>f
  <2> QED BY <2>1, <2>2, SetValuestringLinks
<1>19. CASE UNCHANGED vars
  BY <1>19 DEF vars
<1> QED BY <1>1, <1>2, <1>3, <1>4, <1>5, <1>6, <1>7, <1>8, <1>9, <1>10, <1>11, <1>12,
           <1>13, <1>14, <1>15, <1>16, <1>17, <1>18, <1>19 DEF Next

-----------------------------------------------------------------------------
(* The theorems *)

\* The library starts with nothing allocated.
LEMMA LinksInit == Init => LinksInv(heap, roots)
<1> SUFFICES ASSUME Init PROVE LinksInv(heap, roots)
  OBVIOUS
<1> DEFINE par == [n \in Node |-> NULL]
<1>1. heap \in Heap
  BY DEF Init, EmptyHeap, Heap, NodePtr, StrPtr, Type
<1>2. heap.live = {} /\ heap.isReference = {} /\ heap.stringIsConst = {} /\ roots = {}
  BY DEF Init, EmptyHeap
<1>3. par \in [Node -> NodePtr]
  BY DEF NodePtr
<1> HIDE DEF par
<1>4. Linked(heap, roots, par)
  BY <1>2, <1>3 DEF Linked, TopItems, Listed, Forward, FirstChild, OneTail, Reached
<1> QED BY <1>1, <1>2, <1>3, <1>4 DEF LinksInv, HeapOK

\* Every reachable heap has its child lists linked as cJSON_Delete, the walks
\* and the constant-time append need them.
THEOREM LinksInvariant == Spec => []LinksInv(heap, roots)
<1>1. Init => LinksInv(heap, roots)
  BY LinksInit
<1>2. LinksInv(heap, roots) /\ [Next]_vars => LinksInv(heap, roots)'
  BY LinksInductive
<1> QED BY <1>1, <1>2, PTL DEF Spec

\* Types and flags: every reachable heap has the shape of a heap, and flags
\* and client pointers are about allocated nodes.
THEOREM TypeCorrect == Spec => []TypeOK
<1>1. LinksInv(heap, roots) => TypeOK
  BY DEF LinksInv, HeapOK, Linked, TopItems, TypeOK
<1> QED BY <1>1, LinksInvariant, PTL

\* What the invariant says of lists is what ListsWellLinked says.
LEMMA LinksGiveLists == LinksInv(heap, roots) => ListsWellLinked
<1> SUFFICES ASSUME LinksInv(heap, roots) PROVE ListsWellLinked
  OBVIOUS
<1>1. PICK par \in [Node -> NodePtr] : heap \in Heap /\ Linked(heap, roots, par)
  BY DEF LinksInv, HeapOK
<1>2. /\ TopItems(heap, roots, par) /\ Listed(heap, par) /\ Forward(heap, par)
      /\ FirstChild(heap, par)
  BY <1>1 DEF Linked
<1>3. \A n \in heap.live : heap.next[n] # NULL =>
        heap.next[n] \in heap.live /\ heap.prev[heap.next[n]] = n
  BY <1>2 DEF Forward
<1>4. ASSUME NEW p \in Owners
      PROVE  /\ heap.child[p] \in heap.live
             /\ heap.prev[heap.child[p]] \in Members(heap, p)
             /\ heap.next[heap.prev[heap.child[p]]] = NULL
  <2>1. p \in heap.live /\ p \notin heap.isReference /\ heap.child[p] # NULL /\ p # NULL
    BY <1>1, AddressAssumption DEF Owners, Heap
  <2>2. heap.child[p] \in heap.live /\ par[heap.child[p]] = p
    BY <1>2, <2>1 DEF FirstChild
  <2>3. /\ heap.prev[heap.child[p]] \in heap.live /\ par[heap.prev[heap.child[p]]] = p
        /\ heap.next[heap.prev[heap.child[p]]] = NULL
    BY <1>2, <2>1, <2>2 DEF Listed
  <2>4. Members(heap, p) = {n \in heap.live : par[n] = p}
    BY <1>1, <2>1, MembersOf
  <2> QED BY <2>2, <2>3, <2>4
<1>5. \A r \in roots : heap.next[r] = NULL /\ heap.prev[r] = NULL
  BY RootLinks
<1> QED BY <1>3, <1>4, <1>5 DEF ListsWellLinked

\* Whatever sequence of calls a client makes, and whichever allocations fail,
\* every child list stays doubly linked and circular in prev, without links
\* to freed memory.
THEOREM ListsAlwaysWellLinked == Spec => []ListsWellLinked
  BY LinksInvariant, LinksGiveLists, PTL

\* In linked lists every item has one pointer that owns it.
LEMMA LinkedApart ==
    ASSUME NEW h \in Heap, NEW R, NEW par, Linked(h, R, par),
           NEW n \in h.live, NEW m \in h.live, n # m
    PROVE  OwnedSucc(h, n) \cap OwnedSucc(h, m) = {}
<1> SUFFICES ASSUME NEW x \in OwnedSucc(h, n) \cap OwnedSucc(h, m) PROVE FALSE
  OBVIOUS
<1>1. Forward(h, par) /\ FirstChild(h, par)
  BY DEF Linked
<1>2. /\ x # NULL
      /\ x = h.next[n] \/ (n \notin h.isReference /\ x = h.child[n])
      /\ x = h.next[m] \/ (m \notin h.isReference /\ x = h.child[m])
  BY DEF OwnedSucc
<1>3. x = h.next[n] => h.prev[x] = n /\ par[x] = par[n] /\ h.child[par[n]] # x
  BY <1>1, <1>2 DEF Forward
<1>4. x = h.next[m] => h.prev[x] = m /\ par[x] = par[m] /\ h.child[par[m]] # x
  BY <1>1, <1>2 DEF Forward
<1>5. n \notin h.isReference /\ x = h.child[n] => par[x] = n
  BY <1>1, <1>2 DEF FirstChild
<1>6. m \notin h.isReference /\ x = h.child[m] => par[x] = m
  BY <1>1, <1>2 DEF FirstChild
<1> QED BY <1>2, <1>3, <1>4, <1>5, <1>6

\* In linked lists no two owned pointers meet.
LEMMA LinksGiveSingleOwner == LinksInv(heap, roots) => SingleOwner
<1> SUFFICES ASSUME LinksInv(heap, roots) PROVE SingleOwner
  OBVIOUS
<1>1. PICK par \in [Node -> NodePtr] : heap \in Heap /\ Linked(heap, roots, par)
  BY DEF LinksInv, HeapOK
<1>2. /\ TopItems(heap, roots, par) /\ Forward(heap, par) /\ FirstChild(heap, par)
      /\ NULL \notin heap.live
  BY <1>1, AddressAssumption DEF Linked, Heap
<1>3. \A n, m \in heap.live : n # m => OwnedSucc(heap, n) \cap OwnedSucc(heap, m) = {}
  BY <1>1, LinkedApart
<1>4. \A n \in Owners : heap.next[n] # heap.child[n]
  BY <1>2 DEF Owners, Forward, FirstChild
<1>5. ASSUME NEW n \in heap.live, NEW x \in OwnedSucc(heap, n) \cap roots
      PROVE  FALSE
  <2>1. /\ x # NULL /\ x \in roots
        /\ x = heap.next[n] \/ (n \notin heap.isReference /\ x = heap.child[n])
    BY DEF OwnedSucc
  <2>2. par[x] = NULL /\ heap.prev[x] = NULL
    BY <1>2, <2>1 DEF TopItems
  <2> QED BY <1>2, <2>1, <2>2 DEF Forward, FirstChild
<1> QED BY <1>3, <1>4, <1>5 DEF SingleOwner

\* No call ever makes two owners share an item, or leaves the client with an
\* item that a tree also owns.
THEOREM AlwaysSingleOwner == Spec => []SingleOwner
  BY LinksInvariant, LinksGiveSingleOwner, PTL

\* An item the roots do not lead to is a reference that got no name.
LEMMA LinksGiveNothingLost == LinksInv(heap, roots) => OnlyReferencesLost
<1> SUFFICES ASSUME LinksInv(heap, roots) PROVE OnlyReferencesLost
  OBVIOUS
<1>1. PICK par \in [Node -> NodePtr] : heap \in Heap /\ Linked(heap, roots, par)
  BY DEF LinksInv, HeapOK
<1>2. TopItems(heap, roots, par) /\ heap.live \subseteq Reach(heap, Tops(heap, par))
      /\ heap.live \subseteq Node /\ roots \subseteq heap.live
  BY <1>1 DEF Linked, Reached, Heap, TopItems
<1> DEFINE Unnamed == {n \in heap.live : /\ n \in heap.isReference /\ heap.string[n] = NULL
                                        /\ heap.next[n] = NULL}
           C == Reach(heap, roots) \cup Unnamed
<1>3. /\ Reach(heap, roots) \in SUBSET Node /\ roots \subseteq Reach(heap, roots)
      /\ Closed(heap, Reach(heap, roots))
  BY <1>1, <1>2, ReachClosed
<1>4. C \in SUBSET Node
  BY <1>2, <1>3
<1>5. Closed(heap, C)
  <2>1. \A n \in Unnamed : OwnedSucc(heap, n) = {}
    BY DEF OwnedSucc
  <2> QED BY <1>3, <2>1 DEF Closed
<1>6. Tops(heap, par) \subseteq C
  BY <1>2, <1>3 DEF Tops, TopItems
<1>7. Reach(heap, Tops(heap, par)) \subseteq C
  <2> HIDE DEF C
  <2> QED BY <1>4, <1>5, <1>6, ReachLeast
<1>8. \A n \in Lost : n \in Unnamed
  BY <1>2, <1>7 DEF Lost
<1> QED BY <1>8 DEF OnlyReferencesLost

\* Failed allocations never lose an item, but for the reference that
\* cJSON_AddItemReferenceToObject creates before it copies the key.
THEOREM AlwaysOnlyReferencesLost == Spec => []OnlyReferencesLost
  BY LinksInvariant, LinksGiveNothingLost, PTL
=============================================================================
