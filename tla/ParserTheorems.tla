--------------------------- MODULE ParserTheorems ---------------------------
(***************************************************************************)
(* The theorems about the parser, for every set of texts, nesting limit    *)
(* and allocator: it stays inside its buffer; it hands out one complete    *)
(* tree or nothing at all, whatever fails on the way; while memory lasts   *)
(* it accepts exactly the texts of the grammar; and the tree it hands out  *)
(* says what the text says, item for item.                                 *)
(***************************************************************************)
EXTENDS JsonText, LeastNumber, SequenceTheorems

\* Where the parser stands between two steps.  An element or a name is begun
\* only where a symbol is left; a value may begin at the end of the text.
Place ==
    /\ text \in Seq(Symbol) /\ offset \in 0..Len(text)
    /\ pc \in {"start", "value", "after", "element", "key", "fail", "done"}
    /\ pc \in {"element", "key"} => CanAccess(offset)
    /\ pc \notin {"start", "done"} => text # <<>>
    /\ errorAt = NULL \/ errorAt \in 0..(Len(text) - 1) \/ (errorAt = 0 /\ text = <<>>)

-----------------------------------------------------------------------------

LEMMA AfterBlanksAhead ==
    ASSUME text \in Seq(Symbol), NEW o \in 0..Len(text)
    PROVE  AfterBlanks(o) \in o..Len(text)
<1> DEFINE ends == {k \in o..Len(text) : CanAccess(k) => ~Blank(text[k + 1])}
<1>1. Len(text) \in Nat /\ Len(text) \in ends
  BY DEF CanAccess
<1>2. ends \in SUBSET Nat /\ ends \subseteq o..Len(text)
  BY <1>1
<1>3. AfterBlanks(o) = CHOOSE k \in ends : \A j \in ends : k <= j
  BY DEF AfterBlanks
<1> HIDE DEF ends
<1>4. \E k \in ends : \A j \in ends : k <= j
  BY <1>1, <1>2, LeastElement
<1> QED BY <1>2, <1>3, <1>4

\* Skipping blanks goes forward, stays inside, and ends on a symbol wherever it
\* began on one.
LEMMA SkipWhitespaceInside ==
    ASSUME text \in Seq(Symbol), NEW o \in 0..Len(text)
    PROVE  /\ SkipWhitespace(o) \in o..Len(text)
           /\ CanAccess(o) => CanAccess(SkipWhitespace(o))
<1>1. AfterBlanks(o) \in o..Len(text) /\ Len(text) \in Nat
  BY AfterBlanksAhead
<1> QED BY <1>1 DEF SkipWhitespace, CanAccess

\* The reported position is inside the text.
LEMMA ErrorInside ==
    ASSUME text \in Seq(Symbol), NEW o \in 0..Len(text)
    PROVE  ErrorPosition(o) \in 0..(Len(text) - 1) \/ (ErrorPosition(o) = 0 /\ text = <<>>)
<1>1. Len(text) \in Nat /\ (text # <<>> => Len(text) > 0)
  OBVIOUS
<1> QED BY <1>1 DEF ErrorPosition, CanAccess

\* What a step that ends the parse leaves.
LEMMA FinishPlace ==
    ASSUME text \in Seq(Symbol), NEW o \in 0..Len(text), NEW h,
           Finish(h, o), UNCHANGED buffer
    PROVE  Place'
<1>1. /\ text' = text /\ offset' = o /\ pc' = "done" /\ errorAt' = ErrorPosition(o)
  BY DEF Finish, GoTo, buffer
<1> QED BY <1>1, ErrorInside DEF Place

\* Every other step goes on at a place inside the text.
LEMMA GoOn ==
    ASSUME Place, NEW label, NEW o \in 0..Len(text), GoTo(label, o),
           label \in {"value", "after", "element", "key", "fail"},
           label \in {"element", "key"} => CanAccess(o),
           text # <<>>, UNCHANGED buffer, errorAt' \in {errorAt, NULL}
    PROVE  Place'
<1>1. text' = text /\ offset' = o /\ pc' = label
  BY DEF GoTo, buffer
<1> QED BY <1>1 DEF Place, CanAccess

LEMMA PlaceInductive == Place /\ [Next]_vars => Place'
<1> SUFFICES ASSUME Place, [Next]_vars PROVE Place'
  OBVIOUS
<1> USE DEF Unstacked
<1>t. text \in Seq(Symbol) /\ Len(text) \in Nat /\ offset \in 0..Len(text)
  BY DEF Place
<1>w. \A o \in 0..Len(text) : /\ SkipWhitespace(o) \in o..Len(text)
                              /\ CanAccess(o) => CanAccess(SkipWhitespace(o))
  BY <1>t, SkipWhitespaceInside
<1>a. CanAccess(offset) => offset + 1 \in 0..Len(text)
  BY <1>t DEF CanAccess
<1>1. CASE Begin
  <2>1. CASE Finish(heap, 0)
    BY <1>1, <1>t, <2>1, FinishPlace DEF Begin
  <2>2. CASE GoTo("value", SkipWhitespace(SkipBom)) /\ text # <<>> /\ errorAt' = NULL
    <3>1. SkipBom \in 0..Len(text)
      BY <1>t DEF SkipBom, Is, CanAccess
    <3>2. SkipWhitespace(SkipBom) \in 0..Len(text)
      BY <3>1, <1>w, <1>t
    <3>3. UNCHANGED buffer
      BY <1>1 DEF Begin
    <3> QED BY <2>2, <3>2, <3>3, GoOn
  <2> QED BY <1>1, <2>1, <2>2 DEF Begin
<1>2. CASE End
  <2> DEFINE o == IF required THEN SkipWhitespace(offset) ELSE offset
  <2>1. o \in 0..Len(text)
    BY <1>w, <1>t
  <2>2. CASE Finish(heap, o)
    BY <1>2, <1>t, <2>1, <2>2, FinishPlace DEF End
  <2>3. CASE GoTo("done", o) /\ UNCHANGED <<heap, root, errorAt>>
    <3>1. text' = text /\ offset' = o /\ pc' = "done" /\ errorAt' = errorAt
      BY <1>2, <2>3 DEF End, GoTo, buffer
    <3> HIDE DEF o
    <3> QED BY <3>1, <2>1 DEF Place
  <2> QED BY <1>2, <2>2, <2>3 DEF End
<1>3. CASE Unwind
  <2>1. CASE Finish(heap, offset)
    BY <1>3, <1>t, <2>1, FinishPlace DEF Unwind
  <2>2. CASE UNCHANGED <<root, offset, pc, errorAt>>
    BY <1>3, <2>2 DEF Unwind, buffer, Place, CanAccess
  <2> QED BY <1>3, <2>1, <2>2 DEF Unwind
<1>n. ASSUME pc # "start", pc # "done" PROVE text # <<>>
  BY <1>n DEF Place
<1>4. CASE Literal
  BY <1>4, <1>t, <1>a, <1>n, GoOn DEF Literal, Is
<1>5. CASE Number
  BY <1>5, <1>t, <1>a, <1>n, GoOn DEF Number, Is
<1>6. CASE String
  BY <1>6, <1>t, <1>a, <1>n, GoOn DEF String
<1>7. ASSUME NEW kind \in {"Array", "Object"}, Open(kind) PROVE Place'
  <2> DEFINE o == SkipWhitespace(offset + 1)
  <2>1. /\ UNCHANGED buffer /\ errorAt' = errorAt /\ text # <<>>
    BY <1>7, <1>n DEF Open
  <2>2. CanAccess(offset) /\ offset + 1 \in 0..Len(text) /\ o \in (offset + 1)..Len(text)
    BY <1>7, <1>a, <1>w, <1>t DEF Open, Is
  <2>3. o - 1 \in 0..Len(text) /\ (CanAccess(o) => o + 1 \in 0..Len(text)) /\ CanAccess(o - 1)
    BY <2>2, <1>t DEF CanAccess
  <2>4. \/ GoTo("fail", offset)
        \/ GoTo("after", o + 1) /\ CanAccess(o)
        \/ GoTo("fail", o - 1)
        \/ GoTo("element", o - 1)
    BY <1>7 DEF Open, Is
  <2> HIDE DEF o
  <2> QED BY <2>1, <2>2, <2>3, <2>4, <1>t, GoOn
<1>8. CASE NoValue
  BY <1>8, <1>t, <1>n, GoOn DEF NoValue
<1>9. CASE Element
  <2>1. /\ UNCHANGED buffer /\ errorAt' = errorAt /\ text # <<>> /\ CanAccess(offset)
    BY <1>9, <1>n DEF Element, Place
  <2>2. /\ SkipWhitespace(offset + 1) \in 0..Len(text)
        /\ KeyMayFollow => CanAccess(SkipWhitespace(offset + 1))
    BY <2>1, <1>a, <1>w, <1>t DEF KeyMayFollow
  <2>3. \/ GoTo("fail", offset)
        \/ GoTo("value", SkipWhitespace(offset + 1))
        \/ GoTo("key", SkipWhitespace(offset + 1)) /\ KeyMayFollow
    BY <1>9 DEF Element
  <2> QED BY <2>1, <2>2, <2>3, <1>t, GoOn
<1>10. CASE Key
  <2> DEFINE o == SkipWhitespace(offset + 1)
  <2>1. /\ UNCHANGED buffer /\ errorAt' = errorAt /\ text # <<>> /\ CanAccess(offset)
    BY <1>10, <1>n DEF Key, Place
  <2>2. offset + 1 \in 0..Len(text) /\ o \in 0..Len(text)
    BY <2>1, <1>a, <1>w, <1>t
  <2>3. Is(o, ":") => SkipWhitespace(o + 1) \in 0..Len(text)
    <3>1. CanAccess(o) => o + 1 \in 0..Len(text)
      BY <2>2, <1>t DEF CanAccess
    <3> QED BY <3>1, <1>w, <1>t DEF Is
  <2>4. \/ GoTo("fail", offset + 1)
        \/ GoTo("value", SkipWhitespace(o + 1)) /\ Is(o, ":")
        \/ GoTo("fail", o)
    BY <1>10 DEF Key
  <2> HIDE DEF o
  <2> QED BY <2>1, <2>2, <2>3, <2>4, GoOn
<1>11. CASE AfterValue
  <2> DEFINE o == SkipWhitespace(offset)
  <2>1. /\ UNCHANGED buffer /\ errorAt' = errorAt /\ text # <<>>
    BY <1>11, <1>n DEF AfterValue
  <2>2. o \in 0..Len(text) /\ (CanAccess(o) => o + 1 \in 0..Len(text))
    BY <1>w, <1>t DEF CanAccess
  <2>3. \/ GoTo("element", o) /\ CanAccess(o)
        \/ GoTo("after", o + 1) /\ CanAccess(o)
        \/ GoTo("fail", o)
    BY <1>11 DEF AfterValue, Is
  <2> HIDE DEF o
  <2> QED BY <2>1, <2>2, <2>3, GoOn
<1>12. CASE UNCHANGED vars
  BY <1>12 DEF vars, Place, CanAccess
<1> QED BY <1>1, <1>2, <1>3, <1>4, <1>5, <1>6, <1>7, <1>8, <1>9, <1>10, <1>11, <1>12 DEF Next

LEMMA PlaceInit == Init => Place
<1> SUFFICES ASSUME Init PROVE Place
  OBVIOUS
<1>1. text \in Seq(Symbol) /\ Len(text) \in Nat
  BY TextAssumption DEF Init
<1> QED BY <1>1 DEF Init, Place

\* Whatever the text, and whichever allocation fails, the parser's offset
\* never leaves the buffer, a name is begun only where there is something to
\* read, and a reported error lies inside the text.
THEOREM ParserStaysInside == Spec => []InsideBuffer
<1>1. Place => InsideBuffer
  BY DEF Place, InsideBuffer
<1> QED BY <1>1, PlaceInit, PlaceInductive, PTL DEF Spec

-----------------------------------------------------------------------------
(* What the parser has built.  The list of a frame hangs in the air until   *)
(* CloseList; here it belongs to the item of the frame from its first       *)
(* element on.                                                              *)

FrameType == [kind : ContainerType, item : Node, head : NodePtr, current : NodePtr]

\* n begins the list of p, finished or not
Begins(h, st, p, n) ==
    n # NULL /\ (h.child[p] = n \/ \E i \in 1..Len(st) : st[i].item = p /\ st[i].head = n)

Follows(h, st, m, n) == h.next[m] = n \/ Begins(h, st, m, n)

\* Whatever follows an item was made after it.
Ordered(h, st, age) ==
    \A m \in h.live, n \in Node : Follows(h, st, m, n) => n \in h.live /\ age[m] < age[n]

\* Every item but the root follows exactly one other, in one way.
OnePlace(h, st, r) ==
    /\ \A m \in h.live, n \in Node : ~(h.next[m] = n /\ Begins(h, st, m, n))
    /\ \A k, m \in h.live, n \in Node :
        Follows(h, st, k, n) /\ Follows(h, st, m, n) => k = m
    /\ \A m \in h.live : ~Follows(h, st, m, r)
    /\ \A n \in h.live : n # r => \E m \in h.live : Follows(h, st, m, n)

BackLinked(h) == \A m \in h.live : h.next[m] # NULL => h.prev[h.next[m]] = m

\* A finished list knows its tail, and no list in progress goes on from there.
TailOf(h, p) == h.prev[h.child[p]]

Tails(h, st) ==
    \A p \in h.live : h.child[p] # NULL =>
        /\ TailOf(h, p) \in h.live /\ TailOf(h, p) \in ListFrom(h, h.child[p])
        /\ h.next[TailOf(h, p)] = NULL
        /\ \A i \in 1..Len(st) : st[i].current # TailOf(h, p)

\* A list in progress runs from head to current.
Unfinished(h, f, age) ==
    /\ f.item \in h.live /\ h.child[f.item] = NULL
    /\ (f.head = NULL) = (f.current = NULL)
    /\ f.head # NULL =>
        /\ f.head \in h.live /\ f.current \in h.live
        /\ h.next[f.current] = NULL /\ f.current \in ListFrom(h, f.head)
        /\ age[f.head] <= age[f.current]

\* Each frame but the innermost has an element, which is no younger than the
\* items of the frames above it.
Frames(h, st, age) ==
    /\ st \in Seq(FrameType)
    /\ \A i \in 1..Len(st) : Unfinished(h, st[i], age)
    /\ \A i, j \in 1..Len(st) : i < j =>
        st[i].head # NULL /\ age[st[i].current] <= age[st[j].item]

Shaped(h, st, r, age) ==
    /\ Ordered(h, st, age) /\ OnePlace(h, st, r) /\ BackLinked(h)
    /\ Tails(h, st) /\ Frames(h, st, age)

Structure(h, st, r) == r \in h.live /\ \E age \in [Node -> Nat] : Shaped(h, st, r, age)

\* Items are no references and own each its strings; what is free is blank.
Plain(h) == h \in Heap /\ h.isReference = {} /\ h.stringIsConst = {} /\ ~h.fault

FreedIsBlank(h) ==
    \A n \in Node \ h.live :
        /\ h.next[n] = NULL /\ h.prev[n] = NULL /\ h.child[n] = NULL
        /\ h.type[n] = "Invalid" /\ h.string[n] = NULL /\ h.valuestring[n] = NULL

OwnsString(h, n, s) == s # NULL /\ (h.string[n] = s \/ h.valuestring[n] = s)

StringsOwned(h) ==
    /\ \A n \in h.live, s \in StrPtr : OwnsString(h, n, s) => s \in Str /\ h.text[s] # NULL
    /\ \A n \in h.live : h.string[n] = NULL \/ h.string[n] # h.valuestring[n]
    /\ \A m, n \in h.live, s \in Str : OwnsString(h, m, s) /\ OwnsString(h, n, s) => m = n
    /\ \A s \in Str : h.text[s] # NULL => \E n \in h.live : OwnsString(h, n, s)

Memory(h) == Plain(h) /\ FreedIsBlank(h) /\ StringsOwned(h)

Built == Memory(heap) /\ Structure(heap, stack, root)

\* What each label expects of the item that a value or a name is parsed into.
Ownership ==
    /\ pc = "start" => heap = EmptyHeap /\ root = NULL /\ stack = <<>>
    /\ pc = "done" => stack = <<>> /\ (root = NULL => heap = EmptyHeap)
    /\ pc # "start" /\ (pc = "done" => root # NULL) => Built
    /\ pc \in {"element", "key"} => stack # <<>>
    /\ pc \in {"value", "after", "key"} /\ stack # <<>> => Top.head # NULL
    /\ pc \in {"value", "key"} => heap.child[Target] = NULL /\ heap.valuestring[Target] = NULL
    /\ pc = "key" => heap.string[Target] = NULL

-----------------------------------------------------------------------------
(* The stack *)

\* A stack that is not empty is its top on what is below.
LEMMA StackSplits ==
    ASSUME NEW S, stack \in Seq(S), stack # <<>>
    PROVE  Below \in Seq(S) /\ Top \in S /\ stack = Append(Below, Top)
<1>1. Len(stack) \in Nat /\ Len(stack) >= 1 /\ stack[Len(stack)] \in S
  OBVIOUS
<1>2. /\ Below \in Seq(S) /\ Len(Below) = Len(stack) - 1
      /\ \A i \in 1..Len(Below) : Below[i] = stack[i]
  <2> DEFINE k == Len(stack) - 1
  <2>1. k \in Nat /\ k \in Int /\ 1 \in Int /\ \A i \in 1..k : stack[i] \in S
    BY <1>1
  <2> HIDE DEF k
  <2>2. /\ SubSeq(stack, 1, k) \in Seq(S)
        /\ Len(SubSeq(stack, 1, k)) = IF 1 <= k THEN k - 1 + 1 ELSE 0
        /\ \A i \in 1..(k - 1 + 1) : SubSeq(stack, 1, k)[i] = stack[1 + i - 1]
    BY <2>1, SubSeqProperties
  <2>3. /\ SubSeq(stack, 1, k) \in Seq(S) /\ Len(SubSeq(stack, 1, k)) = k
        /\ \A i \in 1..k : SubSeq(stack, 1, k)[i] = stack[i]
    BY <2>1, <2>2
  <2> QED BY <2>3 DEF Below, k
<1>3. /\ Append(Below, Top) \in Seq(S) /\ Len(Append(Below, Top)) = Len(stack)
      /\ \A i \in 1..Len(stack) : Append(Below, Top)[i] = stack[i]
  BY <1>1, <1>2 DEF Top
<1>4. stack = Append(Below, Top)
  BY <1>3, SeqEqual
<1> QED BY <1>1, <1>2, <1>4 DEF Top

\* One more frame.
LEMMA Pushed ==
    ASSUME NEW b \in Seq(FrameType), NEW f \in FrameType
    PROVE  /\ Append(b, f) \in Seq(FrameType) /\ Append(b, f) # <<>>
           /\ Len(b) \in Nat /\ Len(Append(b, f)) = Len(b) + 1
           /\ \A i \in 1..Len(b) : Append(b, f)[i] = b[i] /\ b[i] \in FrameType
           /\ Append(b, f)[Len(b) + 1] = f
OBVIOUS

LEMMA PushBegins ==
    ASSUME NEW h, NEW b \in Seq(FrameType), NEW f \in FrameType, NEW p, NEW n
    PROVE  Begins(h, Append(b, f), p, n)
               <=> Begins(h, b, p, n) \/ (n # NULL /\ f.item = p /\ f.head = n)
<1> DEFINE su == Append(b, f)
<1>1. /\ Len(b) \in Nat /\ Len(su) = Len(b) + 1 /\ su[Len(b) + 1] = f
      /\ \A i \in 1..Len(b) : su[i] = b[i]
  BY Pushed
<1> HIDE DEF su
<1>2. (\E i \in 1..Len(su) : su[i].item = p /\ su[i].head = n)
        <=> \/ \E i \in 1..Len(b) : b[i].item = p /\ b[i].head = n
            \/ f.item = p /\ f.head = n
  <2>1. 1..Len(su) = 1..Len(b) \cup {Len(b) + 1}
    BY <1>1
  <2> QED BY <1>1, <2>1
<1>3. Begins(h, su, p, n)
        <=> Begins(h, b, p, n) \/ (n # NULL /\ f.item = p /\ f.head = n)
  BY <1>2 DEF Begins
<1> QED BY <1>3 DEF su

LEMMA PushFrames ==
    ASSUME NEW h, NEW b \in Seq(FrameType), NEW f \in FrameType, NEW age
    PROVE  Frames(h, Append(b, f), age)
               <=> /\ Frames(h, b, age) /\ Unfinished(h, f, age)
                   /\ \A i \in 1..Len(b) :
                        b[i].head # NULL /\ age[b[i].current] <= age[f.item]
<1> DEFINE su == Append(b, f)
<1>1. /\ Len(b) \in Nat /\ Len(su) = Len(b) + 1 /\ su[Len(b) + 1] = f
      /\ \A i \in 1..Len(b) : su[i] = b[i]
      /\ su \in Seq(FrameType)
  BY Pushed
<1> HIDE DEF su
<1>2. 1..Len(su) = 1..Len(b) \cup {Len(b) + 1}
  BY <1>1
<1>3. (\A i \in 1..Len(su) : Unfinished(h, su[i], age))
        <=> (\A i \in 1..Len(b) : Unfinished(h, b[i], age)) /\ Unfinished(h, f, age)
  BY <1>1, <1>2
<1>4. (\A i, j \in 1..Len(su) : i < j =>
            su[i].head # NULL /\ age[su[i].current] <= age[su[j].item])
        <=> /\ \A i, j \in 1..Len(b) : i < j =>
                b[i].head # NULL /\ age[b[i].current] <= age[b[j].item]
            /\ \A i \in 1..Len(b) : b[i].head # NULL /\ age[b[i].current] <= age[f.item]
  <2>1. ASSUME \A i, j \in 1..Len(su) : i < j =>
                su[i].head # NULL /\ age[su[i].current] <= age[su[j].item]
        PROVE  /\ \A i, j \in 1..Len(b) : i < j =>
                    b[i].head # NULL /\ age[b[i].current] <= age[b[j].item]
               /\ \A i \in 1..Len(b) : b[i].head # NULL /\ age[b[i].current] <= age[f.item]
    <3>1. \A i \in 1..Len(b) : i < Len(b) + 1
      BY <1>1
    <3> QED BY <1>1, <1>2, <2>1, <3>1, Zenon
  <2>2. ASSUME \A i, j \in 1..Len(b) : i < j =>
                b[i].head # NULL /\ age[b[i].current] <= age[b[j].item],
               \A i \in 1..Len(b) : b[i].head # NULL /\ age[b[i].current] <= age[f.item],
               NEW i \in 1..Len(su), NEW j \in 1..Len(su), i < j
        PROVE  su[i].head # NULL /\ age[su[i].current] <= age[su[j].item]
    <3>1. i \in 1..Len(b) /\ su[i] = b[i]
      BY <1>1, <2>2
    <3>2. CASE j \in 1..Len(b)
      BY <1>1, <2>2, <3>1, <3>2, Zenon
    <3>3. CASE j = Len(b) + 1
      BY <1>1, <2>2, <3>1, <3>3, Zenon
    <3> QED BY <1>2, <3>2, <3>3
  <2> QED BY <2>1, <2>2, Zenon
<1>5. Frames(h, su, age)
        <=> /\ Frames(h, b, age) /\ Unfinished(h, f, age)
            /\ \A i \in 1..Len(b) : b[i].head # NULL /\ age[b[i].current] <= age[f.item]
  BY <1>1, <1>3, <1>4, Zenon DEF Frames
<1> QED BY <1>5 DEF su

LEMMA PushTails ==
    ASSUME NEW h, NEW b \in Seq(FrameType), NEW f \in FrameType
    PROVE  Tails(h, Append(b, f))
               <=> /\ Tails(h, b)
                   /\ \A p \in h.live : h.child[p] # NULL => f.current # TailOf(h, p)
<1> DEFINE su == Append(b, f)
<1>1. /\ Len(b) \in Nat /\ Len(su) = Len(b) + 1 /\ su[Len(b) + 1] = f
      /\ \A i \in 1..Len(b) : su[i] = b[i]
  BY Pushed
<1> HIDE DEF su
<1>2. 1..Len(su) = 1..Len(b) \cup {Len(b) + 1}
  BY <1>1
<1>3. \A x : (\A i \in 1..Len(su) : su[i].current # x)
                <=> (\A i \in 1..Len(b) : b[i].current # x) /\ f.current # x
  BY <1>1, <1>2
<1>4. Tails(h, su) <=> /\ Tails(h, b)
                       /\ \A p \in h.live : h.child[p] # NULL => f.current # TailOf(h, p)
  BY <1>3, Zenon DEF Tails
<1> QED BY <1>4 DEF su

-----------------------------------------------------------------------------
(* The lists *)

\* What the invariant says of a heap and its fields.
LEMMA LinkTypes ==
    ASSUME NEW h \in Heap
    PROVE  /\ h.live \in SUBSET Node /\ NULL \notin h.live
           /\ h.next \in [Node -> NodePtr] /\ h.prev \in [Node -> NodePtr]
           /\ h.child \in [Node -> NodePtr]
BY AddressAssumption DEF Heap

\* A walk over a list stays in every set that is closed under next.
LEMMA ListLeast ==
    ASSUME NEW h, NEW n, NEW C \in SUBSET Node, n \in C, ListClosed(h, C)
    PROVE  ListFrom(h, n) \subseteq C
BY DEF ListFrom

\* Steps that add no item and move no link.
LEMMA SameShape ==
    ASSUME NEW g, NEW h, NEW st, NEW r, NEW age, Shaped(h, st, r, age),
           g.live = h.live, g.next = h.next, g.prev = h.prev, g.child = h.child
    PROVE  Shaped(g, st, r, age)
<1>1. \A m, n : Begins(g, st, m, n) <=> Begins(h, st, m, n)
  BY DEF Begins
<1>2. \A m, n : Follows(g, st, m, n) <=> Follows(h, st, m, n)
  BY <1>1 DEF Follows
<1>3. \A n : ListFrom(g, n) = ListFrom(h, n)
  BY DEF ListFrom, ListClosed
<1>4. Ordered(g, st, age) /\ OnePlace(g, st, r)
  BY <1>1, <1>2 DEF Shaped, Ordered, OnePlace
<1>5. BackLinked(g)
  BY DEF Shaped, BackLinked
<1>6. Tails(g, st)
  BY <1>3 DEF Shaped, Tails, TailOf
<1>7. Frames(g, st, age)
  <2>1. \A f : Unfinished(h, f, age) => Unfinished(g, f, age)
    BY <1>3 DEF Unfinished
  <2> QED BY <2>1 DEF Shaped, Frames
<1> QED BY <1>4, <1>5, <1>6, <1>7 DEF Shaped

\* The items of the stack, from the outermost list in: each is older than the
\* first element of its list, and that no younger than the last.
LEMMA OldestFirst ==
    ASSUME NEW h \in Heap, NEW b \in Seq(FrameType), NEW f \in FrameType, NEW r,
           NEW age \in [Node -> Nat], Shaped(h, Append(b, f), r, age)
    PROVE  /\ f.item \in h.live /\ h.child[f.item] = NULL
           /\ f.head # NULL =>
                /\ f.head \in h.live /\ f.current \in h.live
                /\ age[f.item] < age[f.head] /\ age[f.head] <= age[f.current]
           /\ \A i \in 1..Len(b) :
                /\ b[i].item \in h.live /\ b[i].head \in h.live /\ b[i].current \in h.live
                /\ age[b[i].item] < age[b[i].head] /\ age[b[i].head] <= age[b[i].current]
                /\ age[b[i].current] <= age[f.item]
<1>1. /\ Frames(h, b, age) /\ Unfinished(h, f, age)
      /\ \A i \in 1..Len(b) : b[i].head # NULL /\ age[b[i].current] <= age[f.item]
  BY PushFrames DEF Shaped
<1>2. \A m \in h.live, n \in Node : Begins(h, Append(b, f), m, n) => age[m] < age[n]
  BY DEF Shaped, Ordered, Follows
<1>3. h.live \subseteq Node
  BY LinkTypes
<1>4. f.head # NULL => age[f.item] < age[f.head]
  <2>1. f.head # NULL => Begins(h, Append(b, f), f.item, f.head)
    BY PushBegins
  <2> QED BY <1>1, <1>2, <1>3, <2>1 DEF Unfinished
<1>5. ASSUME NEW i \in 1..Len(b)
      PROVE  /\ b[i].item \in h.live /\ b[i].head \in h.live /\ b[i].current \in h.live
             /\ age[b[i].item] < age[b[i].head] /\ age[b[i].head] <= age[b[i].current]
  <2>1. Unfinished(h, b[i], age) /\ b[i].head # NULL
    BY <1>1 DEF Frames
  <2>2. Begins(h, Append(b, f), b[i].item, b[i].head)
    BY <2>1, PushBegins DEF Begins
  <2> QED BY <1>2, <1>3, <2>1, <2>2 DEF Unfinished
<1> QED BY <1>1, <1>4, <1>5 DEF Unfinished

\* No two frames share an item, and no two lists their last element.
LEMMA FramesApart ==
    ASSUME NEW h \in Heap, NEW b \in Seq(FrameType), NEW f \in FrameType, NEW r,
           NEW age \in [Node -> Nat], Shaped(h, Append(b, f), r, age)
    PROVE  \A i \in 1..Len(b) :
                b[i].item # f.item /\ (f.head # NULL => b[i].current # f.current)
<1> SUFFICES ASSUME NEW i \in 1..Len(b)
             PROVE  b[i].item # f.item /\ (f.head # NULL => b[i].current # f.current)
  OBVIOUS
<1>1. /\ b[i].item \in h.live /\ b[i].head \in h.live /\ b[i].current \in h.live
      /\ f.item \in h.live
      /\ age[b[i].item] < age[b[i].head] /\ age[b[i].head] <= age[b[i].current]
      /\ age[b[i].current] <= age[f.item]
      /\ f.head # NULL => /\ f.head \in h.live /\ f.current \in h.live
                          /\ age[f.item] < age[f.head] /\ age[f.head] <= age[f.current]
  BY OldestFirst
<1>2. \A n \in h.live : age[n] \in Nat
  BY LinkTypes
<1>3. age[b[i].item] < age[f.item]
  BY <1>1, <1>2
<1>4. ASSUME f.head # NULL PROVE age[b[i].current] < age[f.current]
  <2>1. /\ age[b[i].current] \in Nat /\ age[f.item] \in Nat /\ age[f.head] \in Nat
        /\ age[f.current] \in Nat
    BY <1>1, <1>2, <1>4
  <2> QED BY <1>1, <1>4, <2>1
<1> QED BY <1>1, <1>2, <1>3, <1>4

\* The current item of the innermost list is the youngest of the currents.
LEMMA CurrentLast ==
    ASSUME NEW h \in Heap, NEW b \in Seq(FrameType), NEW f \in FrameType, NEW r,
           NEW age \in [Node -> Nat], Shaped(h, Append(b, f), r, age), f.head # NULL
    PROVE  LET st == Append(b, f)
           IN  \A i \in 1..Len(st) : st[i].head # NULL /\ age[st[i].current] <= age[f.current]
<1> DEFINE st == Append(b, f)
<1> USE LinkTypes
<1>1. /\ f.current \in h.live /\ age[f.item] < age[f.head] /\ age[f.head] <= age[f.current]
      /\ f.item \in h.live /\ f.head \in h.live
      /\ \A i \in 1..Len(b) : /\ b[i].head # NULL /\ b[i].current \in h.live
                              /\ age[b[i].current] <= age[f.item]
  BY OldestFirst
<1>2. /\ Len(b) \in Nat /\ Len(st) = Len(b) + 1 /\ st[Len(b) + 1] = f
      /\ \A i \in 1..Len(b) : st[i] = b[i]
  BY Pushed
<1> HIDE DEF st
<1>3. \A n \in h.live : age[n] \in Nat
  OBVIOUS
<1>4. ASSUME NEW i \in 1..Len(b) PROVE st[i].head # NULL /\ age[st[i].current] <= age[f.current]
  <2>1. /\ age[b[i].current] \in Nat /\ age[f.item] \in Nat /\ age[f.head] \in Nat
        /\ age[f.current] \in Nat /\ b[i].head # NULL /\ age[b[i].current] <= age[f.item]
    BY <1>1, <1>3
  <2>2. age[b[i].current] <= age[f.current]
    BY <1>1, <2>1
  <2> QED BY <1>2, <2>1, <2>2
<1>5. f.head # NULL /\ age[f.current] <= age[f.current]
  BY <1>1, <1>3
<1>6. \A i \in 1..Len(st) : i \in 1..Len(b) \/ i = Len(b) + 1
  BY <1>2
<1>7. \A i \in 1..Len(st) : st[i].head # NULL /\ age[st[i].current] <= age[f.current]
  BY <1>2, <1>4, <1>5, <1>6
<1> QED BY <1>7 DEF st

\* A frame for the item that the running parse_value fills.
LEMMA OpenShape ==
    ASSUME NEW h \in Heap, NEW st \in Seq(FrameType), NEW r,
           NEW age \in [Node -> Nat], Shaped(h, st, r, age),
           NEW kind \in ContainerType, NEW t \in h.live, h.child[t] = NULL,
           \A i \in 1..Len(st) : st[i].head # NULL /\ age[st[i].current] <= age[t]
    PROVE  /\ Append(st, Frame(kind, t)) \in Seq(FrameType)
           /\ Shaped(h, Append(st, Frame(kind, t)), r, age)
<1> DEFINE f == Frame(kind, t)
           su == Append(st, f)
<1> USE LinkTypes
<1>f. /\ f \in FrameType /\ f.item = t /\ f.head = NULL /\ f.current = NULL
  BY DEF Frame, FrameType, NodePtr
<1> HIDE DEF f
<1>1. \A m, n : Begins(h, su, m, n) <=> Begins(h, st, m, n)
  BY <1>f, PushBegins
<1>2. Ordered(h, su, age) /\ OnePlace(h, su, r) /\ BackLinked(h)
  BY <1>1 DEF Shaped, Ordered, OnePlace, Follows
<1>3. Tails(h, su)
  BY <1>f, PushTails DEF Shaped, Tails
<1>4. Unfinished(h, f, age)
  BY <1>f DEF Unfinished
<1>5. Frames(h, su, age)
  BY <1>4, <1>f, PushFrames DEF Shaped
<1> QED BY <1>2, <1>3, <1>5, <1>f, Pushed DEF Shaped, f

\* The end of a list: its frame goes, the item gets its child, the first
\* element the tail.
LEMMA CloseShape ==
    ASSUME NEW h \in Heap, NEW g \in Heap, NEW b \in Seq(FrameType), NEW f \in FrameType,
           NEW r, NEW age \in [Node -> Nat], Shaped(h, Append(b, f), r, age),
           f.head # NULL, g.live = h.live, g.next = h.next,
           g.prev = [h.prev EXCEPT ![f.head] = f.current],
           g.child = [h.child EXCEPT ![f.item] = f.head]
    PROVE  Shaped(g, b, r, age)
<1> DEFINE st == Append(b, f)
<1> USE LinkTypes
<1>f. /\ f.item \in h.live /\ h.child[f.item] = NULL /\ f.head \in h.live /\ f.current \in h.live
      /\ h.next[f.current] = NULL /\ f.current \in ListFrom(h, f.head)
      /\ age[f.item] < age[f.head] /\ age[f.head] <= age[f.current]
      /\ \A i \in 1..Len(b) :
            /\ b[i].item \in h.live /\ b[i].head \in h.live /\ b[i].current \in h.live
            /\ age[b[i].item] < age[b[i].head] /\ age[b[i].head] <= age[b[i].current]
            /\ age[b[i].current] <= age[f.item]
  <2>1. Unfinished(h, f, age)
    BY PushFrames DEF Shaped
  <2>2. h.next[f.current] = NULL /\ f.current \in ListFrom(h, f.head)
    BY <2>1 DEF Unfinished
  <2> QED BY <2>2, OldestFirst
<1>a. \A n \in h.live : age[n] \in Nat
  OBVIOUS
<1>b. \A i \in 1..Len(b) : b[i].item # f.item /\ b[i].current # f.current
  BY FramesApart
<1>1. \A m \in h.live : \A n : Begins(g, b, m, n) <=> Begins(h, st, m, n)
  <2> SUFFICES ASSUME NEW m \in h.live, NEW n
               PROVE  Begins(g, b, m, n) <=> Begins(h, st, m, n)
    OBVIOUS
  <2>1. CASE m = f.item
    <3>1. /\ g.child[m] = f.head /\ h.child[m] = NULL
          /\ ~ \E i \in 1..Len(b) : b[i].item = m /\ b[i].head = n
      BY <2>1, <1>b, <1>f
    <3>2. Begins(g, b, m, n) <=> n # NULL /\ n = f.head
      BY <3>1 DEF Begins
    <3>3. ~Begins(h, b, m, n)
      BY <3>1 DEF Begins
    <3> QED BY <2>1, <3>2, <3>3, PushBegins
  <2>2. CASE m # f.item
    BY <2>2, <1>f, PushBegins DEF Begins
  <2> QED BY <2>1, <2>2
<1>2. \A m \in h.live : \A n : Follows(g, b, m, n) <=> Follows(h, st, m, n)
  BY <1>1 DEF Follows
<1>3. \A n : ListFrom(g, n) = ListFrom(h, n)
  BY DEF ListFrom, ListClosed
<1>4. Ordered(g, b, age) /\ OnePlace(g, b, r)
  BY <1>1, <1>2 DEF Shaped, Ordered, OnePlace
<1>5. \A m \in h.live : h.next[m] # f.head
  <2>1. Begins(h, st, f.item, f.head)
    BY PushBegins
  <2>2. ASSUME NEW m \in h.live, h.next[m] = f.head PROVE FALSE
    BY <2>1, <2>2, <1>f DEF Shaped, OnePlace, Follows
  <2> QED BY <2>2
<1>6. BackLinked(g)
  BY <1>5, <1>f DEF Shaped, BackLinked
<1>7. \A p \in h.live : p # f.item => h.child[p] # f.head
  <2>1. Begins(h, st, f.item, f.head)
    BY PushBegins
  <2>2. ASSUME NEW p \in h.live, p # f.item, h.child[p] = f.head PROVE FALSE
    BY <2>1, <2>2, <1>f DEF Shaped, OnePlace, Follows, Begins
  <2> QED BY <2>2
<1>8. Tails(g, b)
  <2> SUFFICES ASSUME NEW p \in h.live, g.child[p] # NULL
               PROVE  /\ TailOf(g, p) \in h.live /\ TailOf(g, p) \in ListFrom(h, g.child[p])
                      /\ h.next[TailOf(g, p)] = NULL
                      /\ \A i \in 1..Len(b) : b[i].current # TailOf(g, p)
    BY <1>3 DEF Tails
  <2>1. CASE p = f.item
    <3>1. g.child[p] = f.head /\ TailOf(g, p) = f.current
      BY <2>1, <1>f DEF TailOf
    <3> QED BY <3>1, <1>b, <1>f
  <2>2. CASE p # f.item
    <3>1. g.child[p] = h.child[p] /\ h.child[p] # NULL /\ h.child[p] # f.head
      BY <2>2, <1>7
    <3>2. TailOf(g, p) = TailOf(h, p)
      BY <3>1, <1>f DEF TailOf
    <3> QED BY <3>1, <3>2, PushTails DEF Shaped, Tails
  <2> QED BY <2>1, <2>2
<1>9. Frames(g, b, age)
  <2>1. Frames(h, b, age)
    BY PushFrames DEF Shaped
  <2>2. ASSUME NEW i \in 1..Len(b) PROVE Unfinished(g, b[i], age)
    <3>1. Unfinished(h, b[i], age) /\ g.child[b[i].item] = h.child[b[i].item]
      BY <2>1, <1>b, <1>f DEF Frames
    <3> QED BY <3>1, <1>3 DEF Unfinished
  <2> QED BY <2>1, <2>2 DEF Frames
<1> QED BY <1>4, <1>6, <1>8, <1>9 DEF Shaped

\* More links let a walk see no less.
LEMMA ListGrows ==
    ASSUME NEW g, NEW h, NEW n,
           \A m \in Node : h.next[m] = NULL \/ g.next[m] = h.next[m]
    PROVE  ListFrom(h, n) \subseteq ListFrom(g, n)
<1>1. \A C \in SUBSET Node : ListClosed(g, C) => ListClosed(h, C)
  BY DEF ListClosed
<1> QED BY <1>1 DEF ListFrom

\* g is h with one more item, at the end of the list of f, which is then e's.
Enlisted(h, g, f, n, e) ==
    /\ n \in Node /\ n \notin h.live /\ h.next[n] = NULL /\ h.child[n] = NULL
    /\ g.live = h.live \cup {n} /\ g.child = h.child
    /\ f.head = NULL => g.next = h.next /\ g.prev = h.prev
    /\ f.head # NULL => /\ g.next = [h.next EXCEPT ![f.current] = n]
                        /\ g.prev = [h.prev EXCEPT ![n] = f.current]
    /\ e.item = f.item /\ e.current = n
    /\ e.head = IF f.head = NULL THEN n ELSE f.head

LEMMA ElementShape ==
    ASSUME NEW h \in Heap, NEW g \in Heap, NEW b \in Seq(FrameType), NEW f \in FrameType,
           NEW r \in h.live, NEW age \in [Node -> Nat], Shaped(h, Append(b, f), r, age),
           NEW n, NEW e \in FrameType, Enlisted(h, g, f, n, e)
    PROVE  \E a \in [Node -> Nat] : Shaped(g, Append(b, e), r, a)
<1>f. /\ f.item \in h.live /\ h.child[f.item] = NULL
      /\ f.head # NULL =>
            /\ f.head \in h.live /\ f.current \in h.live
            /\ h.next[f.current] = NULL /\ f.current \in ListFrom(h, f.head)
            /\ age[f.item] < age[f.head] /\ age[f.head] <= age[f.current]
      /\ \A i \in 1..Len(b) :
            /\ b[i].item \in h.live /\ b[i].head \in h.live /\ b[i].current \in h.live
            /\ b[i].item # f.item /\ (f.head # NULL => b[i].current # f.current)
            /\ age[b[i].current] <= age[f.item]
  <2>1. Unfinished(h, f, age)
    BY PushFrames DEF Shaped
  <2>2. f.head # NULL => h.next[f.current] = NULL /\ f.current \in ListFrom(h, f.head)
    BY <2>1 DEF Unfinished
  <2>3. /\ f.item \in h.live /\ h.child[f.item] = NULL
        /\ f.head # NULL =>
             /\ f.head \in h.live /\ f.current \in h.live
             /\ age[f.item] < age[f.head] /\ age[f.head] <= age[f.current]
        /\ \A i \in 1..Len(b) :
             /\ b[i].item \in h.live /\ b[i].head \in h.live /\ b[i].current \in h.live
             /\ age[b[i].item] < age[b[i].head] /\ age[b[i].head] <= age[b[i].current]
             /\ age[b[i].current] <= age[f.item]
    BY OldestFirst
  <2>4. \A i \in 1..Len(b) :
             b[i].item # f.item /\ (f.head # NULL => b[i].current # f.current)
    BY FramesApart
  <2> QED BY <2>2, <2>3, <2>4
<1> DEFINE pred == IF f.head = NULL THEN f.item ELSE f.current
           st == Append(b, f)
           su == Append(b, e)
           a == [age EXCEPT ![n] = age[pred] + 1]
<1> USE LinkTypes
<1>e. /\ n \in Node /\ n \notin h.live /\ h.next[n] = NULL /\ h.child[n] = NULL
      /\ g.live = h.live \cup {n} /\ g.child = h.child
      /\ f.head = NULL => g.next = h.next /\ g.prev = h.prev
      /\ f.head # NULL => /\ g.next = [h.next EXCEPT ![f.current] = n]
                          /\ g.prev = [h.prev EXCEPT ![n] = f.current]
      /\ e.item = f.item /\ e.current = n
      /\ e.head = IF f.head = NULL THEN n ELSE f.head
  BY DEF Enlisted
<1> USE <1>e
<1>p. pred \in h.live /\ pred \in Node /\ pred # n /\ n # NULL
  BY <1>f
<1>a. /\ a \in [Node -> Nat] /\ a[n] = age[pred] + 1
      /\ \A m \in h.live : a[m] = age[m] /\ age[m] \in Nat
  BY <1>p
<1>o. \A m \in h.live, x \in Node : Follows(h, st, m, x) => x \in h.live /\ x # n /\ age[m] < age[x]
  BY DEF Shaped, Ordered
<1> HIDE DEF a
<1>1. \A m \in h.live \cup {n}, x \in Node :
        g.next[m] = x <=> h.next[m] = x \/ (f.head # NULL /\ m = pred /\ x = n)
  <2>1. \A x \in Node : x # NULL
    BY AddressAssumption
  <2> QED BY <1>f, <1>p, <2>1
<1>2. \A m \in h.live \cup {n}, x \in Node :
        Begins(g, su, m, x) <=> /\ x # NULL
                                /\ \/ m \in h.live /\ Begins(h, st, m, x)
                                   \/ f.head = NULL /\ m = pred /\ x = n
  <2> SUFFICES ASSUME NEW m \in h.live \cup {n}, NEW x \in Node
               PROVE  Begins(g, su, m, x) <=> /\ x # NULL
                                              /\ \/ m \in h.live /\ Begins(h, st, m, x)
                                                 \/ f.head = NULL /\ m = pred /\ x = n
    OBVIOUS
  <2>1. Begins(g, b, m, x) <=> Begins(h, b, m, x)
    BY DEF Begins
  <2>2. m \in h.live \/ ~Begins(h, b, m, x)
    BY SMTT(30), <1>f DEF Begins
  <2>3. Begins(g, su, m, x) <=> Begins(g, b, m, x) \/ (x # NULL /\ e.item = m /\ e.head = x)
    BY PushBegins
  <2>4. Begins(h, st, m, x) <=> Begins(h, b, m, x) \/ (x # NULL /\ f.item = m /\ f.head = x)
    BY PushBegins
  <2>5. x # NULL
    BY AddressAssumption
  <2> HIDE DEF su, st
  <2>6. CASE f.head = NULL
    BY <2>1, <2>2, <2>3, <2>4, <2>5, <2>6, <1>f
  <2>7. CASE f.head # NULL
    BY <2>1, <2>2, <2>3, <2>4, <2>5, <2>7, <1>f
  <2> QED BY <2>6, <2>7
<1>3. \A m \in h.live \cup {n}, x \in Node :
        Follows(g, su, m, x)
            <=> (m \in h.live /\ Follows(h, st, m, x)) \/ (m = pred /\ x = n)
  <2>1. \A x \in Node : x # NULL /\ h.next[n] # x
    BY AddressAssumption
  <2> QED BY <1>1, <1>2, <1>p, <2>1 DEF Follows
<1> HIDE DEF su, st, pred
<1>4. Ordered(g, su, a)
  <2> SUFFICES ASSUME NEW m \in h.live \cup {n}, NEW x \in Node, Follows(g, su, m, x)
               PROVE  x \in g.live /\ a[m] < a[x]
    BY DEF Ordered
  <2> QED BY <1>3, <1>a, <1>o, <1>p
<1>5. OnePlace(g, su, r)
  <2>1. /\ \A m \in h.live, x \in Node : ~(h.next[m] = x /\ Begins(h, st, m, x))
        /\ \A k, m \in h.live, x \in Node :
            Follows(h, st, k, x) /\ Follows(h, st, m, x) => k = m
        /\ \A m \in h.live : ~Follows(h, st, m, r)
        /\ \A x \in h.live : x # r => \E m \in h.live : Follows(h, st, m, x)
    BY DEF Shaped, OnePlace, st
  <2>2. ASSUME NEW m \in h.live \cup {n}, NEW x \in Node
        PROVE  ~(g.next[m] = x /\ Begins(g, su, m, x))
    <3>1. x = n => ~ (m \in h.live /\ Begins(h, st, m, x)) /\ (m \in h.live => h.next[m] # x)
      BY <1>o DEF Follows
    <3>2. h.next[n] # x
      BY AddressAssumption
    <3> SUFFICES ASSUME g.next[m] = x, Begins(g, su, m, x) PROVE FALSE
      OBVIOUS
    <3>3. h.next[m] = x \/ (f.head # NULL /\ m = pred /\ x = n)
      BY <1>1
    <3>4. (m \in h.live /\ Begins(h, st, m, x)) \/ (f.head = NULL /\ m = pred /\ x = n)
      BY <1>2
    <3>5. m \in h.live
      BY <3>2, <3>3, <1>p
    <3> QED BY <2>1, <3>1, <3>3, <3>4, <3>5
  <2>3. ASSUME NEW k \in h.live \cup {n}, NEW m \in h.live \cup {n}, NEW x \in Node,
               Follows(g, su, k, x), Follows(g, su, m, x)
        PROVE  k = m
    BY <1>3, <1>o, <2>1, <2>3
  <2>4. ASSUME NEW m \in h.live \cup {n} PROVE ~Follows(g, su, m, r)
    BY <1>3, <2>1
  <2>5. ASSUME NEW x \in h.live \cup {n}, x # r
        PROVE  \E m \in h.live \cup {n} : Follows(g, su, m, x)
    BY <1>3, <1>p, <2>1, <2>5
  <2> QED BY <2>2, <2>3, <2>4, <2>5 DEF OnePlace
<1>6. BackLinked(g)
  <2> SUFFICES ASSUME NEW m \in h.live \cup {n}, g.next[m] # NULL
               PROVE  g.prev[g.next[m]] = m
    BY DEF BackLinked
  <2>1. m \in h.live /\ h.next[m] # NULL => h.next[m] # n /\ h.prev[h.next[m]] = m /\ h.next[m] \in Node
    BY <1>o DEF Shaped, BackLinked, Follows, NodePtr
  <2>2. CASE f.head = NULL
    BY <2>1, <2>2
  <2>3. CASE f.head # NULL /\ m = f.current
    BY <2>3, <1>f
  <2>4. CASE f.head # NULL /\ m # f.current
    BY <2>1, <2>4, <1>f
  <2> QED BY <2>2, <2>3, <2>4
<1>7. \A x \in Node : ListFrom(h, x) \subseteq ListFrom(g, x)
  <2>1. \A m \in Node : h.next[m] = NULL \/ g.next[m] = h.next[m]
    BY <1>f
  <2> QED BY <2>1, ListGrows
<1>8. Tails(g, su)
  <2> SUFFICES ASSUME NEW p \in h.live \cup {n}, h.child[p] # NULL
               PROVE  /\ TailOf(g, p) \in g.live /\ TailOf(g, p) \in ListFrom(g, h.child[p])
                      /\ g.next[TailOf(g, p)] = NULL
                      /\ \A i \in 1..Len(b) : b[i].current # TailOf(g, p)
                      /\ e.current # TailOf(g, p)
    <3>1. Tails(g, b) /\ \A p \in g.live : g.child[p] # NULL => e.current # TailOf(g, p)
      BY DEF Tails
    <3> QED BY <3>1, PushTails DEF su
  <2>1. p \in h.live /\ h.child[p] \in Node
    BY DEF NodePtr
  <2>2. h.child[p] # n
    <3>1. Begins(h, st, p, h.child[p])
      BY <2>1 DEF Begins
    <3> QED BY <2>1, <3>1, <1>o DEF Follows
  <2>3. TailOf(g, p) = TailOf(h, p)
    BY <2>1, <2>2, <1>f DEF TailOf
  <2>4. /\ TailOf(h, p) \in h.live /\ TailOf(h, p) \in ListFrom(h, h.child[p])
        /\ h.next[TailOf(h, p)] = NULL
        /\ \A i \in 1..Len(b) : b[i].current # TailOf(h, p)
        /\ f.current # TailOf(h, p)
    <3>1. /\ Tails(h, b)
          /\ \A q \in h.live : h.child[q] # NULL => f.current # TailOf(h, q)
      BY PushTails DEF Shaped
    <3> QED BY <2>1, <3>1 DEF Tails
  <2>5. g.next[TailOf(h, p)] = NULL
    BY <2>4, <1>f
  <2> QED BY <2>1, <2>3, <2>4, <2>5, <1>7
<1>9. Unfinished(g, e, a)
  <2>1. e.head \in g.live /\ e.current \in g.live /\ g.next[n] = NULL /\ g.child[e.item] = NULL
    BY <1>f, <1>p
  <2>2. n \in ListFrom(g, e.head)
    <3>1. CASE f.head = NULL
      BY <3>1 DEF ListFrom
    <3>2. CASE f.head # NULL
      <4>1. f.current \in ListFrom(g, f.head) /\ g.next[f.current] = n
        BY <3>2, <1>f, <1>7
      <4>2. ASSUME NEW C \in SUBSET Node, f.head \in C, ListClosed(g, C) PROVE n \in C
        <5>1. f.current \in C
          BY <4>1, <4>2 DEF ListFrom
        <5> QED BY <4>1, <4>2, <5>1, <1>p DEF ListClosed
      <4> QED BY <3>2, <4>2 DEF ListFrom
    <3> QED BY <3>1, <3>2
  <2>3. a[e.head] <= a[n]
    <3>1. CASE f.head = NULL
      BY <3>1, <1>a
    <3>2. CASE f.head # NULL
      <4>1. /\ a[e.head] = age[f.head] /\ a[n] = age[f.current] + 1
            /\ age[f.head] <= age[f.current]
            /\ age[f.head] \in Nat /\ age[f.current] \in Nat
        BY <3>2, <1>a, <1>f DEF pred
      <4> QED BY <4>1
    <3> QED BY <3>1, <3>2
  <2> QED BY <2>1, <2>2, <2>3, <1>f, <1>p DEF Unfinished
<1>10. Frames(g, b, a)
  <2>1. Frames(h, b, age)
    BY PushFrames DEF Shaped, st
  <2>2. ASSUME NEW i \in 1..Len(b) PROVE Unfinished(g, b[i], a)
    <3>1. Unfinished(h, b[i], age)
      BY <2>1 DEF Frames
    <3>2. g.next[b[i].current] = h.next[b[i].current]
      BY <1>f
    <3>3. a[b[i].head] = age[b[i].head] /\ a[b[i].current] = age[b[i].current]
      BY <1>f, <1>a
    <3>4. ListFrom(h, b[i].head) \subseteq ListFrom(g, b[i].head)
      BY <1>7, <1>f
    <3> QED BY <3>1, <3>2, <3>3, <3>4 DEF Unfinished
  <2>3. \A i, j \in 1..Len(b) : i < j =>
            b[i].head # NULL /\ a[b[i].current] <= a[b[j].item]
    <3>1. \A i \in 1..Len(b) : a[b[i].current] = age[b[i].current] /\ a[b[i].item] = age[b[i].item]
      BY <1>f, <1>a
    <3> QED BY <2>1, <3>1 DEF Frames
  <2> QED BY <2>2, <2>3 DEF Frames
<1>11. Frames(g, su, a)
  <2>1. ASSUME NEW i \in 1..Len(b) PROVE b[i].head # NULL /\ a[b[i].current] <= a[e.item]
    <3>1. /\ b[i].current \in h.live /\ b[i].head \in h.live /\ f.item \in h.live
          /\ age[b[i].current] <= age[f.item]
      BY <1>f
    <3> QED BY SMTT(30), <3>1, <1>a
  <2> QED BY <2>1, <1>9, <1>10, PushFrames DEF su
<1>12. Shaped(g, su, r, a)
  BY <1>4, <1>5, <1>6, <1>8, <1>11 DEF Shaped
<1> QED BY <1>a, <1>12 DEF su

-----------------------------------------------------------------------------
(* Deletion *)

\* What is free is blank: a heap without items is the empty one.
LEMMA NothingLeft ==
    ASSUME NEW h, Memory(h), h.live = {}
    PROVE  h = EmptyHeap
<1> USE DEF Memory, Plain
<1>1. \A n \in Node : /\ h.next[n] = NULL /\ h.prev[n] = NULL /\ h.child[n] = NULL
                      /\ h.type[n] = "Invalid" /\ h.string[n] = NULL /\ h.valuestring[n] = NULL
  BY DEF FreedIsBlank
<1>2. \A s \in Str : h.text[s] = NULL
  BY DEF StringsOwned
<1>3. /\ h.next = [n \in Node |-> NULL] /\ h.prev = [n \in Node |-> NULL]
      /\ h.child = [n \in Node |-> NULL] /\ h.type = [n \in Node |-> "Invalid"]
      /\ h.string = [n \in Node |-> NULL] /\ h.valuestring = [n \in Node |-> NULL]
      /\ h.text = [s \in Str |-> NULL] /\ h.fault = FALSE
  BY <1>1, <1>2 DEF Heap
<1>4. h = [live |-> h.live, next |-> h.next, prev |-> h.prev, child |-> h.child,
           type |-> h.type, isReference |-> h.isReference,
           stringIsConst |-> h.stringIsConst, string |-> h.string,
           valuestring |-> h.valuestring, text |-> h.text, fault |-> h.fault]
  BY DEF Heap
<1>5. h.isReference = {} /\ h.stringIsConst = {}
  OBVIOUS
<1> QED BY <1>3, <1>4, <1>5, Zenon DEF EmptyHeap

\* What cJSON_Delete follows and frees when no item is a reference.
LEMMA PlainOwns ==
    ASSUME NEW h, Plain(h), NEW n \in Node
    PROVE  /\ OwnedSucc(h, n) = {h.next[n], h.child[n]} \ {NULL}
           /\ OwnedKey(h, n) = h.string[n] /\ OwnedValue(h, n) = h.valuestring[n]
           /\ \A s : s \in OwnedStrings(h, n) <=> OwnsString(h, n, s)
BY DEF Plain, OwnedSucc, OwnedKey, OwnedValue, OwnedStrings, OwnsString

\* The set that cJSON_Delete frees: it holds the item, and every pointer of a
\* member that is not NULL leads to a member.
LEMMA Freed ==
    ASSUME NEW h, Plain(h), NEW x \in Node
    PROVE  LET D == Reach(h, {x})
           IN  /\ D \in SUBSET Node /\ x \in D
               /\ \A m \in D, n \in Node : h.next[m] = n \/ h.child[m] = n => n \in D
               /\ \A C \in SUBSET Node :
                    x \in C /\ (\A m \in C, n \in Node : h.next[m] = n \/ h.child[m] = n => n \in C)
                        => D \subseteq C
<1> DEFINE D == Reach(h, {x})
<1>1. D \in SUBSET Node /\ x \in D
  BY DEF Reach
<1>2. h \in Heap /\ h.next \in [Node -> NodePtr] /\ h.child \in [Node -> NodePtr]
  BY LinkTypes DEF Plain
<1>3. ASSUME NEW C \in SUBSET Node
      PROVE  Closed(h, C) <=> \A m \in C, n \in Node : h.next[m] = n \/ h.child[m] = n => n \in C
  <2>1. \A m \in C : OwnedSucc(h, m) = {h.next[m], h.child[m]} \ {NULL}
    BY PlainOwns
  <2>2. \A n \in Node : n # NULL
    BY AddressAssumption
  <2>3. \A m \in C : h.next[m] \in Node \cup {NULL} /\ h.child[m] \in Node \cup {NULL}
    BY <1>2 DEF NodePtr
  <2> QED BY <2>1, <2>2, <2>3 DEF Closed
<1>4. ASSUME NEW m \in D, NEW n \in Node, h.next[m] = n \/ h.child[m] = n PROVE n \in D
  <2>1. ASSUME NEW C \in SUBSET Node, {x} \subseteq C, Closed(h, C) PROVE n \in C
    <3>1. m \in C
      BY <2>1 DEF Reach
    <3> QED BY <1>3, <1>4, <2>1, <3>1
  <2> QED BY <2>1 DEF Reach
<1>5. ASSUME NEW C \in SUBSET Node, x \in C,
             \A m \in C, n \in Node : h.next[m] = n \/ h.child[m] = n => n \in C
      PROVE  D \subseteq C
  BY <1>3, <1>5 DEF Reach
<1> HIDE DEF D
<1>6. /\ D \in SUBSET Node /\ x \in D
      /\ \A m \in D, n \in Node : h.next[m] = n \/ h.child[m] = n => n \in D
      /\ \A C \in SUBSET Node :
            x \in C /\ (\A m \in C, n \in Node : h.next[m] = n \/ h.child[m] = n => n \in C)
                => D \subseteq C
  BY <1>1, <1>4, <1>5
<1> QED BY <1>6 DEF D

\* The fields of the heap after cJSON_Delete.
LEMMA DeleteFields ==
    ASSUME NEW h \in Heap, NEW x \in Node
    PROVE  LET D == Reach(h, {x})
               g == Delete(h, x)
           IN  /\ g \in Heap /\ g.live = h.live \ D
               /\ g.next = Erase(h.next, D, NULL) /\ g.prev = Erase(h.prev, D, NULL)
               /\ g.child = Erase(h.child, D, NULL) /\ g.type = Erase(h.type, D, "Invalid")
               /\ g.isReference = h.isReference \ D /\ g.stringIsConst = h.stringIsConst \ D
               /\ g.string = Erase(h.string, D, NULL)
               /\ g.valuestring = Erase(h.valuestring, D, NULL)
               /\ g.text = Erase(h.text, UNION {OwnedStrings(h, n) : n \in D}, NULL)
               /\ g.fault = (h.fault \/ ~DeleteIsSafe(h, x, D))
<1> DEFINE D == Reach(h, {x})
           g == Delete(h, x)
           freed == UNION {OwnedStrings(h, n) : n \in D}
           lv == h.live \ D
           rf == h.isReference \ D
           cs == h.stringIsConst \ D
           nx == Erase(h.next, D, NULL)
           pv == Erase(h.prev, D, NULL)
           ch == Erase(h.child, D, NULL)
           ty == Erase(h.type, D, "Invalid")
           sg == Erase(h.string, D, NULL)
           vs == Erase(h.valuestring, D, NULL)
           tx == Erase(h.text, freed, NULL)
           bad == h.fault \/ ~DeleteIsSafe(h, x, D)
<1>1. DeleteSet(h, x) = D
  BY AddressAssumption DEF DeleteSet
<1>2. g = [h EXCEPT !.live = lv, !.next = nx, !.prev = pv, !.child = ch, !.type = ty,
                    !.isReference = rf, !.stringIsConst = cs, !.string = sg,
                    !.valuestring = vs, !.text = tx, !.fault = bad]
  BY <1>1, Zenon DEF Delete
<1> HIDE DEF D, freed
<1>3. /\ nx \in [Node -> NodePtr] /\ pv \in [Node -> NodePtr] /\ ch \in [Node -> NodePtr]
  BY DEF Erase, Heap, NodePtr
<1>4. /\ ty \in [Node -> Type] /\ sg \in [Node -> StrPtr] /\ vs \in [Node -> StrPtr]
      /\ tx \in [Str -> Name \cup {NULL}]
  BY DEF Erase, Heap, Type, StrPtr
<1>5. /\ lv \in SUBSET Node /\ rf \in SUBSET Node /\ cs \in SUBSET Node /\ bad \in BOOLEAN
  BY DEF Heap
<1> HIDE DEF g, lv, rf, cs, nx, pv, ch, ty, sg, vs, tx, bad
<1>6. g = [live |-> lv, next |-> nx, prev |-> pv, child |-> ch, type |-> ty,
           isReference |-> rf, stringIsConst |-> cs, string |-> sg,
           valuestring |-> vs, text |-> tx, fault |-> bad]
  BY <1>2 DEF Heap
<1>7. /\ g \in Heap /\ g.live = lv /\ g.next = nx /\ g.prev = pv /\ g.child = ch
      /\ g.type = ty /\ g.isReference = rf /\ g.stringIsConst = cs /\ g.string = sg
      /\ g.valuestring = vs /\ g.text = tx /\ g.fault = bad
  BY <1>3, <1>4, <1>5, <1>6 DEF Heap
<1> QED BY <1>7 DEF D, g, freed, lv, rf, cs, nx, pv, ch, ty, sg, vs, tx, bad

\* A deletion that is safe takes with the items their strings, and no other.
LEMMA DeleteMemory ==
    ASSUME NEW h, Memory(h), NEW x \in Node, DeleteIsSafe(h, x, Reach(h, {x}))
    PROVE  Memory(Delete(h, x))
<1> DEFINE D == Reach(h, {x})
           g == Delete(h, x)
           freed == UNION {OwnedStrings(h, n) : n \in D}
<1>h. Plain(h) /\ FreedIsBlank(h) /\ StringsOwned(h) /\ h \in Heap
  BY DEF Memory, Plain
<1>1. /\ g \in Heap /\ g.live = h.live \ D
      /\ g.next = Erase(h.next, D, NULL) /\ g.prev = Erase(h.prev, D, NULL)
      /\ g.child = Erase(h.child, D, NULL) /\ g.type = Erase(h.type, D, "Invalid")
      /\ g.isReference = h.isReference \ D /\ g.stringIsConst = h.stringIsConst \ D
      /\ g.string = Erase(h.string, D, NULL)
      /\ g.valuestring = Erase(h.valuestring, D, NULL)
      /\ g.text = Erase(h.text, freed, NULL)
      /\ g.fault = (h.fault \/ ~DeleteIsSafe(h, x, D))
  BY <1>h, DeleteFields, Zenon
<1>d. D \in SUBSET Node /\ D \subseteq h.live
  BY DEF Reach, DeleteIsSafe
<1>s. \A s : s \in freed <=> \E n \in D : OwnsString(h, n, s)
  BY ZenonT(30), <1>h, <1>d, PlainOwns
<1>2. Plain(g)
  BY <1>h, <1>1 DEF Plain
<1> HIDE DEF D, g, freed
<1>3. \A n \in Node :
        /\ g.next[n] = IF n \in D THEN NULL ELSE h.next[n]
        /\ g.prev[n] = IF n \in D THEN NULL ELSE h.prev[n]
        /\ g.child[n] = IF n \in D THEN NULL ELSE h.child[n]
        /\ g.type[n] = IF n \in D THEN "Invalid" ELSE h.type[n]
        /\ g.string[n] = IF n \in D THEN NULL ELSE h.string[n]
        /\ g.valuestring[n] = IF n \in D THEN NULL ELSE h.valuestring[n]
  BY <1>1, <1>h DEF Erase, Heap
<1>4. \A s \in Str : g.text[s] = IF s \in freed THEN NULL ELSE h.text[s]
  BY <1>1, <1>h DEF Erase, Heap
<1>5. FreedIsBlank(g)
  BY <1>h, <1>1, <1>3 DEF FreedIsBlank
<1>6. StringsOwned(g)
  <2>1. \A n \in h.live \ D : \A s : OwnsString(g, n, s) <=> OwnsString(h, n, s)
    BY <1>3, <1>h DEF OwnsString, Heap
  <2>2. ASSUME NEW n \in h.live \ D, NEW s \in StrPtr, OwnsString(g, n, s)
        PROVE  s \in Str /\ g.text[s] # NULL
    <3>1. OwnsString(h, n, s) /\ s \in Str /\ h.text[s] # NULL
      BY <2>1, <2>2, <1>h DEF StringsOwned
    <3>2. s \notin freed
      BY <3>1, <1>s, <1>d, <1>h DEF StringsOwned
    <3> QED BY <3>1, <3>2, <1>4
  <2>3. \A n \in h.live \ D : g.string[n] = NULL \/ g.string[n] # g.valuestring[n]
    BY <1>3, <1>h DEF StringsOwned, Heap
  <2>4. \A m, n \in h.live \ D, s \in Str : OwnsString(g, m, s) /\ OwnsString(g, n, s) => m = n
    BY <2>1, <1>h DEF StringsOwned
  <2>5. ASSUME NEW s \in Str, g.text[s] # NULL PROVE \E n \in h.live \ D : OwnsString(g, n, s)
    <3>1. s \notin freed /\ h.text[s] # NULL
      BY <2>5, <1>4
    <3>2. PICK n \in h.live : OwnsString(h, n, s)
      BY <3>1, <1>h DEF StringsOwned
    <3> QED BY <3>1, <3>2, <1>s, <2>1
  <2> QED BY <1>1, <2>2, <2>3, <2>4, <2>5 DEF StringsOwned
<1> QED BY <1>2, <1>5, <1>6 DEF Memory, g

\* cJSON_Delete of an item that no pointer leads to meets every item once.
LEMMA DeletesSafely ==
    ASSUME NEW h, Memory(h), NEW st, NEW r, NEW age \in [Node -> Nat],
           Shaped(h, st, r, age), NEW x \in h.live,
           \A m \in h.live : h.next[m] # x /\ h.child[m] # x
    PROVE  Reach(h, {x}) \subseteq h.live /\ DeleteIsSafe(h, x, Reach(h, {x}))
<1> DEFINE D == Reach(h, {x})
<1>h. Plain(h) /\ h \in Heap /\ h.live \subseteq Node /\ x \in Node
  BY LinkTypes DEF Memory, Plain
<1>o. \A m \in h.live, n \in Node : h.next[m] = n \/ h.child[m] = n => Follows(h, st, m, n)
  BY AddressAssumption DEF Follows, Begins
<1>1. D \subseteq h.live
  <2>1. \A m \in h.live, n \in Node : h.next[m] = n \/ h.child[m] = n => n \in h.live
    BY <1>o DEF Shaped, Ordered
  <2> QED BY <1>h, <2>1, Freed
<1> HIDE DEF D
<1>2. \A m \in h.live : x \notin OwnedSucc(h, m)
  BY <1>h, PlainOwns
<1>t. \A m \in h.live : h.next[m] \in NodePtr /\ h.child[m] \in NodePtr
  BY <1>h, LinkTypes
<1>3. ASSUME NEW m \in h.live PROVE h.child[m] = NULL \/ h.next[m] # h.child[m]
  <2>1. h.child[m] # NULL => h.child[m] \in Node /\ Begins(h, st, m, h.child[m])
    BY <1>t DEF NodePtr, Begins
  <2> QED BY <2>1 DEF Shaped, OnePlace
<1>4. ASSUME NEW m \in h.live, NEW n \in h.live, m # n
      PROVE  OwnedSucc(h, m) \cap OwnedSucc(h, n) = {}
  <2> SUFFICES ASSUME NEW s \in OwnedSucc(h, m), s \in OwnedSucc(h, n) PROVE FALSE
    OBVIOUS
  <2>1. /\ s \in Node
        /\ h.next[m] = s \/ h.child[m] = s
        /\ h.next[n] = s \/ h.child[n] = s
    <3>1. /\ OwnedSucc(h, m) = {h.next[m], h.child[m]} \ {NULL}
          /\ OwnedSucc(h, n) = {h.next[n], h.child[n]} \ {NULL}
      BY <1>h, PlainOwns
    <3> QED BY <3>1, <1>t DEF NodePtr
  <2>2. Follows(h, st, m, s) /\ Follows(h, st, n, s)
    BY <1>o, <2>1
  <2>3. m = n
    <3>1. \A k, l \in h.live, e \in Node : Follows(h, st, k, e) /\ Follows(h, st, l, e) => k = l
      BY DEF Shaped, OnePlace
    <3> QED BY <2>1, <2>2, <3>1, Zenon
  <2> QED BY <1>4, <2>3
<1>s. /\ \A n \in h.live : /\ OwnedKey(h, n) = h.string[n] /\ OwnedValue(h, n) = h.valuestring[n]
                           /\ \A s : s \in OwnedStrings(h, n) <=> OwnsString(h, n, s)
  BY <1>h, PlainOwns
<1>p. \A n \in h.live : \A s : OwnsString(h, n, s) => s \in StrPtr
  BY <1>h DEF OwnsString, Heap
<1>5. \A n \in h.live : \A s \in OwnedStrings(h, n) : s \in Str /\ h.text[s] # NULL
  BY <1>s, <1>p DEF Memory, StringsOwned
<1>6. \A n \in h.live : OwnedKey(h, n) = NULL \/ OwnedKey(h, n) # OwnedValue(h, n)
  BY <1>s DEF Memory, StringsOwned
<1>7. ASSUME NEW m \in h.live, NEW n \in h.live, m # n
      PROVE  OwnedStrings(h, m) \cap OwnedStrings(h, n) = {}
  <2> SUFFICES ASSUME NEW s \in OwnedStrings(h, m), s \in OwnedStrings(h, n) PROVE FALSE
    OBVIOUS
  <2>1. s \in Str /\ OwnsString(h, m, s) /\ OwnsString(h, n, s)
    BY <1>5, <1>s
  <2> QED BY <1>7, <2>1 DEF Memory, StringsOwned
<1>8. DeleteIsSafe(h, x, D)
  BY <1>1, <1>2, <1>3, <1>4, <1>5, <1>6, <1>7, Zenon DEF DeleteIsSafe
<1> QED BY <1>1, <1>8 DEF D

\* The outermost call frees its item: nothing is left.
LEMMA RootFreesAll ==
    ASSUME NEW h, Memory(h), NEW r, Structure(h, <<>>, r)
    PROVE  Delete(h, r) = EmptyHeap
<1>1. PICK age \in [Node -> Nat] : Shaped(h, <<>>, r, age)
  BY DEF Structure
<1>h. Plain(h) /\ h \in Heap /\ h.live \subseteq Node /\ r \in h.live /\ r \in Node
  BY LinkTypes DEF Memory, Plain, Structure
<1> DEFINE D == Reach(h, {r})
           bad == h.live \ D
           S == {age[n] : n \in bad}
<1>2. \A m \in h.live, n \in Node :
        Follows(h, <<>>, m, n) <=> h.next[m] = n \/ h.child[m] = n
  BY AddressAssumption DEF Follows, Begins
<1>3. \A m \in h.live : h.next[m] # r /\ h.child[m] # r
  BY <1>1, <1>2, <1>h DEF Shaped, OnePlace
<1>4. D \subseteq h.live /\ DeleteIsSafe(h, r, D)
  BY <1>1, <1>3, <1>h, DeletesSafely
<1>5. r \in D /\ \A m \in D, n \in Node : h.next[m] = n \/ h.child[m] = n => n \in D
  BY <1>h, Freed
<1>6. Memory(Delete(h, r))
  BY <1>4, <1>h, DeleteMemory
<1>7. Delete(h, r).live = h.live \ D
  BY <1>h, DeleteFields
<1> HIDE DEF D
<1>8. bad = {}
  <2> SUFFICES ASSUME bad # {} PROVE FALSE
    OBVIOUS
  <2>1. S \in SUBSET Nat /\ S # {}
    BY <1>h
  <2> HIDE DEF S
  <2>2. PICK k \in S : \A j \in S : k <= j
    BY <2>1, LeastElement
  <2>3. PICK n \in bad : k = age[n]
    BY DEF S
  <2>4. n \in h.live /\ n # r
    BY <1>5
  <2>5. PICK m \in h.live : Follows(h, <<>>, m, n)
    BY <1>1, <2>4 DEF Shaped, OnePlace
  <2>6. age[m] < age[n] /\ age[m] \in Nat /\ age[n] \in Nat
    BY <1>1, <1>h, <2>4, <2>5 DEF Shaped, Ordered
  <2>7. m \in D
    <3>1. age[m] \in S => k <= age[m]
      BY <2>2
    <3>2. m \in bad => age[m] \in S
      BY DEF S
    <3> QED BY <2>3, <2>6, <3>1, <3>2
  <2> QED BY <1>2, <1>5, <1>h, <2>4, <2>5, <2>7
<1> QED BY <1>6, <1>7, <1>8, NothingLeft

\* What the call of parse_array or parse_object that fails frees: the elements
\* of its list and all below them, which only its own item leads to.
LEMMA Dropped ==
    ASSUME NEW h, Memory(h), NEW b \in Seq(FrameType), NEW f \in FrameType,
           NEW r \in h.live, NEW age \in [Node -> Nat],
           Shaped(h, Append(b, f), r, age), f.head # NULL
    PROVE  LET D == Reach(h, {f.head})
               st == Append(b, f)
           IN  /\ f.head \in D /\ D \subseteq h.live
               /\ DeleteIsSafe(h, f.head, D)
               /\ \A m \in D, n \in Node : h.next[m] = n \/ h.child[m] = n => n \in D
               /\ \A m \in h.live, n \in D :
                    Follows(h, st, m, n) => m \in D \/ (m = f.item /\ n = f.head)
               /\ r \notin D /\ f.item \notin D
               /\ \A i \in 1..Len(b) :
                    b[i].item \notin D /\ b[i].head \notin D /\ b[i].current \notin D
<1> DEFINE D == Reach(h, {f.head})
           st == Append(b, f)
<1>h. /\ Plain(h) /\ h \in Heap /\ h.live \subseteq Node
      /\ h.next \in [Node -> NodePtr] /\ h.child \in [Node -> NodePtr]
  BY LinkTypes DEF Memory, Plain
<1>f. /\ f.item \in h.live /\ h.child[f.item] = NULL
      /\ f.head \in h.live /\ f.head \in Node /\ age[f.item] < age[f.head]
      /\ \A i \in 1..Len(b) :
            /\ b[i].item \in h.live /\ b[i].head \in h.live /\ b[i].current \in h.live
            /\ age[b[i].item] < age[b[i].head] /\ age[b[i].head] <= age[b[i].current]
            /\ age[b[i].current] <= age[f.item]
  BY <1>h, OldestFirst
<1>a. \A n \in h.live : age[n] \in Nat
  BY <1>h
<1>b. Begins(h, st, f.item, f.head)
  BY PushBegins
<1>o. \A m \in h.live, n \in Node : h.next[m] = n \/ h.child[m] = n =>
        Follows(h, st, m, n) /\ n \in h.live /\ age[m] < age[n]
  BY AddressAssumption DEF Shaped, Ordered, Follows, Begins
<1>u. /\ \A k, m \in h.live, n \in Node :
            Follows(h, st, k, n) /\ Follows(h, st, m, n) => k = m
      /\ \A m \in h.live : ~Follows(h, st, m, r)
      /\ \A m \in h.live, n \in Node : ~(h.next[m] = n /\ Begins(h, st, m, n))
  BY DEF Shaped, OnePlace
<1> HIDE DEF st
<1>1. /\ D \in SUBSET Node /\ f.head \in D
      /\ \A m \in D, n \in Node : h.next[m] = n \/ h.child[m] = n => n \in D
      /\ \A C \in SUBSET Node :
            f.head \in C /\ (\A m \in C, n \in Node : h.next[m] = n \/ h.child[m] = n => n \in C)
                => D \subseteq C
  BY <1>h, <1>f, Freed
<1>2. \A m \in h.live : h.next[m] # f.head /\ h.child[m] # f.head
  <2> SUFFICES ASSUME NEW m \in h.live, h.next[m] = f.head \/ h.child[m] = f.head PROVE FALSE
    OBVIOUS
  <2>1. Follows(h, st, m, f.head) /\ Follows(h, st, f.item, f.head)
    BY <1>o, <1>b, <1>f DEF Follows
  <2>2. m = f.item
    BY <2>1, <1>u, <1>f
  <2> QED BY <2>2, <1>b, <1>f, <1>u, AddressAssumption
<1>3. D \subseteq h.live /\ DeleteIsSafe(h, f.head, D)
  BY <1>2, <1>f, DeletesSafely
<1> HIDE DEF D
<1>4. \A n \in D : age[f.head] <= age[n]
  <2> DEFINE C == {n \in h.live : age[f.head] <= age[n]}
  <2>1. C \in SUBSET Node /\ f.head \in C
    BY <1>h, <1>f, <1>a
  <2>2. ASSUME NEW m \in C, NEW n \in Node, h.next[m] = n \/ h.child[m] = n PROVE n \in C
    <3>1. n \in h.live /\ age[m] < age[n] /\ age[f.head] <= age[m] /\ m \in h.live
      BY <2>2, <1>o
    <3>2. age[m] \in Nat /\ age[n] \in Nat /\ age[f.head] \in Nat
      BY <3>1, <1>a, <1>f
    <3>3. age[f.head] <= age[n]
      BY <3>1, <3>2
    <3> QED BY <3>1, <3>3
  <2>3. D \subseteq C
    BY <1>1, <2>1, <2>2
  <2> QED BY <2>3
<1>5. \A n \in h.live : age[n] < age[f.head] => n \notin D
  BY <1>4, <1>a, <1>f
<1>6. ASSUME NEW i \in 1..Len(b)
      PROVE  b[i].item \notin D /\ b[i].head \notin D /\ b[i].current \notin D
  <2>1. /\ b[i].item \in h.live /\ b[i].head \in h.live /\ b[i].current \in h.live
        /\ age[b[i].item] < age[b[i].head] /\ age[b[i].head] <= age[b[i].current]
        /\ age[b[i].current] <= age[f.item] /\ age[f.item] < age[f.head]
    BY <1>f
  <2>2. /\ age[b[i].item] \in Nat /\ age[b[i].head] \in Nat /\ age[b[i].current] \in Nat
        /\ age[f.item] \in Nat /\ age[f.head] \in Nat
    BY <2>1, <1>a, <1>f
  <2>3. /\ age[b[i].item] < age[f.head] /\ age[b[i].head] < age[f.head]
        /\ age[b[i].current] < age[f.head]
    BY <2>1, <2>2
  <2> QED BY <2>1, <2>3, <1>5
<1>7. ASSUME NEW n \in D, n # f.head
      PROVE  \E k \in D : h.next[k] = n \/ h.child[k] = n
  <2> DEFINE C == {x \in D : x = f.head \/ \E k \in D : h.next[k] = x \/ h.child[k] = x}
  <2>1. C \in SUBSET Node /\ f.head \in C
    BY <1>1
  <2>2. ASSUME NEW m \in C, NEW x \in Node, h.next[m] = x \/ h.child[m] = x PROVE x \in C
    BY <1>1, <2>2
  <2>3. D \subseteq C
    BY <1>1, <2>1, <2>2
  <2> QED BY <1>7, <2>3
<1>8. ASSUME NEW m \in h.live, NEW n \in D, Follows(h, st, m, n)
      PROVE  m \in D \/ (m = f.item /\ n = f.head)
  <2>1. CASE n = f.head
    <3>1. Follows(h, st, f.item, n)
      BY <1>b, <2>1 DEF Follows
    <3>2. m = f.item
      BY <1>u, <1>8, <1>f, <2>1, <3>1, Zenon
    <3> QED BY <2>1, <3>2
  <2>2. CASE n # f.head
    <3>1. PICK k \in D : h.next[k] = n \/ h.child[k] = n
      BY <1>7, <2>2
    <3>2. n \in Node /\ k \in h.live
      BY <1>1, <1>3
    <3>3. Follows(h, st, k, n)
      BY <1>o, <3>1, <3>2, Zenon
    <3>4. m = k
      BY <1>u, <1>8, <3>2, <3>3, Zenon
    <3> QED BY <3>4
  <2> QED BY <2>1, <2>2
<1>9. r \notin D
  <2> SUFFICES ASSUME r \in D PROVE FALSE
    OBVIOUS
  <2>1. CASE r = f.head
    BY <2>1, <1>b, <1>u, <1>f DEF Follows
  <2>2. CASE r # f.head
    <3>1. PICK k \in D : h.next[k] = r \/ h.child[k] = r
      BY <1>7, <2>2
    <3> QED BY <1>o, <1>u, <1>1, <1>3, <3>1
  <2> QED BY <2>1, <2>2
<1>10. f.item \notin D
  BY <1>5, <1>f
<1>11. /\ f.head \in D /\ D \subseteq h.live /\ DeleteIsSafe(h, f.head, D)
       /\ \A m \in D, n \in Node : h.next[m] = n \/ h.child[m] = n => n \in D
       /\ \A m \in h.live, n \in D :
            Follows(h, st, m, n) => m \in D \/ (m = f.item /\ n = f.head)
       /\ r \notin D /\ f.item \notin D
       /\ \A i \in 1..Len(b) :
            b[i].item \notin D /\ b[i].head \notin D /\ b[i].current \notin D
  BY <1>1, <1>3, <1>6, <1>8, <1>9, <1>10
<1> QED BY <1>11 DEF D, st

\* What the frames below still hold after that.
LEMMA DropShape ==
    ASSUME NEW h, Memory(h), NEW b \in Seq(FrameType), NEW f \in FrameType,
           NEW r \in h.live, NEW age \in [Node -> Nat],
           Shaped(h, Append(b, f), r, age), f.head # NULL
    PROVE  /\ r \in Delete(h, f.head).live
           /\ Shaped(Delete(h, f.head), b, r, age)
<1> DEFINE D == Reach(h, {f.head})
           g == Delete(h, f.head)
           st == Append(b, f)
<1>h. /\ h \in Heap /\ h.live \subseteq Node /\ NULL \notin Node
      /\ h.next \in [Node -> NodePtr] /\ h.child \in [Node -> NodePtr]
      /\ h.prev \in [Node -> NodePtr]
  BY LinkTypes, AddressAssumption DEF Memory, Plain
<1>1. /\ f.head \in D /\ D \subseteq h.live
      /\ \A m \in D, n \in Node : h.next[m] = n \/ h.child[m] = n => n \in D
      /\ \A m \in h.live, n \in D :
            Follows(h, st, m, n) => m \in D \/ (m = f.item /\ n = f.head)
      /\ r \notin D /\ f.item \notin D
      /\ \A i \in 1..Len(b) :
            b[i].item \notin D /\ b[i].head \notin D /\ b[i].current \notin D
  BY Dropped, Zenon
<1>2. /\ g.live = h.live \ D /\ g.next = Erase(h.next, D, NULL)
      /\ g.prev = Erase(h.prev, D, NULL) /\ g.child = Erase(h.child, D, NULL)
  <2>1. f.head \in Node
    BY <1>h, <1>1
  <2>2. \A x \in Node :
          LET E == Reach(h, {x})
              d == Delete(h, x)
          IN  /\ d.live = h.live \ E /\ d.next = Erase(h.next, E, NULL)
              /\ d.prev = Erase(h.prev, E, NULL) /\ d.child = Erase(h.child, E, NULL)
    BY <1>h, DeleteFields, Zenon
  <2> QED BY <2>1, <2>2
<1> HIDE DEF D, g
<1>3. \A n \in Node \ D : /\ g.next[n] = h.next[n] /\ g.prev[n] = h.prev[n]
                          /\ g.child[n] = h.child[n]
  BY <1>2, <1>h DEF Erase
<1>f. /\ f.item \in h.live /\ h.child[f.item] = NULL
      /\ \A i \in 1..Len(b) :
            /\ b[i].item \in h.live /\ b[i].head \in h.live /\ b[i].current \in h.live
            /\ b[i].item # f.item
  BY <1>h, OldestFirst, FramesApart, SMTT(30)
<1>4. \A m \in h.live \ D, x \in Node :
        Begins(g, b, m, x) <=> Begins(h, st, m, x) /\ ~(m = f.item /\ x = f.head)
  <2> SUFFICES ASSUME NEW m \in h.live \ D, NEW x \in Node
               PROVE  Begins(g, b, m, x) <=> Begins(h, st, m, x) /\ ~(m = f.item /\ x = f.head)
    OBVIOUS
  <2>1. Begins(g, b, m, x) <=> Begins(h, b, m, x)
    BY <1>3, <1>h DEF Begins
  <2>2. ~Begins(h, b, f.item, x)
    BY <1>f, <1>h DEF Begins
  <2>3. Begins(h, st, m, x) <=> Begins(h, b, m, x) \/ (x # NULL /\ f.item = m /\ f.head = x)
    BY PushBegins
  <2> QED BY <2>1, <2>2, <2>3
<1>b. Begins(h, st, f.item, f.head)
  BY PushBegins
<1>u. /\ \A m \in h.live, n \in Node : ~(h.next[m] = n /\ Begins(h, st, m, n))
      /\ \A k, m \in h.live, n \in Node :
            Follows(h, st, k, n) /\ Follows(h, st, m, n) => k = m
      /\ \A m \in h.live : ~Follows(h, st, m, r)
      /\ \A n \in h.live : n # r => \E m \in h.live : Follows(h, st, m, n)
  BY DEF Shaped, OnePlace
<1>o. \A m \in h.live, n \in Node : Follows(h, st, m, n) => n \in h.live /\ age[m] < age[n]
  BY DEF Shaped, Ordered
<1>c. \A m \in D, n \in Node : Begins(h, st, m, n) => n \in D
  <2> SUFFICES ASSUME NEW m \in D, NEW n \in Node, Begins(h, st, m, n) PROVE n \in D
    OBVIOUS
  <2>1. Begins(h, b, m, n)
    BY <1>1, PushBegins
  <2>2. h.child[m] = n
    BY <2>1, <1>1 DEF Begins
  <2> QED BY <2>2, <1>1
<1> HIDE DEF st
<1>5. \A m \in h.live \ D, x \in Node : Follows(g, b, m, x) => Follows(h, st, m, x) /\ x \in h.live \ D
  <2> SUFFICES ASSUME NEW m \in h.live \ D, NEW x \in Node, Follows(g, b, m, x)
               PROVE  Follows(h, st, m, x) /\ x \in h.live \ D
    OBVIOUS
  <2>1. h.next[m] = x \/ (Begins(h, st, m, x) /\ ~(m = f.item /\ x = f.head))
    BY <1>3, <1>4, <1>h DEF Follows
  <2>2. Follows(h, st, m, x) /\ x \in h.live
    BY <2>1, <1>o DEF Follows
  <2>3. ~(m = f.item /\ x = f.head)
    BY <2>1, <1>u, <1>b, <1>h
  <2> QED BY <2>2, <2>3, <1>1
<1>6. Ordered(g, b, age)
  BY <1>2, <1>5, <1>o DEF Ordered
<1>7. OnePlace(g, b, r)
  <2>1. ASSUME NEW m \in h.live \ D, NEW x \in Node PROVE ~(g.next[m] = x /\ Begins(g, b, m, x))
    BY <1>3, <1>4, <1>u, <1>h
  <2>2. ASSUME NEW k \in h.live \ D, NEW m \in h.live \ D, NEW x \in Node,
               Follows(g, b, k, x), Follows(g, b, m, x)
        PROVE  k = m
    BY <2>2, <1>5, <1>u
  <2>3. ASSUME NEW m \in h.live \ D PROVE ~Follows(g, b, m, r)
    BY <1>5, <1>u, <1>h
  <2>4. ASSUME NEW x \in h.live \ D, x # r PROVE \E m \in h.live \ D : Follows(g, b, m, x)
    <3>1. PICK m \in h.live : Follows(h, st, m, x)
      BY <2>4, <1>u
    <3>2. x \in Node /\ x # f.head
      BY <1>1, <1>h
    <3>3. m \notin D
      BY <3>1, <3>2, <1>1, <1>c DEF Follows
    <3>4. Follows(g, b, m, x)
      BY <3>1, <3>2, <3>3, <1>3, <1>4, <1>h DEF Follows
    <3> QED BY <3>3, <3>4
  <2> QED BY <1>2, <2>1, <2>2, <2>3, <2>4 DEF OnePlace
<1>8. ASSUME NEW m \in h.live \ D, NEW x \in Node, h.next[m] = x \/ h.child[m] = x
      PROVE  x \in h.live \ D
  <2>1. Follows(g, b, m, x)
    BY <1>8, <1>3, <1>h DEF Follows, Begins
  <2> QED BY <2>1, <1>5
<1>9. BackLinked(g)
  <2> SUFFICES ASSUME NEW m \in h.live \ D, h.next[m] # NULL PROVE g.prev[h.next[m]] = m
    BY <1>2, <1>3, <1>h DEF BackLinked
  <2>1. h.next[m] \in h.live \ D
    BY <1>8, <1>h DEF NodePtr
  <2> QED BY <2>1, <1>3, <1>h DEF Shaped, BackLinked
<1>10. ASSUME NEW x \in h.live \ D, NEW y \in ListFrom(h, x)
       PROVE  y \in h.live \ D /\ y \in ListFrom(g, x)
  <2>1. ListClosed(h, h.live \ D)
    BY <1>8, <1>h DEF ListClosed, NodePtr
  <2>2. y \in h.live \ D
    BY <2>1, <1>h DEF ListFrom
  <2>3. ASSUME NEW C \in SUBSET Node, x \in C, ListClosed(g, C) PROVE y \in C
    <3>1. ListClosed(h, C \cup D)
      <4> SUFFICES ASSUME NEW m \in C \cup D, h.next[m] # NULL PROVE h.next[m] \in C \cup D
        BY DEF ListClosed
      <4>1. m \in Node /\ h.next[m] \in Node
        BY <1>1, <1>h, <2>3 DEF NodePtr
      <4>2. CASE m \in D
        BY <4>1, <4>2, <1>1
      <4>3. CASE m \notin D
        BY <4>1, <4>3, <1>3, <2>3 DEF ListClosed
      <4> QED BY <4>2, <4>3
    <3>2. C \cup D \in SUBSET Node
      BY <1>1, <1>h
    <3>3. y \in C \cup D
      BY <2>3, <3>1, <3>2, ListLeast
    <3> QED BY <2>2, <3>3
  <2> QED BY <2>2, <2>3, <1>h DEF ListFrom
<1>11. Tails(g, b)
  <2> SUFFICES ASSUME NEW p \in h.live \ D, h.child[p] # NULL
               PROVE  /\ TailOf(g, p) \in h.live \ D
                      /\ TailOf(g, p) \in ListFrom(g, h.child[p])
                      /\ g.next[TailOf(g, p)] = NULL
                      /\ \A i \in 1..Len(b) : b[i].current # TailOf(g, p)
    BY <1>2, <1>3, <1>h DEF Tails
  <2>1. h.child[p] \in h.live \ D
    BY <1>8, <1>h DEF NodePtr
  <2>2. TailOf(g, p) = TailOf(h, p)
    BY <2>1, <1>3, <1>h DEF TailOf
  <2>3. Tails(h, b)
    BY PushTails DEF Shaped
  <2>4. /\ TailOf(h, p) \in ListFrom(h, h.child[p]) /\ h.next[TailOf(h, p)] = NULL
        /\ \A i \in 1..Len(b) : b[i].current # TailOf(h, p)
    BY <2>3 DEF Tails
  <2>5. TailOf(h, p) \in h.live \ D /\ TailOf(h, p) \in ListFrom(g, h.child[p])
    BY <2>1, <2>4, <1>10
  <2> QED BY <2>2, <2>4, <2>5, <1>3, <1>h
<1>12. Frames(g, b, age)
  <2>1. Frames(h, b, age)
    BY PushFrames DEF Shaped
  <2>2. ASSUME NEW i \in 1..Len(b) PROVE Unfinished(g, b[i], age)
    <3>1. Unfinished(h, b[i], age)
      BY <2>1 DEF Frames
    <3>2. /\ b[i].item \in h.live \ D /\ b[i].head \in h.live \ D /\ b[i].current \in h.live \ D
      BY <1>1, <1>f
    <3>3. /\ g.child[b[i].item] = h.child[b[i].item]
          /\ g.next[b[i].current] = h.next[b[i].current]
      BY <3>2, <1>3, <1>h
    <3>4. b[i].head # NULL => b[i].current \in ListFrom(g, b[i].head)
      BY <3>1, <3>2, <1>10 DEF Unfinished
    <3> QED BY <3>1, <3>2, <3>3, <3>4, <1>2 DEF Unfinished
  <2> QED BY <2>1, <2>2 DEF Frames
<1>13. r \in g.live
  BY <1>1, <1>2
<1> QED BY <1>6, <1>7, <1>9, <1>11, <1>12, <1>13 DEF Shaped, g

-----------------------------------------------------------------------------
(* Items and strings *)

\* Writes to links and types of allocated items touch no string.
LEMMA LinksKeepMemory ==
    ASSUME NEW h, Memory(h), NEW g \in Heap,
           g.live = h.live, g.isReference = h.isReference,
           g.stringIsConst = h.stringIsConst, g.string = h.string,
           g.valuestring = h.valuestring, g.text = h.text, g.fault = h.fault,
           \A n \in Node \ h.live :
                /\ g.next[n] = h.next[n] /\ g.prev[n] = h.prev[n]
                /\ g.child[n] = h.child[n] /\ g.type[n] = h.type[n]
    PROVE  Memory(g)
<1>1. Plain(g)
  BY DEF Memory, Plain
<1>2. FreedIsBlank(g)
  BY DEF Memory, FreedIsBlank
<1>3. StringsOwned(g)
  BY DEF Memory, StringsOwned, OwnsString
<1> QED BY <1>1, <1>2, <1>3 DEF Memory

\* Setting the type of an item.
LEMMA TypeKeeps ==
    ASSUME NEW h, Memory(h), NEW n \in h.live, NEW t \in Type
    PROVE  LET g == [h EXCEPT !.type[n] = t]
           IN  /\ Memory(g) /\ g \in Heap /\ g.live = h.live /\ g.next = h.next
               /\ g.prev = h.prev /\ g.child = h.child
<1> DEFINE g == [h EXCEPT !.type[n] = t]
           ty == [h.type EXCEPT ![n] = t]
<1>h. h \in Heap /\ h.live \subseteq Node /\ n \in Node
  BY LinkTypes DEF Memory, Plain
<1>1. ty \in [Node -> Type] /\ \A m \in Node \ h.live : ty[m] = h.type[m]
  BY <1>h DEF Heap
<1>2. g = [h EXCEPT !.type = ty]
  BY <1>h DEF Heap
<1> HIDE DEF ty, g
<1>3. /\ g \in Heap /\ g.live = h.live /\ g.next = h.next /\ g.prev = h.prev
      /\ g.child = h.child /\ g.type = ty /\ g.isReference = h.isReference
      /\ g.stringIsConst = h.stringIsConst /\ g.string = h.string
      /\ g.valuestring = h.valuestring /\ g.text = h.text /\ g.fault = h.fault
  BY <1>h, <1>1, <1>2 DEF Heap
<1>4. Memory(g)
  BY <1>1, <1>3, LinksKeepMemory
<1> QED BY <1>3, <1>4 DEF g

\* CloseList: links and the type of the item change.
WithList(h, f) ==
    [h EXCEPT !.prev[f.head] = f.current, !.type[f.item] = f.kind, !.child[f.item] = f.head]

LEMMA CloseKeeps ==
    ASSUME NEW h, Memory(h), NEW f, f.head \in h.live, f.current \in h.live,
           f.item \in h.live, f.kind \in ContainerType
    PROVE  LET g == WithList(h, f)
           IN  /\ Memory(g) /\ g \in Heap /\ g.live = h.live /\ g.next = h.next
               /\ g.prev = [h.prev EXCEPT ![f.head] = f.current]
               /\ g.child = [h.child EXCEPT ![f.item] = f.head]
<1> DEFINE g == WithList(h, f)
           ty == [h.type EXCEPT ![f.item] = f.kind]
           pv == [h.prev EXCEPT ![f.head] = f.current]
           ch == [h.child EXCEPT ![f.item] = f.head]
<1>h. h \in Heap /\ h.live \subseteq Node
  BY LinkTypes DEF Memory, Plain
<1>1. /\ ty \in [Node -> Type] /\ pv \in [Node -> NodePtr] /\ ch \in [Node -> NodePtr]
      /\ \A m \in Node \ h.live : /\ ty[m] = h.type[m] /\ pv[m] = h.prev[m]
                                  /\ ch[m] = h.child[m]
  BY <1>h DEF Heap, NodePtr, Type, ContainerType
<1>2. g = [h EXCEPT !.prev = pv, !.type = ty, !.child = ch]
  BY <1>h DEF Heap, WithList
<1> HIDE DEF ty, pv, ch, g
<1>3. /\ g \in Heap /\ g.live = h.live /\ g.next = h.next /\ g.prev = pv
      /\ g.child = ch /\ g.type = ty /\ g.isReference = h.isReference
      /\ g.stringIsConst = h.stringIsConst /\ g.string = h.string
      /\ g.valuestring = h.valuestring /\ g.text = h.text /\ g.fault = h.fault
  BY <1>h, <1>1, <1>2 DEF Heap
<1>4. Memory(g)
  BY <1>1, <1>3, LinksKeepMemory
<1> QED BY <1>3, <1>4 DEF g, pv, ch

\* A new item owns no strings and has no links.
LEMMA NewItemKeeps ==
    ASSUME NEW h, Memory(h), NEW n \in Node \ h.live
    PROVE  LET g == NewItem(h, n, "Invalid")
           IN  /\ Memory(g) /\ g \in Heap /\ g.live = h.live \cup {n}
               /\ g.next = h.next /\ g.prev = h.prev /\ g.child = h.child
               /\ g.string = h.string /\ g.valuestring = h.valuestring
<1> DEFINE g == NewItem(h, n, "Invalid")
           lv == h.live \cup {n}
<1>h. h \in Heap /\ h.live \subseteq Node /\ n # NULL
  BY LinkTypes, AddressAssumption DEF Memory, Plain
<1>1. /\ [h.next EXCEPT ![n] = NULL] = h.next /\ [h.prev EXCEPT ![n] = NULL] = h.prev
      /\ [h.child EXCEPT ![n] = NULL] = h.child /\ [h.type EXCEPT ![n] = "Invalid"] = h.type
      /\ [h.string EXCEPT ![n] = NULL] = h.string
      /\ [h.valuestring EXCEPT ![n] = NULL] = h.valuestring
      /\ h.isReference \ {n} = h.isReference /\ h.stringIsConst \ {n} = h.stringIsConst
  BY <1>h DEF Memory, Plain, FreedIsBlank, Heap
<1>2. g = [h EXCEPT !.live = lv, !.next = [h.next EXCEPT ![n] = NULL],
                    !.prev = [h.prev EXCEPT ![n] = NULL],
                    !.child = [h.child EXCEPT ![n] = NULL],
                    !.type = [h.type EXCEPT ![n] = "Invalid"],
                    !.isReference = h.isReference \ {n},
                    !.stringIsConst = h.stringIsConst \ {n},
                    !.string = [h.string EXCEPT ![n] = NULL],
                    !.valuestring = [h.valuestring EXCEPT ![n] = NULL]]
  BY <1>h DEF NewItem, Heap
<1>3. g = [h EXCEPT !.live = lv, !.next = h.next, !.prev = h.prev, !.child = h.child,
                    !.type = h.type, !.isReference = h.isReference,
                    !.stringIsConst = h.stringIsConst, !.string = h.string,
                    !.valuestring = h.valuestring]
  BY <1>1, <1>2
<1>4. lv \in SUBSET Node
  BY <1>h
<1> HIDE DEF g, lv
<1>5. /\ g \in Heap /\ g.live = lv /\ g.next = h.next /\ g.prev = h.prev
      /\ g.child = h.child /\ g.type = h.type /\ g.isReference = h.isReference
      /\ g.stringIsConst = h.stringIsConst /\ g.string = h.string
      /\ g.valuestring = h.valuestring /\ g.text = h.text /\ g.fault = h.fault
  BY <1>h, <1>3, <1>4 DEF Heap
<1>6. Plain(g)
  BY <1>5 DEF Memory, Plain
<1>7. FreedIsBlank(g)
  BY <1>5 DEF Memory, FreedIsBlank, lv
<1>8. StringsOwned(g)
  <2>1. \A s : ~OwnsString(h, n, s)
    BY DEF Memory, FreedIsBlank, OwnsString
  <2>2. h.string[n] = NULL
    BY DEF Memory, FreedIsBlank
  <2>3. \A m, s : OwnsString(g, m, s) <=> OwnsString(h, m, s)
    BY <1>5 DEF OwnsString
  <2> QED BY <1>5, <2>1, <2>2, <2>3 DEF Memory, StringsOwned, lv
<1>9. Memory(g)
  BY <1>6, <1>7, <1>8 DEF Memory
<1> QED BY <1>5, <1>9 DEF g, lv

\* A copy of a literal in a free block, for an item that has no such string.
LEMMA StringKeeps ==
    ASSUME NEW h, Memory(h), NEW n \in h.live, NEW s \in Str, h.text[s] = NULL,
           NEW x \in Name, NEW g \in Heap,
           g.live = h.live, g.next = h.next, g.prev = h.prev, g.child = h.child,
           g.isReference = h.isReference, g.stringIsConst = h.stringIsConst,
           g.fault = h.fault, g.text = [h.text EXCEPT ![s] = x],
           \A m \in Node \ h.live : g.type[m] = h.type[m],
           \/ /\ h.string[n] = NULL /\ g.string = [h.string EXCEPT ![n] = s]
              /\ g.valuestring = h.valuestring
           \/ /\ h.valuestring[n] = NULL /\ g.valuestring = [h.valuestring EXCEPT ![n] = s]
              /\ g.string = h.string
    PROVE  Memory(g)
<1>h. /\ h \in Heap /\ h.live \subseteq Node /\ Plain(h) /\ FreedIsBlank(h) /\ StringsOwned(h)
      /\ h.string \in [Node -> StrPtr] /\ h.valuestring \in [Node -> StrPtr]
      /\ h.text \in [Str -> Name \cup {NULL}] /\ s # NULL /\ x # NULL
  BY LinkTypes, AddressAssumption DEF Memory, Plain, Heap
<1>1. \A m \in h.live : ~OwnsString(h, m, s)
  BY <1>h DEF StringsOwned, StrPtr
<1>2. \A m \in h.live, y \in StrPtr : OwnsString(g, m, y) <=> OwnsString(h, m, y) \/ (m = n /\ y = s)
  BY <1>h DEF OwnsString
<1>3. Plain(g)
  BY <1>h DEF Plain
<1>4. FreedIsBlank(g)
  BY <1>h DEF FreedIsBlank
<1>5. StringsOwned(g)
  <2>1. ASSUME NEW m \in h.live, NEW y \in StrPtr, OwnsString(g, m, y)
        PROVE  y \in Str /\ g.text[y] # NULL
    <3>1. CASE y = s
      BY <3>1, <1>h
    <3>2. CASE y # s
      BY <2>1, <3>2, <1>2, <1>h DEF StringsOwned
    <3> QED BY <3>1, <3>2
  <2>2. ASSUME NEW m \in h.live PROVE g.string[m] = NULL \/ g.string[m] # g.valuestring[m]
    <3>1. h.string[m] # s /\ h.valuestring[m] # s
      BY <1>1, <1>h DEF OwnsString
    <3>2. h.string[m] = NULL \/ h.string[m] # h.valuestring[m]
      BY <1>h DEF StringsOwned
    <3> QED BY <3>1, <3>2, <1>h
  <2>3. ASSUME NEW k \in h.live, NEW m \in h.live, NEW y \in Str,
               OwnsString(g, k, y), OwnsString(g, m, y)
        PROVE  k = m
    <3>1. y \in StrPtr
      BY DEF StrPtr
    <3> QED BY <2>3, <3>1, <1>1, <1>2, <1>h DEF StringsOwned
  <2>4. ASSUME NEW y \in Str, g.text[y] # NULL PROVE \E m \in h.live : OwnsString(g, m, y)
    <3>1. y \in StrPtr
      BY DEF StrPtr
    <3>2. CASE y = s
      BY <3>1, <3>2, <1>2
    <3>3. CASE y # s
      BY <2>4, <3>1, <3>3, <1>2, <1>h DEF StringsOwned
    <3> QED BY <3>2, <3>3
  <2> QED BY <2>1, <2>2, <2>3, <2>4 DEF StringsOwned
<1> QED BY <1>3, <1>4, <1>5 DEF Memory

\* A copy of a literal only fills the block.
LEMMA StrdupIs ==
    ASSUME NEW h \in Heap, NEW s \in Str, NEW x \in Name
    PROVE  Strdup(h, s, x) = [h EXCEPT !.text = [h.text EXCEPT ![s] = x]]
<1>1. s # NULL /\ x \notin Str
  BY AddressAssumption
<1>2. Text(h, x) = x /\ Allocated(h, x)
  BY <1>1 DEF Text, Allocated
<1>3. Strdup(h, s, x) = [h EXCEPT !.text[s] = x, !.fault = @ \/ ~TRUE]
  BY <1>1, <1>2 DEF Strdup
<1>4. h.fault \in BOOLEAN
  BY DEF Heap
<1> QED BY <1>3, <1>4 DEF Heap

\* parse_string for a value.
TakeValue(h, n, s) == [h EXCEPT !.type[n] = "String", !.valuestring[n] = s]

LEMMA ValueKeeps ==
    ASSUME NEW h, Memory(h), NEW n \in h.live, NEW s \in Str, h.text[s] = NULL,
           NEW x \in Name, h.valuestring[n] = NULL
    PROVE  LET g == TakeValue(Strdup(h, s, x), n, s)
           IN  /\ Memory(g) /\ g \in Heap /\ g.live = h.live /\ g.next = h.next
               /\ g.prev = h.prev /\ g.child = h.child
<1> DEFINE g == TakeValue(Strdup(h, s, x), n, s)
           ty == [h.type EXCEPT ![n] = "String"]
           vs == [h.valuestring EXCEPT ![n] = s]
           tx == [h.text EXCEPT ![s] = x]
<1>h. h \in Heap /\ h.live \subseteq Node /\ n \in Node
  BY LinkTypes DEF Memory, Plain
<1>1. /\ ty \in [Node -> Type] /\ vs \in [Node -> StrPtr] /\ tx \in [Str -> Name \cup {NULL}]
      /\ \A m \in Node \ h.live : ty[m] = h.type[m]
  BY <1>h DEF Heap, Type, StrPtr
<1>2. Strdup(h, s, x) = [h EXCEPT !.text = tx]
  BY <1>h, StrdupIs
<1>3. g = [h EXCEPT !.text = tx, !.type = ty, !.valuestring = vs]
  BY <1>h, <1>2 DEF Heap, TakeValue
<1> HIDE DEF g, ty, vs
<1>4. /\ g \in Heap /\ g.live = h.live /\ g.next = h.next /\ g.prev = h.prev
      /\ g.child = h.child /\ g.type = ty /\ g.isReference = h.isReference
      /\ g.stringIsConst = h.stringIsConst /\ g.string = h.string
      /\ g.valuestring = vs /\ g.text = tx /\ g.fault = h.fault
  BY <1>h, <1>1, <1>3 DEF Heap
<1>5. Memory(g)
  <2>1. \/ /\ h.string[n] = NULL /\ g.string = [h.string EXCEPT ![n] = s]
           /\ g.valuestring = h.valuestring
        \/ /\ h.valuestring[n] = NULL /\ g.valuestring = [h.valuestring EXCEPT ![n] = s]
           /\ g.string = h.string
    BY <1>4 DEF vs
  <2>2. \A m \in Node \ h.live : g.type[m] = h.type[m]
    BY <1>1, <1>4
  <2>3. g.text = [h.text EXCEPT ![s] = x]
    BY <1>4
  <2>4. /\ g \in Heap /\ g.live = h.live /\ g.next = h.next /\ g.prev = h.prev
        /\ g.child = h.child /\ g.isReference = h.isReference
        /\ g.stringIsConst = h.stringIsConst /\ g.fault = h.fault
    BY <1>4
  <2> QED BY <2>1, <2>2, <2>3, <2>4, StringKeeps, SMTT(60)
<1> QED BY <1>4, <1>5 DEF g

\* parse_string for a name, which then moves to string.
LEMMA KeyKeeps ==
    ASSUME NEW h, Memory(h), NEW n \in h.live, NEW s \in Str, h.text[s] = NULL,
           NEW x \in Name, h.string[n] = NULL
    PROVE  LET g == TakeKey(Strdup(h, s, x), n, s)
           IN  /\ Memory(g) /\ g \in Heap /\ g.live = h.live /\ g.next = h.next
               /\ g.prev = h.prev /\ g.child = h.child /\ g.valuestring = h.valuestring
<1> DEFINE g == TakeKey(Strdup(h, s, x), n, s)
           ty == [h.type EXCEPT ![n] = "String"]
           sg == [h.string EXCEPT ![n] = s]
           tx == [h.text EXCEPT ![s] = x]
<1>h. h \in Heap /\ h.live \subseteq Node /\ n \in Node
  BY LinkTypes DEF Memory, Plain
<1>1. /\ ty \in [Node -> Type] /\ sg \in [Node -> StrPtr] /\ tx \in [Str -> Name \cup {NULL}]
      /\ \A m \in Node \ h.live : ty[m] = h.type[m]
  BY <1>h DEF Heap, Type, StrPtr
<1>2. Strdup(h, s, x) = [h EXCEPT !.text = tx]
  BY <1>h, StrdupIs
<1>3. g = [h EXCEPT !.text = tx, !.type = ty, !.string = sg]
  BY <1>h, <1>2 DEF Heap, TakeKey
<1> HIDE DEF g, ty, sg
<1>4. /\ g \in Heap /\ g.live = h.live /\ g.next = h.next /\ g.prev = h.prev
      /\ g.child = h.child /\ g.type = ty /\ g.isReference = h.isReference
      /\ g.stringIsConst = h.stringIsConst /\ g.string = sg
      /\ g.valuestring = h.valuestring /\ g.text = tx /\ g.fault = h.fault
  BY <1>h, <1>1, <1>3 DEF Heap
<1>5. Memory(g)
  <2>1. \/ /\ h.string[n] = NULL /\ g.string = [h.string EXCEPT ![n] = s]
           /\ g.valuestring = h.valuestring
        \/ /\ h.valuestring[n] = NULL /\ g.valuestring = [h.valuestring EXCEPT ![n] = s]
           /\ g.string = h.string
    BY <1>4 DEF sg
  <2>2. \A m \in Node \ h.live : g.type[m] = h.type[m]
    BY <1>1, <1>4
  <2>3. g.text = [h.text EXCEPT ![s] = x]
    BY <1>4
  <2>4. /\ g \in Heap /\ g.live = h.live /\ g.next = h.next /\ g.prev = h.prev
        /\ g.child = h.child /\ g.isReference = h.isReference
        /\ g.stringIsConst = h.stringIsConst /\ g.fault = h.fault
    BY <1>4
  <2> QED BY <2>1, <2>2, <2>3, <2>4, StringKeeps, SMTT(60)
<1> QED BY <1>4, <1>5 DEF g

\* suffix_object.
LEMMA SuffixKeeps ==
    ASSUME NEW h, Memory(h), NEW c \in h.live, NEW n \in h.live
    PROVE  LET g == SuffixObject(h, c, n)
           IN  /\ Memory(g) /\ g \in Heap /\ g.live = h.live /\ g.child = h.child
               /\ g.next = [h.next EXCEPT ![c] = n] /\ g.prev = [h.prev EXCEPT ![n] = c]
               /\ g.string = h.string /\ g.valuestring = h.valuestring
<1> DEFINE g == SuffixObject(h, c, n)
           nx == [h.next EXCEPT ![c] = n]
           pv == [h.prev EXCEPT ![n] = c]
<1>h. h \in Heap /\ h.live \subseteq Node
  BY LinkTypes DEF Memory, Plain
<1>1. /\ nx \in [Node -> NodePtr] /\ pv \in [Node -> NodePtr]
      /\ \A m \in Node \ h.live : nx[m] = h.next[m] /\ pv[m] = h.prev[m]
  BY <1>h DEF Heap, NodePtr
<1>2. g = [h EXCEPT !.next = nx, !.prev = pv]
  BY <1>h DEF Heap, SuffixObject
<1> HIDE DEF g, nx, pv
<1>3. /\ g \in Heap /\ g.live = h.live /\ g.next = nx /\ g.prev = pv
      /\ g.child = h.child /\ g.type = h.type /\ g.isReference = h.isReference
      /\ g.stringIsConst = h.stringIsConst /\ g.string = h.string
      /\ g.valuestring = h.valuestring /\ g.text = h.text /\ g.fault = h.fault
  BY <1>h, <1>1, <1>2 DEF Heap
<1>4. Memory(g)
  BY <1>1, <1>3, LinksKeepMemory
<1> QED BY <1>3, <1>4 DEF g, nx, pv

\* The heap a parse starts from.
LEMMA EmptyMemory == Memory(EmptyHeap) /\ Delete(EmptyHeap, NULL) = EmptyHeap
<1> DEFINE h == EmptyHeap
<1>1. /\ h.live = {} /\ h.isReference = {} /\ h.stringIsConst = {} /\ h.fault = FALSE
      /\ h.next = [n \in Node |-> NULL] /\ h.prev = [n \in Node |-> NULL]
      /\ h.child = [n \in Node |-> NULL] /\ h.type = [n \in Node |-> "Invalid"]
      /\ h.string = [n \in Node |-> NULL] /\ h.valuestring = [n \in Node |-> NULL]
      /\ h.text = [s \in Str |-> NULL]
  BY DEF EmptyHeap
<1>2. h \in Heap
  BY DEF EmptyHeap, Heap, NodePtr, StrPtr, Type
<1> HIDE DEF h
<1>3. Plain(h)
  BY <1>1, <1>2 DEF Plain
<1>4. FreedIsBlank(h) /\ StringsOwned(h)
  BY <1>1 DEF FreedIsBlank, StringsOwned
<1>5. Delete(h, NULL) = h
  <2>1. DeleteSet(h, NULL) = {} /\ UNION {OwnedStrings(h, n) : n \in {}} = {}
    BY DEF DeleteSet
  <2>2. DeleteIsSafe(h, NULL, {})
    BY DEF DeleteIsSafe
  <2>3. /\ \A f : f \in {h.next, h.prev, h.child, h.string, h.valuestring} =>
                    Erase(f, {}, NULL) = f
        /\ Erase(h.type, {}, "Invalid") = h.type /\ Erase(h.text, {}, NULL) = h.text
    BY <1>1 DEF Erase
  <2> DEFINE bad == h.fault \/ ~DeleteIsSafe(h, NULL, {})
  <2>4. bad = h.fault
    BY <1>1, <2>2
  <2>5. /\ h.live \ {} = h.live /\ h.isReference \ {} = h.isReference
        /\ h.stringIsConst \ {} = h.stringIsConst
    BY <1>1
  <2>6. Delete(h, NULL) =
          [h EXCEPT !.live = h.live \ {}, !.next = h.next, !.prev = h.prev,
                    !.child = h.child, !.type = h.type, !.isReference = h.isReference \ {},
                    !.stringIsConst = h.stringIsConst \ {}, !.string = h.string,
                    !.valuestring = h.valuestring, !.text = h.text, !.fault = bad]
    BY <2>1, <2>3 DEF Delete
  <2> HIDE DEF bad
  <2>7. Delete(h, NULL) =
          [h EXCEPT !.live = h.live, !.next = h.next, !.prev = h.prev,
                    !.child = h.child, !.type = h.type, !.isReference = h.isReference,
                    !.stringIsConst = h.stringIsConst, !.string = h.string,
                    !.valuestring = h.valuestring, !.text = h.text, !.fault = h.fault]
    BY <2>4, <2>5, <2>6
  <2> QED BY <1>2, <2>7 DEF Heap
<1> QED BY <1>3, <1>4, <1>5 DEF Memory, h

\* The root alone.
LEMMA RootShape ==
    ASSUME NEW h \in Heap, NEW r \in Node, h.live = {r}, h.next[r] = NULL, h.child[r] = NULL
    PROVE  Structure(h, <<>>, r)
<1> DEFINE age == [n \in Node |-> 0]
<1>1. age \in [Node -> Nat]
  OBVIOUS
<1>2. \A n \in Node : ~Begins(h, <<>>, r, n) /\ ~Follows(h, <<>>, r, n)
  BY AddressAssumption DEF Begins, Follows
<1>3. <<>> \in Seq(FrameType) /\ Len(<<>>) = 0
  OBVIOUS
<1>4. Frames(h, <<>>, age)
  BY <1>3 DEF Frames
<1> HIDE DEF age
<1>5. /\ Ordered(h, <<>>, age) /\ OnePlace(h, <<>>, r) /\ BackLinked(h) /\ Tails(h, <<>>)
  BY <1>2 DEF Ordered, OnePlace, BackLinked, Tails
<1> QED BY <1>1, <1>4, <1>5 DEF Structure, Shaped

\* A frame without elements goes without a trace.
LEMMA PopShape ==
    ASSUME NEW h, NEW b \in Seq(FrameType), NEW f \in FrameType, NEW r, NEW age,
           Shaped(h, Append(b, f), r, age), f.head = NULL
    PROVE  Shaped(h, b, r, age)
<1>1. \A m, n : Begins(h, Append(b, f), m, n) <=> Begins(h, b, m, n)
  BY PushBegins
<1>2. \A m, n : Follows(h, Append(b, f), m, n) <=> Follows(h, b, m, n)
  BY <1>1 DEF Follows
<1>3. Tails(h, b) /\ Frames(h, b, age)
  BY PushTails, PushFrames DEF Shaped
<1> QED BY <1>1, <1>2, <1>3 DEF Shaped, Ordered, OnePlace

-----------------------------------------------------------------------------
(* The steps *)

\* What holds of the item that parse_value fills.
LEMMA TargetLives ==
    ASSUME Built, stack # <<>> => Top.head # NULL
    PROVE  /\ heap \in Heap /\ heap.live \subseteq Node
           /\ Target \in heap.live /\ Target \in Node
<1>1. /\ heap \in Heap /\ heap.live \subseteq Node /\ root \in heap.live
  BY LinkTypes DEF Built, Memory, Plain, Structure
<1>2. PICK age \in [Node -> Nat] : Shaped(heap, stack, root, age)
  BY DEF Built, Structure
<1>3. ASSUME stack # <<>> PROVE Top.current \in heap.live
  <2>1. Below \in Seq(FrameType) /\ Top \in FrameType /\ stack = Append(Below, Top)
    BY <1>2, <1>3, StackSplits DEF Shaped, Frames
  <2> QED BY <1>1, <1>2, <1>3, <2>1, OldestFirst
<1> QED BY <1>1, <1>3 DEF Target

\* Steps that leave the links alone.
LEMMA SameBuilt ==
    ASSUME Built, Memory(heap'), heap'.live = heap.live, heap'.next = heap.next,
           heap'.prev = heap.prev, heap'.child = heap.child,
           stack' = stack, root' = root
    PROVE  Built'
<1>1. PICK age \in [Node -> Nat] : Shaped(heap, stack, root, age)
  BY DEF Built, Structure
<1>2. Shaped(heap', stack', root', age)
  BY <1>1, SameShape
<1> QED BY <1>1, <1>2 DEF Built, Structure

\* Nothing changes but the place.
LEMMA StaysBuilt ==
    ASSUME Built, UNCHANGED <<heap, stack, root>>
    PROVE  Built'
BY DEF Built, Memory, Plain, FreedIsBlank, StringsOwned, Structure

LEMMA BeginOwns == Ownership /\ Begin => Ownership'
<1> SUFFICES ASSUME Ownership, Begin PROVE Ownership'
  OBVIOUS
<1>1. heap = EmptyHeap /\ root = NULL /\ stack = <<>> /\ stack' = <<>>
  BY DEF Ownership, Begin
<1>2. CASE Finish(heap, 0)
  <2>1. pc' = "done" /\ root' = NULL /\ heap' = EmptyHeap
    BY <1>1, <1>2, EmptyMemory DEF Finish, GoTo
  <2> QED BY <1>1, <2>1 DEF Ownership
<1>3. CASE /\ Granted(FreeNodes(heap)) /\ root' = FreshNode(heap)
           /\ heap' = NewItem(heap, FreshNode(heap), "Invalid")
           /\ GoTo("value", SkipWhitespace(SkipBom))
  <2> DEFINE n == FreshNode(heap)
  <2>1. n \in Node \ heap.live
    BY <1>3 DEF Granted, FreeNodes, FreshNode
  <2>2. Memory(heap) /\ heap.live = {}
    BY <1>1, EmptyMemory DEF EmptyHeap
  <2>3. /\ \A m \in Node : heap.next[m] = NULL /\ heap.child[m] = NULL
        /\ \A m \in Node : heap.valuestring[m] = NULL
    BY <2>2 DEF Memory, FreedIsBlank
  <2> HIDE DEF n
  <2>4. /\ heap' = NewItem(heap, n, "Invalid") /\ root' = n /\ pc' = "value"
    BY <1>3 DEF n, GoTo
  <2>5. /\ Memory(heap') /\ heap' \in Heap /\ heap'.live = heap.live \cup {n}
        /\ heap'.next = heap.next /\ heap'.child = heap.child
        /\ heap'.valuestring = heap.valuestring
    BY <2>1, <2>2, <2>4, NewItemKeeps
  <2>6. Structure(heap', <<>>, n)
    <3>1. /\ n \in Node /\ heap'.live = {n}
          /\ heap'.next[n] = NULL /\ heap'.child[n] = NULL
      BY <2>1, <2>2, <2>3, <2>5
    <3> QED BY <2>5, <3>1, RootShape
  <2>7. Built'
    BY <1>1, <2>4, <2>5, <2>6 DEF Built
  <2>8. Target' = n /\ heap'.child[n] = NULL /\ heap'.valuestring[n] = NULL
    BY <1>1, <2>1, <2>3, <2>4, <2>5 DEF Target
  <2> QED BY <1>1, <2>4, <2>7, <2>8 DEF Ownership
<1> QED BY <1>2, <1>3 DEF Begin

\* The outermost call fails.
LEMMA FinishOwns ==
    ASSUME Built, stack = <<>>, stack' = stack, NEW o, Finish(heap, o)
    PROVE  Ownership'
<1>1. Delete(heap, root) = EmptyHeap
  BY RootFreesAll DEF Built
<1>2. pc' = "done" /\ root' = NULL /\ heap' = EmptyHeap
  BY <1>1 DEF Finish, GoTo
<1> QED BY <1>2 DEF Ownership

LEMMA EndOwns == Ownership /\ End => Ownership'
<1> SUFFICES ASSUME Ownership, End PROVE Ownership'
  OBVIOUS
<1>1. Built /\ stack = <<>> /\ stack' = stack
  BY DEF Ownership, End
<1> DEFINE o == IF required THEN SkipWhitespace(offset) ELSE offset
<1>2. CASE Finish(heap, o)
  BY <1>1, <1>2, FinishOwns
<1>3. CASE GoTo("done", o) /\ UNCHANGED <<heap, root, errorAt>>
  <2>1. pc' = "done" /\ UNCHANGED <<heap, stack, root>>
    BY <1>1, <1>3 DEF GoTo
  <2>2. Built' /\ root' # NULL
    BY <1>1, <2>1, StaysBuilt, LinkTypes DEF Built, Memory, Plain, Structure
  <2> QED BY <1>1, <2>1, <2>2 DEF Ownership
<1> QED BY <1>2, <1>3 DEF End

LEMMA UnwindOwns == Ownership /\ Unwind => Ownership'
<1> SUFFICES ASSUME Ownership, Unwind PROVE Ownership'
  OBVIOUS
<1>1. Built /\ pc = "fail"
  BY DEF Ownership, Unwind
<1>2. CASE stack = <<>> /\ Finish(heap, offset) /\ UNCHANGED stack
  BY <1>1, <1>2, FinishOwns
<1>3. CASE /\ stack # <<>> /\ heap' = DropList(heap) /\ stack' = Below
           /\ UNCHANGED <<root, offset, pc, errorAt>>
  <2>1. PICK age \in [Node -> Nat] : Shaped(heap, stack, root, age)
    BY <1>1 DEF Built, Structure
  <2>2. Below \in Seq(FrameType) /\ Top \in FrameType /\ stack = Append(Below, Top)
    BY <1>3, <2>1, StackSplits DEF Shaped, Frames
  <2>3. Memory(heap) /\ heap \in Heap /\ root \in heap.live /\ heap.live \subseteq Node
    BY <1>1, LinkTypes DEF Built, Memory, Plain, Structure
  <2>4. Memory(heap') /\ root \in heap'.live /\ Shaped(heap', Below, root, age)
    <3>1. CASE Top.head = NULL
      <4>1. heap' = heap /\ Shaped(heap, Below, root, age)
        BY <1>3, <2>1, <2>2, <3>1, PopShape DEF DropList
      <4> QED BY <2>3, <4>1
    <3>2. CASE Top.head # NULL
      <4>1. heap' = Delete(heap, Top.head)
        BY <1>3, <3>2 DEF DropList
      <4>2. Top.head \in Node /\ DeleteIsSafe(heap, Top.head, Reach(heap, {Top.head}))
        <5>1. Top.head \in NodePtr
          BY <2>2 DEF FrameType
        <5>2. DeleteIsSafe(heap, Top.head, Reach(heap, {Top.head}))
          BY <2>1, <2>2, <2>3, <3>2, Dropped
        <5> QED BY <3>2, <5>1, <5>2 DEF NodePtr
      <4>3. Memory(Delete(heap, Top.head))
        BY <2>3, <4>2, DeleteMemory
      <4>4. /\ root \in Delete(heap, Top.head).live
            /\ Shaped(Delete(heap, Top.head), Below, root, age)
        BY <2>1, <2>2, <2>3, <3>2, DropShape
      <4> QED BY <4>1, <4>3, <4>4
    <3> QED BY <3>1, <3>2
  <2>5. Built'
    <3>1. Structure(heap', Below, root)
      BY <2>1, <2>4 DEF Structure
    <3>2. stack' = Below /\ root' = root
      BY <1>3
    <3> QED BY <2>4, <3>1, <3>2 DEF Built
  <2>6. pc' = "fail"
    BY <1>1, <1>3
  <2> QED BY <2>5, <2>6 DEF Ownership
<1> QED BY <1>2, <1>3 DEF Unwind

\* A failure, and the end of a value.
LEMMA FailOwns ==
    ASSUME Built', pc' = "fail"
    PROVE  Ownership'
BY DEF Ownership

LEMMA AfterOwns ==
    ASSUME Built', pc' = "after", stack' # <<>> => Top'.head # NULL
    PROVE  Ownership'
BY DEF Ownership

\* The steps of parse_value that read a scalar or nothing.
LEMMA LiteralOwns == Ownership /\ Literal => Ownership'
<1> SUFFICES ASSUME Ownership, Literal PROVE Ownership'
  OBVIOUS
<1>1. /\ Built /\ (stack # <<>> => Top.head # NULL)
      /\ stack' = stack /\ root' = root /\ pc' = "after"
  BY DEF Ownership, Literal, Unstacked, GoTo
<1>2. Target \in heap.live /\ "Null" \in Type
  BY <1>1, TargetLives DEF Type
<1>3. heap' = [heap EXCEPT !.type[Target] = "Null"]
  BY DEF Literal
<1>4. /\ Memory(heap') /\ heap'.live = heap.live /\ heap'.next = heap.next
      /\ heap'.prev = heap.prev /\ heap'.child = heap.child
  BY <1>1, <1>2, <1>3, TypeKeeps DEF Built
<1>5. Built'
  BY <1>1, <1>4, SameBuilt
<1> QED BY <1>1, <1>5, AfterOwns DEF Top

LEMMA NumberOwns == Ownership /\ Number => Ownership'
<1> SUFFICES ASSUME Ownership, Number PROVE Ownership'
  OBVIOUS
<1>1. /\ Built /\ (stack # <<>> => Top.head # NULL)
      /\ stack' = stack /\ root' = root
  BY DEF Ownership, Number, Unstacked
<1>2. CASE pc' = "fail" /\ heap' = heap
  <2>1. Built'
    BY <1>1, <1>2, StaysBuilt
  <2> QED BY <1>2, <2>1, FailOwns
<1>3. CASE pc' = "after" /\ heap' = [heap EXCEPT !.type[Target] = "Number"]
  <2>1. Target \in heap.live /\ "Number" \in Type
    BY <1>1, TargetLives DEF Type
  <2>2. /\ Memory(heap') /\ heap'.live = heap.live /\ heap'.next = heap.next
        /\ heap'.prev = heap.prev /\ heap'.child = heap.child
    BY <1>1, <1>3, <2>1, TypeKeeps DEF Built
  <2>3. Built'
    BY <1>1, <2>2, SameBuilt
  <2> QED BY <1>1, <1>3, <2>3, AfterOwns DEF Top
<1> QED BY <1>2, <1>3 DEF Number, GoTo

LEMMA StringOwns == Ownership /\ String => Ownership'
<1> SUFFICES ASSUME Ownership, String PROVE Ownership'
  OBVIOUS
<1>1. /\ Built /\ (stack # <<>> => Top.head # NULL) /\ heap.valuestring[Target] = NULL
      /\ stack' = stack /\ root' = root
  BY DEF Ownership, String, Unstacked
<1>2. CASE pc' = "fail" /\ heap' = heap
  <2>1. Built'
    BY <1>1, <1>2, StaysBuilt
  <2> QED BY <1>2, <2>1, FailOwns
<1> DEFINE s == FreshStr(heap)
           x == text[offset + 1]
<1>3. CASE /\ pc' = "after" /\ Granted(FreeStrings(heap)) /\ x \in Name
           /\ heap' = [Strdup(heap, s, x) EXCEPT !.type[Target] = "String",
                                                 !.valuestring[Target] = s]
  <2>1. Target \in heap.live
    BY <1>1, TargetLives
  <2>2. s \in Str /\ heap.text[s] = NULL
    <3>1. s \in FreeStrings(heap)
      BY <1>3 DEF Granted, FreshStr
    <3> QED BY <3>1 DEF FreeStrings
  <2> HIDE DEF s, x
  <2>3. /\ Memory(heap') /\ heap'.live = heap.live /\ heap'.next = heap.next
        /\ heap'.prev = heap.prev /\ heap'.child = heap.child
    <3>1. Memory(heap) /\ x \in Name /\ heap.valuestring[Target] = NULL
      BY <1>1, <1>3 DEF Built
    <3>2. heap' = TakeValue(Strdup(heap, s, x), Target, s)
      BY <1>3 DEF TakeValue
    <3> QED BY <2>1, <2>2, <3>1, <3>2, ValueKeeps
  <2>4. Built'
    BY <1>1, <2>3, SameBuilt
  <2> QED BY <1>1, <1>3, <2>4, AfterOwns DEF Top
<1>4. \/ pc' = "fail" /\ heap' = heap
      \/ /\ pc' = "after" /\ Granted(FreeStrings(heap)) /\ x \in Name
         /\ heap' = [Strdup(heap, s, x) EXCEPT !.type[Target] = "String",
                                               !.valuestring[Target] = s]
  BY DEF String, GoTo, Is
<1> QED BY <1>2, <1>3, <1>4

LEMMA NoValueOwns == Ownership /\ NoValue => Ownership'
<1> SUFFICES ASSUME Ownership, NoValue PROVE Ownership'
  OBVIOUS
<1>1. Built /\ UNCHANGED <<heap, stack, root>> /\ pc' = "fail"
  BY DEF Ownership, NoValue, Unstacked, GoTo
<1> QED BY <1>1, StaysBuilt, FailOwns

\* The head of a container.
LEMMA OpenOwns ==
    ASSUME Ownership, NEW kind \in ContainerType, Open(kind)
    PROVE  Ownership'
<1>1. /\ Built /\ (stack # <<>> => Top.head # NULL) /\ heap.child[Target] = NULL
      /\ root' = root
  BY DEF Ownership, Open
<1>2. /\ heap \in Heap /\ heap.live \subseteq Node /\ Target \in heap.live
  BY <1>1, TargetLives
<1>3. CASE pc' = "fail" /\ UNCHANGED <<heap, stack>>
  BY <1>1, <1>3, StaysBuilt, FailOwns
<1>4. CASE /\ pc' = "after" /\ stack' = stack
           /\ heap' = [heap EXCEPT !.type[Target] = kind, !.child[Target] = NULL]
  <2>1. heap' = [heap EXCEPT !.type[Target] = kind]
    <3>1. [heap.child EXCEPT ![Target] = NULL] = heap.child
      BY <1>1, <1>2 DEF Heap
    <3> QED BY <3>1, <1>2, <1>4 DEF Heap
  <2>2. kind \in Type
    BY DEF Type, ContainerType
  <2>3. /\ Memory(heap') /\ heap'.live = heap.live /\ heap'.next = heap.next
        /\ heap'.prev = heap.prev /\ heap'.child = heap.child
    BY <1>1, <1>2, <2>1, <2>2, TypeKeeps DEF Built
  <2>4. Built'
    BY <1>1, <1>4, <2>3, SameBuilt
  <2> QED BY <1>1, <1>4, <2>4, AfterOwns DEF Top
<1>5. CASE pc' = "element" /\ stack' = Append(stack, Frame(kind, Target)) /\ heap' = heap
  <2>1. PICK age \in [Node -> Nat] : Shaped(heap, stack, root, age)
    BY <1>1 DEF Built, Structure
  <2>2. stack \in Seq(FrameType)
    BY <2>1 DEF Shaped, Frames
  <2>3. \A i \in 1..Len(stack) :
            stack[i].head # NULL /\ age[stack[i].current] <= age[Target]
    <3>1. CASE stack = <<>>
      BY <3>1
    <3>2. CASE stack # <<>>
      <4>1. Below \in Seq(FrameType) /\ Top \in FrameType /\ stack = Append(Below, Top)
        BY <2>2, <3>2, StackSplits
      <4> QED BY <1>1, <1>2, <2>1, <3>2, <4>1, CurrentLast DEF Target
    <3> QED BY <3>1, <3>2
  <2>4. /\ Append(stack, Frame(kind, Target)) \in Seq(FrameType)
        /\ Shaped(heap, Append(stack, Frame(kind, Target)), root, age)
    BY <1>1, <1>2, <2>1, <2>2, <2>3, OpenShape
  <2>5. Frame(kind, Target) \in FrameType
    BY <1>2 DEF Frame, FrameType, NodePtr
  <2>6. stack' # <<>>
    BY <1>5, <2>2, <2>5, Pushed
  <2>7. Memory(heap') /\ Structure(heap', stack', root')
    BY <1>1, <1>5, <2>1, <2>4 DEF Built, Structure
  <2>8. Built'
    BY <2>7 DEF Built
  <2> QED BY <1>5, <2>6, <2>8 DEF Ownership
<1> QED BY <1>3, <1>4, <1>5 DEF Open, GoTo

\* One more item, at the end of the innermost list.
Suffixed(h, g, c, n) ==
    /\ Memory(g) /\ g \in Heap /\ g.live = h.live /\ g.child = h.child
    /\ g.next = [h.next EXCEPT ![c] = n] /\ g.prev = [h.prev EXCEPT ![n] = c]
    /\ g.string = h.string /\ g.valuestring = h.valuestring

LEMMA SuffixIs ==
    ASSUME NEW h, Memory(h), NEW c \in h.live, NEW n \in h.live
    PROVE  Suffixed(h, SuffixObject(h, c, n), c, n)
BY SuffixKeeps, Zenon DEF Suffixed

AddsItem(g, n, e) ==
    /\ e \in FrameType /\ e.kind = Top.kind /\ e.head # NULL /\ e.current = n
    /\ Enlisted(heap, g, Top, n, e) /\ Memory(g) /\ g \in Heap
    /\ g.string = heap.string /\ g.valuestring = heap.valuestring
    /\ heap.string[n] = NULL /\ heap.valuestring[n] = NULL

LEMMA NewItemEnlisted ==
    ASSUME Built, stack # <<>>, NEW n \in Node \ heap.live, NEW first,
           first = IF Top.head = NULL THEN n ELSE Top.head,
           NEW g, g = Enlist(NewItem(heap, n, "Invalid"), n),
           NEW e, e = [Top EXCEPT !.head = first, !.current = n]
    PROVE  AddsItem(g, n, e)
<1> DEFINE h1 == NewItem(heap, n, "Invalid")
<1>1. Memory(heap) /\ heap \in Heap /\ root \in heap.live /\ heap.live \subseteq Node
  BY LinkTypes DEF Built, Memory, Plain, Structure
<1>2. PICK age \in [Node -> Nat] : Shaped(heap, stack, root, age)
  BY DEF Built, Structure
<1>3. Below \in Seq(FrameType) /\ Top \in FrameType /\ stack = Append(Below, Top)
  BY <1>2, StackSplits DEF Shaped, Frames
<1>4. /\ heap.next[n] = NULL /\ heap.child[n] = NULL
      /\ heap.string[n] = NULL /\ heap.valuestring[n] = NULL
  BY <1>1 DEF Memory, FreedIsBlank
<1>5. /\ e \in FrameType /\ e.item = Top.item /\ e.current = n /\ e.head = first
      /\ e.kind = Top.kind
  BY <1>3 DEF FrameType, NodePtr
<1>6. Top.head # NULL => Top.current \in heap.live /\ Top.head \in heap.live
  BY <1>1, <1>2, <1>3, OldestFirst
<1>7. /\ Memory(h1) /\ h1 \in Heap /\ h1.live = heap.live \cup {n}
      /\ h1.next = heap.next /\ h1.prev = heap.prev /\ h1.child = heap.child
      /\ h1.string = heap.string /\ h1.valuestring = heap.valuestring
  BY <1>1, NewItemKeeps
<1> HIDE DEF h1
<1>8. g = IF Top.head = NULL THEN h1 ELSE SuffixObject(h1, Top.current, n)
  BY DEF h1, Enlist
<1>9. /\ Memory(g) /\ g \in Heap /\ g.live = heap.live \cup {n} /\ g.child = heap.child
      /\ g.string = heap.string /\ g.valuestring = heap.valuestring
      /\ Top.head = NULL => g.next = heap.next /\ g.prev = heap.prev
      /\ Top.head # NULL => /\ g.next = [heap.next EXCEPT ![Top.current] = n]
                            /\ g.prev = [heap.prev EXCEPT ![n] = Top.current]
  <2>1. CASE Top.head = NULL
    BY <2>1, <1>7, <1>8
  <2>2. CASE Top.head # NULL
    <3>1. Top.current \in h1.live /\ n \in h1.live
      BY <1>6, <1>7, <2>2
    <3>2. g = SuffixObject(h1, Top.current, n)
      BY <1>8, <2>2
    <3>0. Memory(h1)
      BY <1>7
    <3>3. Suffixed(h1, g, Top.current, n)
      BY <3>0, <3>1, <3>2, SuffixIs
    <3> QED BY <1>7, <2>2, <3>3 DEF Suffixed
  <2> QED BY <2>1, <2>2
<1>10. Enlisted(heap, g, Top, n, e)
  BY <1>4, <1>5, <1>9 DEF Enlisted
<1>11. n # NULL /\ NULL \notin heap.live
  BY <1>1, AddressAssumption
<1>12. e.head # NULL
  BY <1>5, <1>11
<1> QED BY <1>4, <1>5, <1>9, <1>10, <1>12 DEF AddsItem

\* One more item is begun.
LEMMA ElementOwns == Ownership /\ Element => Ownership'
<1> SUFFICES ASSUME Ownership, Element PROVE Ownership'
  OBVIOUS
<1>1. Built /\ stack # <<>> /\ root' = root
  BY DEF Ownership, Element
<1>2. CASE pc' = "fail" /\ UNCHANGED <<heap, stack>>
  BY <1>1, <1>2, StaysBuilt, FailOwns
<1> DEFINE n == FreshNode(heap)
           first == IF Top.head = NULL THEN n ELSE Top.head
           e == [Top EXCEPT !.head = first, !.current = n]
<1>3. CASE /\ Granted(FreeNodes(heap)) /\ pc' \in {"value", "key", "fail"}
           /\ heap' = Enlist(NewItem(heap, n, "Invalid"), n)
           /\ stack' = Append(Below, e)
  <2>1. n \in Node \ heap.live
    BY <1>3 DEF Granted, FreeNodes, FreshNode
  <2>2. Memory(heap) /\ heap \in Heap /\ root \in heap.live /\ heap.live \subseteq Node
    BY <1>1, LinkTypes DEF Built, Memory, Plain, Structure
  <2>3. PICK age \in [Node -> Nat] : Shaped(heap, stack, root, age)
    BY <1>1 DEF Built, Structure
  <2>4. Below \in Seq(FrameType) /\ Top \in FrameType /\ stack = Append(Below, Top)
    BY <1>1, <2>3, StackSplits DEF Shaped, Frames
  <2> HIDE DEF n
  <2>5. /\ first = IF Top.head = NULL THEN n ELSE Top.head
        /\ e = [Top EXCEPT !.head = first, !.current = n]
    OBVIOUS
  <2> HIDE DEF first, e
  <2>6. AddsItem(heap', n, e)
    BY <1>1, <1>3, <2>1, <2>5, NewItemEnlisted
  <2>11. \E a \in [Node -> Nat] : Shaped(heap', Append(Below, e), root, a)
    <3>1. Shaped(heap, Append(Below, Top), root, age)
      BY <2>3, <2>4
    <3>2. /\ Enlisted(heap, heap', Top, n, e) /\ heap' \in Heap /\ e \in FrameType
          /\ e.kind = Top.kind
      BY <2>6 DEF AddsItem
    <3> QED BY <2>2, <2>4, <3>1, <3>2, ElementShape
  <2>12. Built'
    <3>1. Structure(heap', Append(Below, e), root)
      BY <2>2, <2>6, <2>11 DEF Structure, AddsItem, Enlisted
    <3>2. Structure(heap', stack', root')
      BY <1>1, <1>3, <3>1
    <3> QED BY <2>6, <3>2 DEF Built, AddsItem
  <2>13. stack' # <<>> /\ Top' = e
    <3>1. /\ Append(Below, e) # <<>> /\ Len(Below) \in Nat
          /\ Len(Append(Below, e)) = Len(Below) + 1 /\ Append(Below, e)[Len(Below) + 1] = e
      BY <2>4, <2>6, Pushed DEF AddsItem
    <3> QED BY <1>3, <3>1 DEF Top
  <2>14. Target' = n /\ Top'.head # NULL
    <3>1. Target' = e.current
      BY <2>13 DEF Target
    <3> QED BY <2>6, <2>13, <3>1 DEF AddsItem
  <2>15. /\ heap'.child[Target'] = NULL /\ heap'.valuestring[Target'] = NULL
         /\ heap'.string[Target'] = NULL
    BY <2>6, <2>14 DEF AddsItem, Enlisted
  <2> QED BY <1>3, <2>12, <2>13, <2>14, <2>15 DEF Ownership
<1>4. \/ pc' = "fail" /\ UNCHANGED <<heap, stack>>
      \/ /\ Granted(FreeNodes(heap)) /\ pc' \in {"value", "key", "fail"}
         /\ heap' = Enlist(NewItem(heap, n, "Invalid"), n)
         /\ stack' = Append(Below, e)
  BY DEF Element, GoTo
<1> QED BY <1>2, <1>3, <1>4

\* The name of a member.
LEMMA KeyOwns == Ownership /\ Key => Ownership'
<1> SUFFICES ASSUME Ownership, Key PROVE Ownership'
  OBVIOUS
<1>1. /\ Built /\ stack # <<>> /\ Top.head # NULL /\ Target = Top.current
      /\ heap.child[Target] = NULL /\ heap.valuestring[Target] = NULL
      /\ heap.string[Target] = NULL /\ stack' = stack /\ root' = root
  BY DEF Ownership, Key, Unstacked, Target
<1>2. CASE pc' = "fail" /\ heap' = heap
  BY <1>1, <1>2, StaysBuilt, FailOwns
<1> DEFINE s == FreshStr(heap)
           x == text[offset + 1]
<1>3. CASE /\ Granted(FreeStrings(heap)) /\ x \in Name /\ pc' \in {"value", "fail"}
           /\ heap' = TakeKey(Strdup(heap, s, x), Top.current, s)
  <2>1. Target \in heap.live
    BY <1>1, TargetLives
  <2>2. s \in Str /\ heap.text[s] = NULL
    <3>1. s \in FreeStrings(heap)
      BY <1>3 DEF Granted, FreshStr
    <3> QED BY <3>1 DEF FreeStrings
  <2> HIDE DEF s, x
  <2>3. /\ Memory(heap') /\ heap'.live = heap.live /\ heap'.next = heap.next
        /\ heap'.prev = heap.prev /\ heap'.child = heap.child
        /\ heap'.valuestring = heap.valuestring
    <3>1. Memory(heap) /\ x \in Name /\ heap.string[Target] = NULL
      BY <1>1, <1>3 DEF Built
    <3>2. heap' = TakeKey(Strdup(heap, s, x), Target, s)
      BY <1>1, <1>3
    <3> QED BY <2>1, <2>2, <3>1, <3>2, KeyKeeps
  <2>4. Built'
    BY <1>1, <2>3, SameBuilt
  <2>5. Target' = Target /\ Top' = Top
    BY <1>1 DEF Target, Top
  <2>6. heap'.child[Target'] = NULL /\ heap'.valuestring[Target'] = NULL
    BY <1>1, <2>3, <2>5
  <2> QED BY <1>1, <1>3, <2>4, <2>5, <2>6 DEF Ownership
<1>4. \/ pc' = "fail" /\ heap' = heap
      \/ /\ Granted(FreeStrings(heap)) /\ x \in Name /\ pc' \in {"value", "fail"}
         /\ heap' = TakeKey(Strdup(heap, s, x), Top.current, s)
  BY DEF Key, GoTo
<1> QED BY <1>2, <1>3, <1>4

\* A comma, the end of a list, or a failure.
LEMMA AfterValueOwns == Ownership /\ AfterValue => Ownership'
<1> SUFFICES ASSUME Ownership, AfterValue PROVE Ownership'
  OBVIOUS
<1>1. Built /\ stack # <<>> /\ Top.head # NULL /\ root' = root
  BY DEF Ownership, AfterValue
<1>2. CASE pc' = "fail" /\ UNCHANGED <<heap, stack>>
  BY <1>1, <1>2, StaysBuilt, FailOwns
<1>3. CASE pc' = "element" /\ UNCHANGED <<heap, stack>>
  <2>1. Built'
    BY <1>1, <1>3, StaysBuilt
  <2> QED BY <1>1, <1>3, <2>1 DEF Ownership
<1>4. CASE pc' = "after" /\ heap' = CloseList(heap) /\ stack' = Below
  <2>1. PICK age \in [Node -> Nat] : Shaped(heap, stack, root, age)
    BY <1>1 DEF Built, Structure
  <2>2. Below \in Seq(FrameType) /\ Top \in FrameType /\ stack = Append(Below, Top)
    BY <1>1, <2>1, StackSplits DEF Shaped, Frames
  <2>3. Memory(heap) /\ heap \in Heap /\ root \in heap.live
    BY <1>1 DEF Built, Memory, Plain, Structure
  <2>4. /\ Top.head \in heap.live /\ Top.current \in heap.live /\ Top.item \in heap.live
        /\ \A i \in 1..Len(Below) : Below[i].head \in heap.live
    BY <1>1, <2>1, <2>2, <2>3, OldestFirst
  <2>5. Top.kind \in ContainerType
    BY <2>2 DEF FrameType
  <2>6. heap' = WithList(heap, Top)
    BY <1>4 DEF CloseList, WithList
  <2>7. /\ Memory(heap') /\ heap' \in Heap /\ heap'.live = heap.live /\ heap'.next = heap.next
        /\ heap'.prev = [heap.prev EXCEPT ![Top.head] = Top.current]
        /\ heap'.child = [heap.child EXCEPT ![Top.item] = Top.head]
    BY <2>3, <2>4, <2>5, <2>6, CloseKeeps
  <2>8. Shaped(heap', Below, root, age)
    BY <1>1, <2>1, <2>2, <2>3, <2>7, CloseShape
  <2>9. Built'
    <3>1. Structure(heap', stack', root')
      BY <1>1, <1>4, <2>1, <2>3, <2>7, <2>8 DEF Structure
    <3> QED BY <2>7, <3>1 DEF Built
  <2>10. stack' # <<>> => Top'.head # NULL
    <3>1. ASSUME Below # <<>> PROVE Below[Len(Below)].head \in heap.live
      <4>1. Len(Below) \in 1..Len(Below)
        BY <2>2, <3>1
      <4> QED BY <2>4, <4>1
    <3>2. NULL \notin heap.live
      BY <2>3, LinkTypes
    <3> QED BY <1>4, <3>1, <3>2 DEF Top
  <2> QED BY <1>4, <2>9, <2>10, AfterOwns
<1> QED BY <1>2, <1>3, <1>4 DEF AfterValue, GoTo

LEMMA OwnershipInductive == Ownership /\ [Next]_vars => Ownership'
<1> SUFFICES ASSUME Ownership, [Next]_vars PROVE Ownership'
  OBVIOUS
<1>1. CASE Open("Array") \/ Open("Object")
  BY <1>1, OpenOwns DEF ContainerType
<1>2. CASE UNCHANGED vars
  BY <1>2, StaysBuilt DEF vars, Ownership, Top, Target
<1> QED BY <1>1, <1>2, BeginOwns, EndOwns, UnwindOwns, LiteralOwns, NumberOwns,
           StringOwns, NoValueOwns, ElementOwns, KeyOwns, AfterValueOwns DEF Next

LEMMA OwnershipInit == Init => Ownership
BY DEF Init, Ownership

\* What a returned tree owns is all there is, and its lists know their tail.
LEMMA OwnershipGivesAll == Ownership => AllOrNothing
<1> SUFFICES ASSUME Ownership, pc = "done"
             PROVE  /\ root = NULL => heap = EmptyHeap
                    /\ root # NULL => Delete(heap, root) = EmptyHeap
                    /\ \A n \in heap.live :
                        heap.next[n] # NULL => heap.prev[heap.next[n]] = n
                    /\ \A p \in heap.live : heap.child[p] # NULL =>
                        LET tail == heap.prev[heap.child[p]]
                        IN  tail \in Members(heap, p) /\ heap.next[tail] = NULL
  BY DEF AllOrNothing
<1>1. stack = <<>> /\ (root = NULL => heap = EmptyHeap) /\ (root # NULL => Built)
  BY DEF Ownership
<1>2. CASE root = NULL
  BY <1>1, <1>2 DEF EmptyHeap
<1>3. CASE root # NULL
  <2>1. Delete(heap, root) = EmptyHeap
    BY <1>1, <1>3, RootFreesAll DEF Built
  <2>2. BackLinked(heap) /\ Tails(heap, <<>>)
    BY <1>1, <1>3 DEF Built, Structure, Shaped
  <2> QED BY <1>3, <2>1, <2>2 DEF BackLinked, Tails, TailOf, Members
<1> QED BY <1>2, <1>3

\* Whatever the text, the nesting limit and the allocations that fail: a parse
\* that fails has freed all it had built, every block once, and a tree that a
\* parse returns owns all that was allocated, and its lists know their tail.
THEOREM ParseIsAllOrNothing == Spec => []AllOrNothing
BY OwnershipInit, OwnershipInductive, OwnershipGivesAll, PTL DEF Spec

-----------------------------------------------------------------------------
(* What is left to read.  WellFormed looks at the text from its start; these  *)
(* say what the parser, wherever it stands, still has to find for the text to *)
(* be well-formed.                                                            *)

\* A list of the n-th frame, behind an item that ends at o, goes on to the
\* bracket that ends at close.
GoesOn(t, kind, n, o, close) ==
    /\ close - 1 \in Holds(t, {Closing(kind)})
    /\ \E bar \in o..(close - 1) :
        /\ AllBlank(t, o, bar)
        /\ \/ bar = close - 1
           \/ /\ bar \in Holds(t, {Comma}) /\ bar < close - 1
              /\ Separated(t, Items(t, kind, ValuesIn(t)[NestingLimit - n]), bar, close - 1)

\* The item of the m-th frame ends at ends[m], that of the n-th at o, and the
\* value as a whole at ends[0].
Rest(t, whole, st, n, o) ==
    \E ends \in [0..n -> 0..Len(t)] :
        /\ ends[n] = o /\ EndsWell(t, whole, ends[0])
        /\ \A m \in 1..n : GoesOn(t, st[m].kind, m, ends[m], ends[m - 1])

\* One of the spans begins here, and the rest follows it.
Ahead(t, whole, st, o, spans) ==
    \E s \in spans : s[1] = o /\ Rest(t, whole, st, Len(st), s[2])

ElementsAhead(t, whole, st, o, items) ==
    \E close \in 1..Len(t) :
        /\ close - 1 \in Holds(t, {Closing(st[Len(st)].kind)}) /\ o < close - 1
        /\ Separated(t, items, o, close - 1)
        /\ Rest(t, whole, st, Len(st) - 1, close)

Inner == ValuesIn(text)[NestingLimit - Len(stack)]

\* The depth counts the frames, and what has been read so far leaves it to what
\* is left whether the text is well-formed.
Reading ==
    /\ pc = "start" => depth = 0
    /\ pc \in {"value", "key", "element", "after"} => depth = Len(stack) /\ depth <= NestingLimit
    /\ ~oom =>
        /\ pc = "value" => (WellFormed <=> Ahead(text, required, stack, offset, Inner))
        /\ pc = "key" => (WellFormed <=> Ahead(text, required, stack, offset, Named(text, Inner)))
        /\ pc = "element" =>
            (WellFormed <=> ElementsAhead(text, required, stack, offset, Items(text, Top.kind, Inner)))
        /\ pc = "after" => (WellFormed <=> Rest(text, required, stack, Len(stack), offset))
        /\ pc = "fail" => ~WellFormed
        /\ pc = "done" => (root # NULL <=> WellFormed)

-----------------------------------------------------------------------------
(* Spans *)

Span(t) == (0..(Len(t) - 1)) \X (1..Len(t))

\* No item begins with a blank, a comma or a closing bracket.
Solid(t, spans) ==
    \A s \in spans :
        /\ s[1] \in 0..(Len(t) - 1) /\ s[2] \in 1..Len(t) /\ s[1] < s[2]
        /\ t[s[1] + 1] \notin {"blank", "NUL", Comma, Closing("Array"), Closing("Object")}

\* The names of strings are none of the other symbols.
LEMMA NamesApart ==
    ASSUME NEW x \in Name
    PROVE  /\ x \notin {"blank", "NUL", "BOM", ":", "null", "number", "badNumber", "badString"}
           /\ x # Comma
           /\ \A kind \in ContainerType : x # Bracket(kind) /\ x # Closing(kind)
<1>1. x \notin Mark
  BY TextAssumption
<1> QED BY <1>1, Zenon DEF Mark, Comma, Bracket, Closing

\* And the marks are different from one another.
LEMMA MarksApart ==
    /\ Comma \notin {"blank", "NUL", "BOM", ":", "null", "number", "badNumber", "badString"}
    /\ \A kind \in ContainerType :
        /\ Bracket(kind) \notin {"blank", "NUL", "BOM", ":", "null", "number", "badNumber", "badString"}
        /\ Closing(kind) \notin {"blank", "NUL", "BOM", ":", "null", "number", "badNumber", "badString"}
        /\ Bracket(kind) # Comma /\ Closing(kind) # Comma
        /\ \A other \in ContainerType :
            /\ Bracket(kind) # Closing(other)
            /\ Bracket(kind) = Bracket(other) => kind = other
            /\ Closing(kind) = Closing(other) => kind = other
BY Zenon DEF Comma, Bracket, Closing, ContainerType

LEMMA ScalarSpans ==
    ASSUME NEW t \in Seq(Symbol)
    PROVE  /\ Scalars(t) \subseteq Span(t)
           /\ \A s \in Scalars(t) : /\ s[2] = s[1] + 1 /\ s[1] \in 0..(Len(t) - 1)
                                    /\ t[s[1] + 1] \in {"null", "number"} \cup Name
           /\ \A a \in 0..(Len(t) - 1) :
                t[a + 1] \in {"null", "number"} \cup Name => <<a, a + 1>> \in Scalars(t)
<1>1. Len(t) \in Nat
  OBVIOUS
<1> QED BY <1>1 DEF Scalars, Holds, Span

LEMMA NamedSpans ==
    ASSUME NEW t \in Seq(Symbol), NEW values
    PROVE  /\ Named(t, values) \subseteq Span(t)
           /\ \A s \in Named(t, values) : s[1] \in Holds(t, Name) /\ s[1] \in 0..(Len(t) - 1)
<1>1. Len(t) \in Nat
  OBVIOUS
<1> QED BY <1>1 DEF Named, Holds, Span

LEMMA ContainerSpans ==
    ASSUME NEW t \in Seq(Symbol), NEW kind, NEW values
    PROVE  /\ Container(t, kind, values) \subseteq Span(t)
           /\ \A s \in Container(t, kind, values) :
                /\ s[1] \in 0..(Len(t) - 1) /\ s[2] \in 1..Len(t) /\ s[1] < s[2] - 1
                /\ t[s[1] + 1] = Bracket(kind)
<1>1. Len(t) \in Nat
  OBVIOUS
<1> QED BY <1>1 DEF Container, Holds, Span

-----------------------------------------------------------------------------
(* The values of each depth.  The function that gives them is a CHOOSE, which   *)
(* says something once there is one.                                            *)

Deeper(t, inner) ==
    Scalars(t) \cup Container(t, "Array", inner) \cup Container(t, "Object", inner)

LEMMA ValuesByDepth ==
    ASSUME NEW t \in Seq(Symbol)
    PROVE  /\ ValuesIn(t)[0] = Scalars(t)
           /\ \A d \in 1..NestingLimit : ValuesIn(t)[d] = Deeper(t, ValuesIn(t)[d - 1])
<1>0. NestingLimit \in Nat
  BY TextAssumption
<1> DEFINE S == SUBSET Span(t)
           next == [x \in S |-> Deeper(t, x)]
           step == [d \in 1..NestingLimit |-> next]
<1>1. Scalars(t) \in S
  BY ScalarSpans
<1>2. next \in [S -> S]
  <2>1. \A x \in S : Deeper(t, x) \in S
    BY ScalarSpans, ContainerSpans DEF Deeper
  <2> QED BY <2>1
<1> HIDE DEF next
<1>3. step \in [1..NestingLimit -> [S -> S]]
  BY <1>2
<1> HIDE DEF S, step
<1>4. PICK f \in [0..NestingLimit -> S] : Iterates(f, Scalars(t), step, NestingLimit)
  BY <1>0, <1>1, <1>3, IterateExists
<1> DEFINE Values(g) == [d \in 0..NestingLimit |-> IF d = 0 THEN Scalars(t) ELSE Deeper(t, g[d - 1])]
<1>5. \A d \in 1..NestingLimit : f[d] = Deeper(t, f[d - 1])
  <2> SUFFICES ASSUME NEW d \in 1..NestingLimit PROVE f[d] = Deeper(t, f[d - 1])
    OBVIOUS
  <2>1. d - 1 \in 0..NestingLimit
    BY <1>0
  <2>2. f[d] = step[d][f[d - 1]] /\ f[d - 1] \in S
    BY <1>4, <2>1 DEF Iterates
  <2>3. step[d] = next
    BY DEF step
  <2> QED BY <2>2, <2>3 DEF next
<1>6. f = Values(f)
  <2>1. \A d \in 0..NestingLimit : d # 0 => d \in 1..NestingLimit
    BY <1>0
  <2> QED BY <1>4, <1>5, <2>1 DEF Iterates
<1>7. ValuesIn(t) = CHOOSE g : g = Values(g)
  BY Zenon DEF ValuesIn, Deeper
<1>8. ValuesIn(t) = Values(ValuesIn(t))
  <2> HIDE DEF Values
  <2> QED BY <1>6, <1>7
<1>9. 0 \in 0..NestingLimit /\ \A d \in 1..NestingLimit : d \in 0..NestingLimit /\ d # 0
  BY <1>0
<1> QED BY <1>8, <1>9

\* What begins with a bracket is a container of values one level down, what
\* does not is a scalar.
LEMMA ValueBegins ==
    ASSUME NEW t \in Seq(Symbol), NEW d \in 0..NestingLimit, NEW s \in ValuesIn(t)[d]
    PROVE  /\ s[1] \in 0..(Len(t) - 1) /\ s[2] \in 1..Len(t) /\ s[1] < s[2]
           /\ \/ s \in Scalars(t) /\ t[s[1] + 1] \in {"null", "number"} \cup Name
              \/ \E kind \in ContainerType :
                    /\ d # 0 /\ s \in Container(t, kind, ValuesIn(t)[d - 1])
                    /\ t[s[1] + 1] = Bracket(kind)
<1>0. NestingLimit \in Nat /\ Len(t) \in Nat
  BY TextAssumption
<1>1. CASE s \in Scalars(t)
  BY <1>0, <1>1, ScalarSpans
<1>2. CASE s \notin Scalars(t)
  <2>1. d # 0
    BY <1>2, ValuesByDepth
  <2>2. s \in Deeper(t, ValuesIn(t)[d - 1])
    BY <1>0, <2>1, ValuesByDepth
  <2>3. PICK kind \in ContainerType : s \in Container(t, kind, ValuesIn(t)[d - 1])
    BY <1>2, <2>2 DEF Deeper, ContainerType
  <2>4. /\ s[1] \in 0..(Len(t) - 1) /\ s[2] \in 1..Len(t) /\ s[1] < s[2] - 1
        /\ t[s[1] + 1] = Bracket(kind)
    BY <2>3, ContainerSpans
  <2> QED BY <1>0, <2>1, <2>3, <2>4
<1> QED BY <1>1, <1>2

LEMMA ValuesSolid ==
    ASSUME NEW t \in Seq(Symbol), NEW d \in 0..NestingLimit
    PROVE  Solid(t, ValuesIn(t)[d])
<1> SUFFICES ASSUME NEW s \in ValuesIn(t)[d]
             PROVE  /\ s[1] \in 0..(Len(t) - 1) /\ s[2] \in 1..Len(t) /\ s[1] < s[2]
                    /\ t[s[1] + 1] \notin {"blank", "NUL", Comma, Closing("Array"), Closing("Object")}
  BY DEF Solid
<1>1. \/ t[s[1] + 1] \in {"null", "number"} \cup Name
      \/ \E kind \in ContainerType : t[s[1] + 1] = Bracket(kind)
  BY ValueBegins
<1>2. t[s[1] + 1] \notin {"blank", "NUL", Comma, Closing("Array"), Closing("Object")}
  BY <1>1, NamesApart, MarksApart DEF ContainerType
<1> QED BY <1>2, ValueBegins

LEMMA NamedSolid ==
    ASSUME NEW t \in Seq(Symbol), NEW values, Solid(t, values)
    PROVE  Solid(t, Named(t, values))
<1> SUFFICES ASSUME NEW s \in Named(t, values)
             PROVE  /\ s[1] \in 0..(Len(t) - 1) /\ s[2] \in 1..Len(t) /\ s[1] < s[2]
                    /\ t[s[1] + 1] \notin {"blank", "NUL", Comma, Closing("Array"), Closing("Object")}
  BY DEF Solid
<1>1. t[s[1] + 1] \in Name /\ s[1] \in 0..(Len(t) - 1) /\ s[2] \in 1..Len(t)
  BY NamedSpans DEF Holds, Span
<1>2. PICK c \in Holds(t, {":"}), v \in values : s[1] < c /\ c < v[1] /\ v[2] = s[2]
  BY DEF Named
<1>3. v[1] \in Int /\ v[2] \in Int /\ v[1] < v[2]
  <2>1. /\ v[1] \in 0..(Len(t) - 1) /\ v[2] \in 1..Len(t) /\ v[1] < v[2]
    BY Zenon DEF Solid
  <2> QED BY <2>1
<1>c. c \in Int
  BY DEF Holds
<1>4. s[1] < s[2]
  BY <1>1, <1>2, <1>3, <1>c
<1> QED BY <1>1, <1>4, NamesApart DEF ContainerType

LEMMA ItemsSolid ==
    ASSUME NEW t \in Seq(Symbol), NEW d \in 0..NestingLimit, NEW kind
    PROVE  Solid(t, Items(t, kind, ValuesIn(t)[d]))
BY ValuesSolid, NamedSolid DEF Items

-----------------------------------------------------------------------------
(* Items between commas, one after the other *)

\* The list from p to q begins with an item, behind which it ends or goes on.
LEMMA OneByOne ==
    ASSUME NEW t \in Seq(Symbol), NEW items, NEW p \in Nat, NEW q \in Nat, p < q
    PROVE  Separated(t, items, p, q) <=>
               \E bar \in (p + 1)..q :
                   /\ Padded(t, items, p + 1, bar)
                   /\ \/ bar = q
                      \/ bar \in Holds(t, {Comma}) /\ bar < q /\ Separated(t, items, bar, q)
<1> DEFINE Between(p_, C) ==
        \A l, r \in C \cup {p_, q} :
            l < r /\ (\A m \in C \cup {p_, q} : m <= l \/ r <= m) => Padded(t, items, l + 1, r)
           Commas(p_) == SUBSET (Holds(t, {Comma}) \cap ((p_ + 1)..(q - 1)))
<1>0. \A l \in Nat : Separated(t, items, l, q) <=> \E C \in Commas(l) : Between(l, C)
  BY DEF Separated
<1>c. \A l \in Nat : \A C \in Commas(l) : \A c \in C :
          c \in Nat /\ l < c /\ c < q /\ c \in Holds(t, {Comma})
  <2> SUFFICES ASSUME NEW l \in Nat, NEW C \in Commas(l), NEW c \in C
               PROVE  c \in Nat /\ l < c /\ c < q /\ c \in Holds(t, {Comma})
    OBVIOUS
  <2>1. c \in Holds(t, {Comma}) /\ c \in (l + 1)..(q - 1)
    OBVIOUS
  <2>2. \A x \in (l + 1)..(q - 1) : x \in Nat /\ l < x /\ x < q
    OBVIOUS
  <2> QED BY <2>1, <2>2
<1> HIDE DEF Commas, Between
<1>1. ASSUME Separated(t, items, p, q)
      PROVE  \E bar \in (p + 1)..q :
                   /\ Padded(t, items, p + 1, bar)
                   /\ \/ bar = q
                      \/ bar \in Holds(t, {Comma}) /\ bar < q /\ Separated(t, items, bar, q)
  <2>1. PICK C \in Commas(p) : Between(p, C)
    BY <1>0, <1>1
  <2> DEFINE L == C \cup {q}
  <2>2. L \in SUBSET Nat /\ L # {}
    BY <1>c
  <2> HIDE DEF L
  <2>3. PICK bar \in L : \A m \in L : bar <= m
    BY <2>2, LeastElement
  <2>4. bar \in Nat /\ p < bar /\ bar <= q /\ bar \in (p + 1)..q
    BY <1>c, <2>3 DEF L
  <2>5. Padded(t, items, p + 1, bar)
    <3>1. \A m \in C \cup {p, q} : m <= p \/ bar <= m
      BY <2>3 DEF L
    <3>2. p \in C \cup {p, q} /\ bar \in C \cup {p, q}
      BY DEF L
    <3> QED BY <2>1, <2>4, <3>1, <3>2 DEF Between
  <2>6. CASE bar # q
    <3> DEFINE D == {m \in C : bar < m}
    <3>1. bar \in C /\ bar < q /\ bar \in Holds(t, {Comma})
      BY <2>4, <2>6, <1>c DEF L
    <3>2. D \in Commas(bar)
      <4>1. \A m \in D : m \in Holds(t, {Comma}) /\ m \in (bar + 1)..(q - 1)
        <5>1. \A m \in C : bar < m => m \in (bar + 1)..(q - 1)
          BY <1>c, <2>4, <2>1
        <5> QED BY <1>c, <2>1, <5>1
      <4> QED BY <4>1 DEF Commas
    <3>3. \A m \in C \cup {p, q} : m \in D \cup {bar, q} \/ m <= bar
      BY <1>c, <2>4
    <3>4. \A m \in D \cup {bar, q} : m \in C \cup {p, q} /\ bar <= m /\ m \in Nat
      BY <1>c, <2>4, <3>1
    <3>5. Between(bar, D)
      <4> SUFFICES ASSUME NEW l \in D \cup {bar, q}, NEW r \in D \cup {bar, q}, l < r,
                          \A m \in D \cup {bar, q} : m <= l \/ r <= m
                   PROVE  Padded(t, items, l + 1, r)
        BY DEF Between
      <4>1. \A m \in C \cup {p, q} : m \in Nat
        BY <1>c
      <4> HIDE DEF D
      <4>2. \A m \in C \cup {p, q} : m <= l \/ r <= m
        BY <2>4, <3>3, <3>4, <4>1
      <4>3. l \in C \cup {p, q} /\ r \in C \cup {p, q}
        BY <3>4
      <4> QED BY <2>1, <4>2, <4>3 DEF Between
    <3> HIDE DEF D
    <3>6. Separated(t, items, bar, q)
      BY <1>0, <2>4, <3>2, <3>5
    <3> QED BY <2>4, <2>5, <3>1, <3>6
  <2> QED BY <2>4, <2>5, <2>6
<1>2. ASSUME NEW bar \in (p + 1)..q, Padded(t, items, p + 1, bar),
             bar = q \/ (bar \in Holds(t, {Comma}) /\ bar < q /\ Separated(t, items, bar, q))
      PROVE  Separated(t, items, p, q)
  <2>1. CASE bar = q
    <3>1. {} \in Commas(p)
      BY DEF Commas
    <3>2. Between(p, {})
      BY <1>2, <2>1 DEF Between
    <3> QED BY <1>0, <3>1, <3>2
  <2>2. CASE bar \in Holds(t, {Comma}) /\ bar < q /\ Separated(t, items, bar, q)
    <3>0. bar \in Nat /\ p < bar
      OBVIOUS
    <3>1. PICK D \in Commas(bar) : Between(bar, D)
      BY <1>0, <2>2, <3>0
    <3> DEFINE C == D \cup {bar}
    <3>2. C \in Commas(p)
      <4>1. \A m \in C : m \in Holds(t, {Comma}) /\ m \in (p + 1)..(q - 1)
        <5>1. \A m \in D : m \in Holds(t, {Comma}) /\ m \in (p + 1)..(q - 1)
          <6>1. \A m \in D : m \in Holds(t, {Comma}) /\ m \in Nat /\ bar < m /\ m < q
            BY <1>c, <3>0, <3>1
          <6>2. \A m \in Nat : bar < m /\ m < q => m \in (p + 1)..(q - 1)
            BY <3>0
          <6> QED BY <6>1, <6>2
        <5>2. bar \in (p + 1)..(q - 1)
          BY <2>2, <3>0
        <5> QED BY <2>2, <5>1, <5>2
      <4> QED BY <4>1 DEF Commas
    <3>3. \A m \in D \cup {bar, q} : m \in C \cup {p, q} /\ bar <= m /\ m \in Nat
      BY <1>c, <2>2, <3>0
    <3>4. \A m \in C \cup {p, q} : m = p \/ m \in D \cup {bar, q}
      OBVIOUS
    <3>5. Between(p, C)
      <4> SUFFICES ASSUME NEW l \in C \cup {p, q}, NEW r \in C \cup {p, q}, l < r,
                          \A m \in C \cup {p, q} : m <= l \/ r <= m
                   PROVE  Padded(t, items, l + 1, r)
        BY DEF Between
      <4>b. bar \in C \cup {p, q} /\ bar \in D \cup {bar, q}
        OBVIOUS
      <4> HIDE DEF C
      <4>1. CASE l = p
        <5>1. r # p /\ r \in D \cup {bar, q} /\ bar <= r /\ r \in Nat
          BY <3>3, <3>4, <4>1
        <5>2. r <= bar
          BY <3>0, <4>1, <4>b
        <5>3. r = bar
          BY <3>0, <5>1, <5>2
        <5> QED BY <1>2, <4>1, <5>3
      <4>2. CASE l # p
        <5>1. l \in D \cup {bar, q} /\ bar <= l /\ l \in Nat
          BY <3>3, <3>4, <4>2
        <5>2. r # p /\ r \in D \cup {bar, q}
          BY <3>0, <3>4, <5>1
        <5>3. \A m \in D \cup {bar, q} : m <= l \/ r <= m
          BY <3>3
        <5> QED BY <3>1, <5>1, <5>2, <5>3 DEF Between
      <4> QED BY <4>1, <4>2
    <3> HIDE DEF C
    <3> QED BY <1>0, <3>2, <3>5
  <2> QED BY <1>2, <2>1, <2>2
<1> QED BY <1>1, <1>2

-----------------------------------------------------------------------------
(* Skipping blanks *)

LEMMA BlanksSkipped ==
    ASSUME text \in Seq(Symbol), NEW o \in 0..Len(text)
    PROVE  /\ AllBlank(text, o, AfterBlanks(o))
           /\ AfterBlanks(o) < Len(text) => ~Blank(text[AfterBlanks(o) + 1])
<1> DEFINE ends == {k \in o..Len(text) : CanAccess(k) => ~Blank(text[k + 1])}
<1>1. Len(text) \in Nat /\ Len(text) \in ends
  BY DEF CanAccess
<1>2. ends \in SUBSET Nat /\ ends \subseteq o..Len(text)
  BY <1>1
<1>3. AfterBlanks(o) = CHOOSE k \in ends : \A j \in ends : k <= j
  BY DEF AfterBlanks
<1>4. \E k \in ends : \A j \in ends : k <= j
  <2> HIDE DEF ends
  <2> QED BY <1>1, <1>2, LeastElement
<1>5. AfterBlanks(o) \in ends /\ \A j \in ends : AfterBlanks(o) <= j
  <2> HIDE DEF ends
  <2> QED BY <1>3, <1>4
<1>6. AllBlank(text, o, AfterBlanks(o))
  <2> SUFFICES ASSUME NEW k \in (o + 1)..AfterBlanks(o) PROVE Blank(text[k])
    BY DEF AllBlank
  <2>1. AfterBlanks(o) \in o..Len(text)
    BY <1>5
  <2>2. k - 1 \in o..Len(text) /\ k - 1 < AfterBlanks(o) /\ k - 1 + 1 = k
    BY <1>1, <2>1
  <2>3. k - 1 \notin ends
    <3> HIDE DEF ends
    <3> QED BY <1>5, <1>1, <2>1, <2>2
  <2> QED BY <2>2, <2>3
<1> QED BY <1>5, <1>6 DEF CanAccess

\* The skipping ends at x when nothing but blanks is between, and nowhere else
\* on a symbol.
LEMMA SkipsTo ==
    ASSUME text \in Seq(Symbol), NEW o \in 0..Len(text),
           NEW x \in 0..(Len(text) - 1), ~Blank(text[x + 1])
    PROVE  SkipWhitespace(o) = x <=> o <= x /\ AllBlank(text, o, x)
<1> DEFINE e == AfterBlanks(o)
<1>1. Len(text) \in Nat /\ e \in o..Len(text) /\ x + 1 \in 1..Len(text)
  BY AfterBlanksAhead
<1>2. AllBlank(text, o, e) /\ (e < Len(text) => ~Blank(text[e + 1]))
  BY BlanksSkipped
<1>3. SkipWhitespace(o) = IF o < Len(text) /\ e = Len(text) THEN e - 1 ELSE e
  BY DEF SkipWhitespace, CanAccess
<1> HIDE DEF e
<1>4. CASE e < Len(text)
  <2>1. SkipWhitespace(o) = e
    BY <1>1, <1>3, <1>4
  <2>2. ASSUME o <= x, AllBlank(text, o, x) PROVE x = e
    <3>1. x < e => x + 1 \in (o + 1)..e
      BY <1>1, <2>2
    <3>2. e < x => e + 1 \in (o + 1)..x
      BY <1>1, <2>2
    <3>3. ~(x < e) /\ ~(e < x)
      BY <1>2, <1>4, <2>2, <3>1, <3>2 DEF AllBlank
    <3> QED BY <1>1, <3>3
  <2> QED BY <1>1, <1>2, <2>1, <2>2
<1>5. CASE e = Len(text)
  <2>1. \A k \in (o + 1)..Len(text) : Blank(text[k])
    BY <1>2, <1>5 DEF AllBlank
  <2>2. ~(o <= x)
    <3>1. o <= x => x + 1 \in (o + 1)..Len(text)
      BY <1>1
    <3> QED BY <2>1, <3>1
  <2>3. SkipWhitespace(o) # x
    BY <1>1, <1>3, <1>5, <2>2
  <2> QED BY <2>2, <2>3
<1> QED BY <1>1, <1>4, <1>5

\* Behind the value, the skipping ends on the final NUL when nothing else is
\* left.
LEMMA SkipsToEnd ==
    ASSUME text \in Seq(Symbol), NEW o \in 0..Len(text)
    PROVE  Is(SkipWhitespace(o), "NUL") <=>
               o < Len(text) /\ text[Len(text)] = "NUL" /\ AllBlank(text, o, Len(text))
<1> DEFINE e == AfterBlanks(o)
<1>1. Len(text) \in Nat /\ e \in o..Len(text)
  BY AfterBlanksAhead
<1>2. AllBlank(text, o, e) /\ (e < Len(text) => ~Blank(text[e + 1]))
  BY BlanksSkipped
<1>3. SkipWhitespace(o) = IF o < Len(text) /\ e = Len(text) THEN e - 1 ELSE e
  BY DEF SkipWhitespace, CanAccess
<1> HIDE DEF e
<1>4. CASE e < Len(text)
  <2>1. SkipWhitespace(o) = e /\ e + 1 \in (o + 1)..Len(text)
    BY <1>1, <1>3, <1>4
  <2>2. ~Is(e, "NUL")
    BY <1>2, <1>4 DEF Is, Blank
  <2>3. ~AllBlank(text, o, Len(text))
    BY <1>2, <1>4, <2>1 DEF AllBlank
  <2> QED BY <2>1, <2>2, <2>3
<1>5. CASE e = Len(text) /\ o < Len(text)
  <2>1. SkipWhitespace(o) = Len(text) - 1 /\ Len(text) - 1 + 1 = Len(text)
    BY <1>1, <1>3, <1>5
  <2>2. Is(Len(text) - 1, "NUL") <=> text[Len(text)] = "NUL"
    BY <1>1, <2>1 DEF Is, CanAccess
  <2> QED BY <1>2, <1>5, <2>1, <2>2
<1>6. CASE ~(o < Len(text))
  <2>1. SkipWhitespace(o) = Len(text)
    BY <1>1, <1>3, <1>6
  <2> QED BY <1>1, <1>6, <2>1 DEF Is, CanAccess
<1> QED BY <1>1, <1>4, <1>5, <1>6

-----------------------------------------------------------------------------
(* What is left to read, frame by frame *)

LEMMA CloseInside ==
    ASSUME NEW t \in Seq(Symbol), NEW kind, NEW n, NEW o, NEW close \in Int,
           GoesOn(t, kind, n, o, close)
    PROVE  close \in 1..Len(t) /\ t[close] = Closing(kind)
<1>1. close - 1 \in 0..(Len(t) - 1) /\ t[close - 1 + 1] = Closing(kind) /\ Len(t) \in Nat
  BY DEF GoesOn, Holds
<1>2. close - 1 + 1 = close
  OBVIOUS
<1> QED BY <1>1, <1>2

LEMMA RestNone ==
    ASSUME NEW t \in Seq(Symbol), NEW whole, NEW st, NEW o \in 0..Len(t)
    PROVE  Rest(t, whole, st, 0, o) <=> EndsWell(t, whole, o)
<1>1. ASSUME EndsWell(t, whole, o) PROVE Rest(t, whole, st, 0, o)
  <2> DEFINE ends == [m \in 0..0 |-> o]
  <2>1. ends \in [0..0 -> 0..Len(t)] /\ ends[0] = o
    OBVIOUS
  <2>2. \A m \in 1..0 : GoesOn(t, st[m].kind, m, ends[m], ends[m - 1])
    OBVIOUS
  <2> HIDE DEF ends
  <2> QED BY <1>1, <2>1, <2>2 DEF Rest
<1>2. Rest(t, whole, st, 0, o) => EndsWell(t, whole, o)
  BY DEF Rest
<1> QED BY <1>1, <1>2

LEMMA RestPops ==
    ASSUME NEW t \in Seq(Symbol), NEW whole, NEW st, NEW n \in Nat, n > 0, NEW o \in 0..Len(t)
    PROVE  Rest(t, whole, st, n, o) <=>
               \E close \in 1..Len(t) :
                   GoesOn(t, st[n].kind, n, o, close) /\ Rest(t, whole, st, n - 1, close)
<1>n. n \in 1..n /\ n \in 0..n /\ n - 1 \in 0..n /\ n - 1 \in Nat /\ 0 \in 0..n
      /\ 0 \in 0..(n - 1) /\ n - 1 \in 0..(n - 1)
  OBVIOUS
<1>1. ASSUME Rest(t, whole, st, n, o)
      PROVE  \E close \in 1..Len(t) :
                   GoesOn(t, st[n].kind, n, o, close) /\ Rest(t, whole, st, n - 1, close)
  <2>1. PICK ends \in [0..n -> 0..Len(t)] :
            /\ ends[n] = o /\ EndsWell(t, whole, ends[0])
            /\ \A m \in 1..n : GoesOn(t, st[m].kind, m, ends[m], ends[m - 1])
    BY <1>1 DEF Rest
  <2>2. GoesOn(t, st[n].kind, n, o, ends[n - 1]) /\ ends[n - 1] \in 0..Len(t)
    BY <1>n, <2>1
  <2>3. ends[n - 1] \in 1..Len(t)
    BY <2>2, CloseInside
  <2> DEFINE outer == [m \in 0..(n - 1) |-> ends[m]]
  <2>4. outer \in [0..(n - 1) -> 0..Len(t)]
    <3>1. \A m \in 0..(n - 1) : m \in 0..n
      OBVIOUS
    <3> QED BY <2>1, <3>1
  <2>5. \A m \in 1..(n - 1) : m \in 1..n /\ outer[m] = ends[m] /\ outer[m - 1] = ends[m - 1]
    <3>1. \A m \in 1..(n - 1) : m \in 1..n /\ m \in 0..(n - 1) /\ m - 1 \in 0..(n - 1)
      OBVIOUS
    <3> QED BY <3>1
  <2>6. outer[n - 1] = ends[n - 1] /\ outer[0] = ends[0]
    BY <1>n
  <2> HIDE DEF outer
  <2>7. \A m \in 1..(n - 1) : GoesOn(t, st[m].kind, m, outer[m], outer[m - 1])
    BY <2>1, <2>5
  <2>8. Rest(t, whole, st, n - 1, ends[n - 1])
    BY <2>1, <2>4, <2>6, <2>7 DEF Rest
  <2> QED BY <2>2, <2>3, <2>8
<1>2. ASSUME NEW close \in 1..Len(t), GoesOn(t, st[n].kind, n, o, close),
             Rest(t, whole, st, n - 1, close)
      PROVE  Rest(t, whole, st, n, o)
  <2>1. PICK outer \in [0..(n - 1) -> 0..Len(t)] :
            /\ outer[n - 1] = close /\ EndsWell(t, whole, outer[0])
            /\ \A m \in 1..(n - 1) : GoesOn(t, st[m].kind, m, outer[m], outer[m - 1])
    BY <1>2 DEF Rest
  <2> DEFINE ends == [m \in 0..n |-> IF m = n THEN o ELSE outer[m]]
  <2>2. ends \in [0..n -> 0..Len(t)]
    <3>1. \A m \in 0..n : m # n => m \in 0..(n - 1)
      OBVIOUS
    <3> QED BY <2>1, <3>1
  <2>3. ends[n] = o /\ ends[0] = outer[0] /\ ends[n - 1] = close
    BY <1>n, <2>1
  <2>4. \A m \in 1..(n - 1) : ends[m] = outer[m] /\ ends[m - 1] = outer[m - 1]
    <3>1. \A m \in 1..(n - 1) : m \in 0..n /\ m # n /\ m - 1 \in 0..n /\ m - 1 # n
      OBVIOUS
    <3> QED BY <3>1
  <2> HIDE DEF ends
  <2>5. \A m \in 1..n : m = n \/ m \in 1..(n - 1)
    OBVIOUS
  <2>6. \A m \in 1..n : GoesOn(t, st[m].kind, m, ends[m], ends[m - 1])
    BY <1>2, <2>1, <2>3, <2>4, <2>5
  <2> QED BY <2>1, <2>2, <2>3, <2>6 DEF Rest
<1> QED BY <1>1, <1>2

\* Only the kinds of the frames matter.
LEMMA RestSame ==
    ASSUME NEW t, NEW whole, NEW st, NEW su, NEW n \in Nat, NEW o,
           \A m \in 1..n : st[m].kind = su[m].kind
    PROVE  Rest(t, whole, st, n, o) <=> Rest(t, whole, su, n, o)
BY DEF Rest

\* The elements ahead begin with an item, where the skipping of blanks ends.
LEMMA NextElement ==
    ASSUME text \in Seq(Symbol), NEW o \in 0..(Len(text) - 1), NEW whole, NEW st,
           NEW n \in 1..NestingLimit, n = Len(st), NEW items,
           items = Items(text, st[n].kind, ValuesIn(text)[NestingLimit - n])
    PROVE  ElementsAhead(text, whole, st, o, items) <=>
               Ahead(text, whole, st, SkipWhitespace(o + 1), items)
<1>0. /\ NestingLimit \in Nat /\ Len(text) \in Nat /\ o + 1 \in 0..Len(text)
      /\ NestingLimit - n \in 0..NestingLimit /\ n \in Nat /\ n > 0
  BY TextAssumption
<1> DEFINE Begins1(s) == o + 1 <= s[1] /\ AllBlank(text, o + 1, s[1])
           Bar(bar, close) ==
               \/ bar = close - 1
               \/ bar \in Holds(text, {Comma}) /\ bar < close - 1 /\ Separated(text, items, bar, close - 1)
           Close(close) == close - 1 \in Holds(text, {Closing(st[n].kind)})
<1>1. \A s \in items : /\ s[1] \in 0..(Len(text) - 1) /\ s[2] \in 1..Len(text) /\ s[1] < s[2]
                       /\ Begins1(s) <=> SkipWhitespace(o + 1) = s[1]
  <2>1. Solid(text, items)
    BY <1>0, ItemsSolid
  <2> SUFFICES ASSUME NEW s \in items
               PROVE  /\ s[1] \in 0..(Len(text) - 1) /\ s[2] \in 1..Len(text) /\ s[1] < s[2]
                      /\ Begins1(s) <=> SkipWhitespace(o + 1) = s[1]
    OBVIOUS
  <2>2. /\ s[1] \in 0..(Len(text) - 1) /\ s[2] \in 1..Len(text) /\ s[1] < s[2]
        /\ ~Blank(text[s[1] + 1])
    BY <2>1 DEF Solid, Blank
  <2> QED BY <1>0, <2>2, SkipsTo
<1>2. \A close \in 1..Len(text) : \A s \in items :
          GoesOn(text, st[n].kind, n, s[2], close) <=>
              /\ Close(close)
              /\ \E bar \in s[2]..(close - 1) : AllBlank(text, s[2], bar) /\ Bar(bar, close)
  BY DEF GoesOn
<1>3. \A close \in 1..Len(text) : o < close - 1 =>
          (Separated(text, items, o, close - 1) <=>
              \E bar \in (o + 1)..(close - 1) : Padded(text, items, o + 1, bar) /\ Bar(bar, close))
  <2> SUFFICES ASSUME NEW close \in 1..Len(text), o < close - 1
               PROVE  Separated(text, items, o, close - 1) <=>
                          \E bar \in (o + 1)..(close - 1) :
                              Padded(text, items, o + 1, bar) /\ Bar(bar, close)
    OBVIOUS
  <2>1. o \in Nat /\ close - 1 \in Nat
    BY <1>0
  <2> QED BY <2>1, OneByOne
<1> HIDE DEF Bar, Begins1, Close
<1>4. \A close \in 1..Len(text) :
          Close(close) /\ o < close - 1 /\ Separated(text, items, o, close - 1) <=>
              \E s \in items : Begins1(s) /\ GoesOn(text, st[n].kind, n, s[2], close)
  <2> SUFFICES ASSUME NEW close \in 1..Len(text)
               PROVE  Close(close) /\ o < close - 1 /\ Separated(text, items, o, close - 1) <=>
                          \E s \in items : Begins1(s) /\ GoesOn(text, st[n].kind, n, s[2], close)
    OBVIOUS
  <2>1. ASSUME Close(close), o < close - 1, Separated(text, items, o, close - 1)
        PROVE  \E s \in items : Begins1(s) /\ GoesOn(text, st[n].kind, n, s[2], close)
    <3>1. PICK bar \in (o + 1)..(close - 1) : Padded(text, items, o + 1, bar) /\ Bar(bar, close)
      BY <1>3, <2>1
    <3>2. PICK s \in items : /\ o + 1 <= s[1] /\ s[2] <= bar /\ AllBlank(text, o + 1, s[1])
                             /\ AllBlank(text, s[2], bar)
      BY <3>1 DEF Padded
    <3>3. bar \in s[2]..(close - 1)
      <4>1. s[2] \in 1..Len(text) /\ bar \in Int /\ bar <= close - 1
        BY <1>1
      <4> QED BY <3>2, <4>1
    <3> QED BY <1>2, <2>1, <3>1, <3>2, <3>3 DEF Begins1
  <2>2. ASSUME NEW s \in items, Begins1(s), GoesOn(text, st[n].kind, n, s[2], close)
        PROVE  Close(close) /\ o < close - 1 /\ Separated(text, items, o, close - 1)
    <3>1. PICK bar \in s[2]..(close - 1) : AllBlank(text, s[2], bar) /\ Bar(bar, close)
      BY <1>2, <2>2
    <3>2. Close(close)
      BY <1>2, <2>2
    <3>3. /\ s[1] \in Int /\ s[2] \in Int /\ s[1] < s[2] /\ o + 1 <= s[1]
          /\ AllBlank(text, o + 1, s[1])
      BY <1>1, <2>2 DEF Begins1
    <3>4. bar \in (o + 1)..(close - 1) /\ o < close - 1 /\ s[2] <= bar
      BY <3>3
    <3>5. Padded(text, items, o + 1, bar)
      BY <3>1, <3>3, <3>4 DEF Padded
    <3> QED BY <1>3, <3>1, <3>2, <3>4, <3>5
  <2> QED BY <2>1, <2>2
<1>5. ElementsAhead(text, whole, st, o, items) <=>
          \E close \in 1..Len(text) : \E s \in items :
              Begins1(s) /\ GoesOn(text, st[n].kind, n, s[2], close)
              /\ Rest(text, whole, st, n - 1, close)
  BY <1>4 DEF ElementsAhead, Close
<1>6. \A s \in items : Rest(text, whole, st, n, s[2]) <=>
          \E close \in 1..Len(text) :
              GoesOn(text, st[n].kind, n, s[2], close) /\ Rest(text, whole, st, n - 1, close)
  <2> SUFFICES ASSUME NEW s \in items
               PROVE  Rest(text, whole, st, n, s[2]) <=>
                          \E close \in 1..Len(text) :
                              GoesOn(text, st[n].kind, n, s[2], close)
                              /\ Rest(text, whole, st, n - 1, close)
    OBVIOUS
  <2>1. s[2] \in 0..Len(text)
    BY <1>1
  <2> QED BY SMTT(30), <1>0, <2>1, RestPops
<1> QED BY <1>1, <1>5, <1>6 DEF Ahead

LEMMA SkipTwice ==
    ASSUME text \in Seq(Symbol), NEW o \in 0..Len(text), CanAccess(SkipWhitespace(o))
    PROVE  SkipWhitespace(SkipWhitespace(o)) = SkipWhitespace(o)
<1> DEFINE e == AfterBlanks(o)
           w == SkipWhitespace(o)
           f == AfterBlanks(w)
<1>1. Len(text) \in Nat /\ e \in o..Len(text) /\ w \in o..Len(text) /\ w < Len(text)
  BY AfterBlanksAhead, SkipWhitespaceInside DEF CanAccess
<1>2. AllBlank(text, o, e) /\ (e < Len(text) => ~Blank(text[e + 1]))
  BY BlanksSkipped
<1>3. w = IF o < Len(text) /\ e = Len(text) THEN e - 1 ELSE e
  BY DEF SkipWhitespace, CanAccess
<1>4. f \in w..Len(text) /\ AllBlank(text, w, f) /\ (f < Len(text) => ~Blank(text[f + 1]))
  <2>1. w \in 0..Len(text)
    BY <1>1
  <2> HIDE DEF w, e
  <2> QED BY <2>1, AfterBlanksAhead, BlanksSkipped
<1>5. SkipWhitespace(w) = IF w < Len(text) /\ f = Len(text) THEN f - 1 ELSE f
  BY DEF SkipWhitespace, CanAccess
<1> HIDE DEF e, f, w
<1>6. w < f => w + 1 \in (w + 1)..f
  BY <1>1, <1>4
<1>7. CASE e < Len(text)
  <2>1. w = e
    BY <1>3, <1>7
  <2>2. ~(w < f)
    BY <1>2, <1>4, <1>6, <1>7, <2>1 DEF AllBlank
  <2>3. f = w /\ f < Len(text)
    BY <1>1, <1>4, <2>2
  <2> QED BY <1>1, <1>5, <2>3 DEF w
<1>8. CASE e = Len(text)
  <2>1. w = Len(text) - 1 /\ o < Len(text)
    BY <1>1, <1>3, <1>8
  <2>2. w + 1 \in (o + 1)..e /\ w + 1 = Len(text)
    BY <1>1, <1>8, <2>1
  <2>3. Blank(text[w + 1])
    BY <1>2, <2>2 DEF AllBlank
  <2>4. f # w
    BY <1>1, <1>4, <2>3
  <2>5. f = Len(text)
    BY <1>1, <1>4, <2>1, <2>4
  <2> QED BY <1>1, <1>5, <2>1, <2>5 DEF w
<1> QED BY <1>1, <1>7, <1>8

LEMMA ScalarAhead ==
    ASSUME NEW t \in Seq(Symbol), NEW whole, NEW st, NEW o \in 0..(Len(t) - 1),
           NEW d \in 0..NestingLimit, t[o + 1] \in {"null", "number"} \cup Name
    PROVE  Ahead(t, whole, st, o, ValuesIn(t)[d]) <=> Rest(t, whole, st, Len(st), o + 1)
<1>1. ASSUME NEW s \in ValuesIn(t)[d], s[1] = o PROVE s[2] = o + 1
  <2>1. \A kind \in ContainerType : t[s[1] + 1] # Bracket(kind)
    BY <1>1, NamesApart, MarksApart
  <2>2. s \in Scalars(t)
    BY <2>1, ValueBegins
  <2> QED BY <1>1, <2>2, ScalarSpans
<1>2. <<o, o + 1>> \in ValuesIn(t)[d]
  <2>1. <<o, o + 1>> \in Scalars(t)
    BY ScalarSpans
  <2>2. d = 0 \/ d \in 1..NestingLimit
    BY TextAssumption
  <2> QED BY <2>1, <2>2, ValuesByDepth DEF Deeper
<1>3. <<o, o + 1>>[1] = o /\ <<o, o + 1>>[2] = o + 1
  OBVIOUS
<1> QED BY <1>1, <1>2, <1>3 DEF Ahead

LEMMA NoneAhead ==
    ASSUME NEW t \in Seq(Symbol), NEW whole, NEW st, NEW o, NEW d \in 0..NestingLimit,
           o < Len(t) => /\ t[o + 1] \notin {"null", "number"} \cup Name
                         /\ d = 0 \/ \A kind \in ContainerType : t[o + 1] # Bracket(kind)
    PROVE  ~Ahead(t, whole, st, o, ValuesIn(t)[d])
<1> SUFFICES ASSUME NEW s \in ValuesIn(t)[d], s[1] = o PROVE FALSE
  BY DEF Ahead
<1>1. o \in 0..(Len(t) - 1) /\ Len(t) \in Nat
  BY ValueBegins
<1>2. o < Len(t)
  BY <1>1
<1> QED BY <1>2, ValueBegins

\* Inside a container that is opened at o, what is ahead is its elements.
LEMMA ContainerAhead ==
    ASSUME text \in Seq(Symbol), NEW whole, NEW st, NEW su, NEW o \in 0..(Len(text) - 1),
           Len(st) \in Nat, Len(st) < NestingLimit, Len(su) = Len(st) + 1,
           \A m \in 1..Len(st) : st[m].kind = su[m].kind,
           NEW kind \in ContainerType, su[Len(su)].kind = kind, text[o + 1] = Bracket(kind),
           NEW items, items = Items(text, kind, ValuesIn(text)[NestingLimit - Len(su)])
    PROVE  Ahead(text, whole, st, o, ValuesIn(text)[NestingLimit - Len(st)]) <=>
               \/ /\ Is(SkipWhitespace(o + 1), Closing(kind))
                  /\ Rest(text, whole, st, Len(st), SkipWhitespace(o + 1) + 1)
               \/ ElementsAhead(text, whole, su, o, items)
<1> DEFINE n == Len(st)
           w == SkipWhitespace(o + 1)
           d == NestingLimit - n
           inner == ValuesIn(text)[d - 1]
<1>0. /\ NestingLimit \in Nat /\ Len(text) \in Nat /\ o + 1 \in 0..Len(text)
      /\ d \in 1..NestingLimit /\ d \in 0..NestingLimit /\ d # 0
      /\ NestingLimit - Len(su) = d - 1 /\ Len(su) - 1 = n
  BY TextAssumption
<1>1. w \in (o + 1)..Len(text)
  BY <1>0, SkipWhitespaceInside
<1>2. \A close \in 1..Len(text) : Rest(text, whole, st, n, close) <=> Rest(text, whole, su, n, close)
  BY RestSame
<1>3. \A close \in 1..Len(text) : close - 1 \in Holds(text, {Closing(kind)}) =>
          /\ close - 1 \in 0..(Len(text) - 1)
          /\ w = close - 1 <=> o < close - 1 /\ AllBlank(text, o + 1, close - 1)
  <2> SUFFICES ASSUME NEW close \in 1..Len(text), close - 1 \in Holds(text, {Closing(kind)})
               PROVE  /\ close - 1 \in 0..(Len(text) - 1)
                      /\ w = close - 1 <=> o < close - 1 /\ AllBlank(text, o + 1, close - 1)
    OBVIOUS
  <2>1. close - 1 \in 0..(Len(text) - 1) /\ text[close - 1 + 1] = Closing(kind)
    BY DEF Holds
  <2>2. ~Blank(text[close - 1 + 1])
    BY <2>1, MarksApart DEF Blank
  <2>3. o + 1 <= close - 1 <=> o < close - 1
    <3>1. o \in Int /\ close - 1 \in Int
      OBVIOUS
    <3>2. \A x, y \in Int : x + 1 <= y <=> x < y
      OBVIOUS
    <3> QED BY <3>1, <3>2
  <2> QED BY <1>0, <2>1, <2>2, <2>3, SkipsTo
<1>4. ASSUME NEW s \in ValuesIn(text)[d], s[1] = o, Rest(text, whole, st, n, s[2])
      PROVE  (Is(w, Closing(kind)) /\ Rest(text, whole, st, n, w + 1))
             \/ ElementsAhead(text, whole, su, o, items)
  <2>1. PICK other \in ContainerType :
            s \in Container(text, other, inner) /\ text[s[1] + 1] = Bracket(other)
    <3>1. text[s[1] + 1] \notin {"null", "number"} \cup Name
      BY <1>4, NamesApart, MarksApart
    <3> QED BY <1>0, <3>1, ValueBegins
  <2>2. other = kind
    BY <1>4, <2>1, MarksApart
  <2>3. /\ s[2] \in 1..Len(text) /\ o < s[2] - 1 /\ s[2] - 1 \in Holds(text, {Closing(kind)})
        /\ \/ AllBlank(text, o + 1, s[2] - 1)
           \/ Separated(text, items, o, s[2] - 1)
    BY <1>0, <1>4, <2>1, <2>2 DEF Container
  <2>4. CASE AllBlank(text, o + 1, s[2] - 1)
    <3>1. w = s[2] - 1 /\ w + 1 = s[2] /\ w < Len(text)
      BY <1>3, <2>3, <2>4
    <3>2. Is(w, Closing(kind))
      BY <2>3, <3>1 DEF Holds, Is, CanAccess
    <3> QED BY <1>4, <3>1, <3>2
  <2>5. CASE Separated(text, items, o, s[2] - 1)
    BY <1>0, <1>2, <1>4, <2>3, <2>5 DEF ElementsAhead
  <2> QED BY <2>3, <2>4, <2>5
<1>5. ASSUME NEW close \in 1..Len(text), o < close - 1, close - 1 \in Holds(text, {Closing(kind)}),
             AllBlank(text, o + 1, close - 1) \/ Separated(text, items, o, close - 1),
             Rest(text, whole, st, n, close)
      PROVE  Ahead(text, whole, st, o, ValuesIn(text)[d])
  <2>1. o \in Holds(text, {Bracket(kind)})
    BY DEF Holds
  <2>2. <<o, close>>[1] = o /\ <<o, close>>[2] = close
    OBVIOUS
  <2>3. <<o, close>> \in Container(text, kind, inner)
    BY <1>0, <1>5, <2>1, <2>2 DEF Container
  <2>4. <<o, close>> \in ValuesIn(text)[d]
    BY <1>0, <2>3, ValuesByDepth DEF Deeper, ContainerType
  <2> QED BY <1>5, <2>2, <2>4 DEF Ahead
<1>6. ASSUME Is(w, Closing(kind)), Rest(text, whole, st, n, w + 1)
      PROVE  Ahead(text, whole, st, o, ValuesIn(text)[d])
  <2> HIDE DEF w, inner, d
  <2>0. w < Len(text) /\ text[w + 1] = Closing(kind)
    BY <1>6 DEF Is, CanAccess
  <2>1. w + 1 \in 1..Len(text) /\ w + 1 - 1 = w /\ w \in Holds(text, {Closing(kind)})
    BY <1>0, <1>1, <2>0 DEF Holds
  <2>2. PICK close \in 1..Len(text) : close = w + 1 /\ close - 1 = w
    <3> DEFINE close == w + 1
    <3>1. close \in 1..Len(text) /\ close = w + 1
      BY <2>1
    <3>2. close - 1 = w
      BY <1>0, <1>1
    <3> QED BY <3>1, <3>2
  <2>3. o < close - 1 /\ AllBlank(text, o + 1, close - 1)
    BY <1>3, <2>1, <2>2
  <2>4. close - 1 \in Holds(text, {Closing(kind)}) /\ Rest(text, whole, st, n, close)
    BY <1>6, <2>1, <2>2
  <2> QED BY <1>5, <2>3, <2>4 DEF d
<1>7. ElementsAhead(text, whole, su, o, items) => Ahead(text, whole, st, o, ValuesIn(text)[d])
  BY <1>0, <1>2, <1>5 DEF ElementsAhead
<1> QED BY <1>4, <1>6, <1>7 DEF Ahead

\* Behind a name there is a colon, and behind that the value.
LEMMA NameAhead ==
    ASSUME text \in Seq(Symbol), NEW whole, NEW st, NEW o \in 0..(Len(text) - 1),
           NEW d \in 0..NestingLimit, NEW w, w = SkipWhitespace(o + 1)
    PROVE  Ahead(text, whole, st, o, Named(text, ValuesIn(text)[d])) <=>
               /\ text[o + 1] \in Name /\ Is(w, ":")
               /\ Ahead(text, whole, st, SkipWhitespace(w + 1), ValuesIn(text)[d])
<1> DEFINE values == ValuesIn(text)[d]
<1>0. Len(text) \in Nat /\ o + 1 \in 0..Len(text)
  OBVIOUS
<1>1. w \in (o + 1)..Len(text)
  BY <1>0, SkipWhitespaceInside
<1>2. \A c \in Holds(text, {":"}) :
          /\ c \in 0..(Len(text) - 1) /\ text[c + 1] = ":"
          /\ w = c <=> o + 1 <= c /\ AllBlank(text, o + 1, c)
  <2> SUFFICES ASSUME NEW c \in Holds(text, {":"})
               PROVE  /\ c \in 0..(Len(text) - 1) /\ text[c + 1] = ":"
                      /\ w = c <=> o + 1 <= c /\ AllBlank(text, o + 1, c)
    OBVIOUS
  <2>1. c \in 0..(Len(text) - 1) /\ text[c + 1] = ":"
    BY DEF Holds
  <2>2. ~Blank(text[c + 1])
    BY <2>1 DEF Blank
  <2> QED BY <1>0, <2>1, <2>2, SkipsTo
<1>3. \A v \in values, c \in 0..(Len(text) - 1) :
          /\ v[1] \in 0..(Len(text) - 1) /\ v[2] \in 1..Len(text)
          /\ SkipWhitespace(c + 1) = v[1] <=> c + 1 <= v[1] /\ AllBlank(text, c + 1, v[1])
  <2> SUFFICES ASSUME NEW v \in values, NEW c \in 0..(Len(text) - 1)
               PROVE  /\ v[1] \in 0..(Len(text) - 1) /\ v[2] \in 1..Len(text)
                      /\ SkipWhitespace(c + 1) = v[1] <=>
                             c + 1 <= v[1] /\ AllBlank(text, c + 1, v[1])
    OBVIOUS
  <2>1. /\ v[1] \in 0..(Len(text) - 1) /\ v[2] \in 1..Len(text)
        /\ ~Blank(text[v[1] + 1])
    BY ValuesSolid DEF Solid, Blank
  <2>2. c + 1 \in 0..Len(text)
    BY <1>0
  <2> QED BY <2>1, <2>2, SkipsTo
<1> HIDE DEF values
<1>4. \A x, y \in Int : x + 1 <= y <=> x < y
  OBVIOUS
<1>5. ASSUME NEW s \in Named(text, values), s[1] = o, Rest(text, whole, st, Len(st), s[2])
      PROVE  /\ text[o + 1] \in Name /\ Is(w, ":")
             /\ Ahead(text, whole, st, SkipWhitespace(w + 1), values)
  <2>1. PICK c \in Holds(text, {":"}), v \in values :
            /\ s[1] < c /\ AllBlank(text, s[1] + 1, c)
            /\ c < v[1] /\ AllBlank(text, c + 1, v[1]) /\ v[2] = s[2]
    BY DEF Named
  <2>2. c \in 0..(Len(text) - 1) /\ c \in Int /\ o \in Int /\ text[c + 1] = ":"
    BY <1>2
  <2>3. w = c
    BY <1>2, <1>4, <1>5, <2>1, <2>2
  <2>4. v[1] \in Int
    BY <1>3, <2>2
  <2>5. SkipWhitespace(c + 1) = v[1]
    BY <1>3, <1>4, <2>1, <2>2, <2>4
  <2>6. Is(w, ":")
    BY <1>0, <2>2, <2>3 DEF Is, CanAccess
  <2>7. text[o + 1] \in Name
    BY <1>5, NamedSpans DEF Holds
  <2> QED BY <1>5, <2>1, <2>3, <2>5, <2>6, <2>7 DEF Ahead
<1>6. ASSUME text[o + 1] \in Name, Is(w, ":"),
             NEW v \in values, v[1] = SkipWhitespace(w + 1), Rest(text, whole, st, Len(st), v[2])
      PROVE  Ahead(text, whole, st, o, Named(text, values))
  <2>1. w < Len(text) /\ text[w + 1] = ":"
    BY <1>6 DEF Is, CanAccess
  <2>2. w \in 0..(Len(text) - 1) /\ w \in Int /\ o \in Int
    BY <1>0, <1>1, <2>1
  <2>3. w \in Holds(text, {":"})
    BY <2>1, <2>2 DEF Holds
  <2>4. o + 1 <= w /\ AllBlank(text, o + 1, w)
    BY <1>2, <2>3
  <2>5. w + 1 <= v[1] /\ AllBlank(text, w + 1, v[1]) /\ v[1] \in Int /\ v[2] \in 1..Len(text)
    BY <1>3, <1>6, <2>2
  <2>6. o < w /\ w < v[1]
    BY <1>4, <2>2, <2>4, <2>5
  <2>7. <<o, v[2]>>[1] = o /\ <<o, v[2]>>[2] = v[2]
    OBVIOUS
  <2>8. o \in Holds(text, Name)
    BY <1>6 DEF Holds
  <2>9. <<o, v[2]>> \in Named(text, values)
    BY <2>3, <2>4, <2>5, <2>6, <2>7, <2>8 DEF Named
  <2> QED BY <1>6, <2>7, <2>9 DEF Ahead
<1> QED BY <1>5, <1>6 DEF Ahead, values

\* Behind an item, the list ends or another comes.
LEMMA AfterAhead ==
    ASSUME text \in Seq(Symbol), NEW whole, NEW st, NEW o \in 0..Len(text),
           NEW n \in 1..NestingLimit, n = Len(st), st[n].kind \in ContainerType,
           NEW items, items = Items(text, st[n].kind, ValuesIn(text)[NestingLimit - n]),
           NEW w, w = SkipWhitespace(o)
    PROVE  Rest(text, whole, st, n, o) <=>
               \/ Is(w, Comma) /\ ElementsAhead(text, whole, st, w, items)
               \/ Is(w, Closing(st[n].kind)) /\ Rest(text, whole, st, n - 1, w + 1)
<1>0. n \in Nat /\ n > 0 /\ Len(text) \in Nat
  BY TextAssumption
<1>1. w \in o..Len(text)
  BY SkipWhitespaceInside
<1> DEFINE Close(close) == close - 1 \in Holds(text, {Closing(st[n].kind)})
           More(close) == /\ w \in Holds(text, {Comma}) /\ w < close - 1
                          /\ Separated(text, items, w, close - 1)
<1>2. ASSUME NEW close \in 1..Len(text), Close(close)
      PROVE  /\ text[close] = Closing(st[n].kind)
             /\ GoesOn(text, st[n].kind, n, o, close) <=> w = close - 1 \/ More(close)
  <2>1. close - 1 \in 0..(Len(text) - 1) /\ text[close - 1 + 1] = Closing(st[n].kind)
    BY <1>2 DEF Holds
  <2>2. close - 1 + 1 = close
    OBVIOUS
  <2>3. ASSUME NEW bar \in 0..(Len(text) - 1), bar = close - 1 \/ bar \in Holds(text, {Comma})
        PROVE  w = bar <=> o <= bar /\ AllBlank(text, o, bar)
    <3>1. text[bar + 1] = Closing(st[n].kind) \/ text[bar + 1] = Comma
      BY <2>1, <2>3 DEF Holds
    <3>2. ~Blank(text[bar + 1])
      BY <3>1, MarksApart DEF Blank
    <3> QED BY <3>2, SkipsTo
  <2>4. \A bar \in o..(close - 1) : bar \in 0..(Len(text) - 1) /\ o <= bar
    BY <1>0
  <2>5. ASSUME GoesOn(text, st[n].kind, n, o, close) PROVE w = close - 1 \/ More(close)
    <3>1. PICK bar \in o..(close - 1) :
              /\ AllBlank(text, o, bar)
              /\ \/ bar = close - 1
                 \/ /\ bar \in Holds(text, {Comma}) /\ bar < close - 1
                    /\ Separated(text, items, bar, close - 1)
      BY <2>5 DEF GoesOn
    <3>2. w = bar
      BY <2>3, <2>4, <3>1
    <3> QED BY <3>1, <3>2
  <2>6. ASSUME w = close - 1 \/ More(close) PROVE GoesOn(text, st[n].kind, n, o, close)
    <3>1. w \in 0..(Len(text) - 1) /\ w <= close - 1
      BY <1>0, <1>1, <2>1, <2>6
    <3>2. o <= w /\ AllBlank(text, o, w)
      BY <2>3, <2>6, <3>1
    <3>3. w \in o..(close - 1)
      BY <3>1, <3>2
    <3> QED BY <1>2, <2>6, <3>2, <3>3 DEF GoesOn
  <2> QED BY <2>1, <2>2, <2>5, <2>6
<1>3. Rest(text, whole, st, n, o) <=>
          \E close \in 1..Len(text) :
              /\ Close(close) /\ (w = close - 1 \/ More(close))
              /\ Rest(text, whole, st, n - 1, close)
  <2>1. Rest(text, whole, st, n, o) <=>
            \E close \in 1..Len(text) :
                GoesOn(text, st[n].kind, n, o, close) /\ Rest(text, whole, st, n - 1, close)
    BY <1>0, RestPops
  <2>2. \A close \in 1..Len(text) : GoesOn(text, st[n].kind, n, o, close) => Close(close)
    BY DEF GoesOn
  <2> HIDE DEF Close, More
  <2> QED BY <1>2, <2>1, <2>2
<1>4. Is(w, Comma) <=> w \in Holds(text, {Comma})
  BY <1>0, <1>1 DEF Is, CanAccess, Holds
<1>5. Is(w, Comma) /\ ElementsAhead(text, whole, st, w, items) <=>
          \E close \in 1..Len(text) : Close(close) /\ More(close) /\ Rest(text, whole, st, n - 1, close)
  BY <1>4 DEF ElementsAhead
<1>6. Is(w, Closing(st[n].kind)) /\ Rest(text, whole, st, n - 1, w + 1) <=>
          \E close \in 1..Len(text) :
              Close(close) /\ w = close - 1 /\ Rest(text, whole, st, n - 1, close)
  <2>1. ASSUME Is(w, Closing(st[n].kind)), Rest(text, whole, st, n - 1, w + 1)
        PROVE  \E close \in 1..Len(text) :
                   Close(close) /\ w = close - 1 /\ Rest(text, whole, st, n - 1, close)
    <3>1. w < Len(text) /\ text[w + 1] = Closing(st[n].kind)
      BY <2>1 DEF Is, CanAccess
    <3>2. w + 1 \in 1..Len(text) /\ w = w + 1 - 1 /\ w \in 0..(Len(text) - 1)
      BY <1>0, <1>1, <3>1
    <3>3. Close(w + 1)
      BY <3>1, <3>2 DEF Holds
    <3> HIDE DEF Close
    <3> QED BY <2>1, <3>2, <3>3
  <2>2. ASSUME NEW close \in 1..Len(text), Close(close), w = close - 1,
               Rest(text, whole, st, n - 1, close)
        PROVE  Is(w, Closing(st[n].kind)) /\ Rest(text, whole, st, n - 1, w + 1)
    <3>1. w + 1 = close /\ w < Len(text)
      BY <1>0, <2>2
    <3>2. text[w + 1] = Closing(st[n].kind)
      BY <1>2, <2>2, <3>1
    <3> QED BY <2>2, <3>1, <3>2 DEF Is, CanAccess
  <2> HIDE DEF Close
  <2> QED BY <2>1, <2>2
<1> HIDE DEF Close, More
<1> QED BY <1>3, <1>5, <1>6

-----------------------------------------------------------------------------
(* The steps of the parser *)

Level == NestingLimit - Len(stack)

LEMMA StackSound ==
    ASSUME Ownership, Reading, pc \in {"value", "key", "element", "after"}
    PROVE  /\ stack \in Seq(FrameType) /\ Len(stack) \in 0..NestingLimit
           /\ \A n \in 1..Len(stack) : stack[n].kind \in ContainerType
           /\ Level \in 0..NestingLimit /\ depth = Len(stack)
           /\ stack # <<>> => Len(stack) \in 1..NestingLimit
           /\ root # NULL
<1>1. Built
  BY DEF Ownership
<1>2. stack \in Seq(FrameType) /\ root \in heap.live /\ heap.live \subseteq Node
  BY <1>1 DEF Built, Structure, Shaped, Frames, Memory, Plain, Heap
<1>3. Len(stack) \in Nat /\ \A n \in 1..Len(stack) : stack[n] \in FrameType
  BY <1>2
<1>4. \A n \in 1..Len(stack) : stack[n].kind \in ContainerType
  BY <1>3 DEF FrameType
<1>5. depth = Len(stack) /\ depth <= NestingLimit /\ NestingLimit \in Nat
  BY TextAssumption DEF Reading
<1>6. root # NULL
  BY <1>2, AddressAssumption
<1>7. stack # <<>> => Len(stack) # 0
  BY <1>2
<1>8. Len(stack) \in 0..NestingLimit /\ Level \in 0..NestingLimit
  BY <1>3, <1>5 DEF Level
<1>9. stack # <<>> => Len(stack) \in 1..NestingLimit
  BY <1>3, <1>5, <1>7
<1> QED BY <1>2, <1>4, <1>5, <1>6, <1>8, <1>9

LEMMA SameText ==
    ASSUME UNCHANGED buffer
    PROVE  text' = text /\ required' = required /\ (WellFormed' <=> WellFormed)
BY DEF buffer, WellFormed, SkipBom, Is, CanAccess

LEMMA ReadingFails ==
    ASSUME UNCHANGED buffer, pc' = "fail", ~oom' => ~WellFormed
    PROVE  Reading'
BY SameText DEF Reading

LEMMA ReadingDone ==
    ASSUME UNCHANGED buffer, pc' = "done", ~oom' => (root' # NULL <=> WellFormed)
    PROVE  Reading'
BY SameText DEF Reading

LEMMA ReadingAfter ==
    ASSUME UNCHANGED buffer, pc' = "after", depth' = Len(stack'), depth' <= NestingLimit,
           ~oom' => (WellFormed <=> Rest(text, required, stack', Len(stack'), offset'))
    PROVE  Reading'
BY SameText DEF Reading

LEMMA ReadingValue ==
    ASSUME UNCHANGED buffer, pc' = "value", depth' = Len(stack'), depth' <= NestingLimit,
           ~oom' => (WellFormed <=> Ahead(text, required, stack', offset', ValuesIn(text)[Level']))
    PROVE  Reading'
BY SameText DEF Reading, Level, Inner

LEMMA ReadingKey ==
    ASSUME UNCHANGED buffer, pc' = "key", depth' = Len(stack'), depth' <= NestingLimit,
           ~oom' => (WellFormed <=>
               Ahead(text, required, stack', offset', Named(text, ValuesIn(text)[Level'])))
    PROVE  Reading'
BY SameText DEF Reading, Level, Inner

LEMMA ReadingElement ==
    ASSUME UNCHANGED buffer, pc' = "element", depth' = Len(stack'), depth' <= NestingLimit,
           ~oom' => (WellFormed <=>
               ElementsAhead(text, required, stack', offset',
                             Items(text, Top'.kind, ValuesIn(text)[Level'])))
    PROVE  Reading'
BY SameText DEF Reading, Level, Inner

\* The value of the whole text begins where the first blanks end.
LEMMA ValueAhead ==
    ASSUME text \in Seq(Symbol), text # <<>>
    PROVE  WellFormed <=>
               Ahead(text, required, <<>>, SkipWhitespace(SkipBom), ValuesIn(text)[NestingLimit])
<1>1. Len(text) \in Nat /\ Len(text) > 0 /\ NestingLimit \in 0..NestingLimit
  BY TextAssumption
<1>2. SkipBom \in 0..Len(text)
  BY <1>1 DEF SkipBom
<1>3. \A s \in ValuesIn(text)[NestingLimit] :
          /\ s[2] \in 0..Len(text)
          /\ SkipWhitespace(SkipBom) = s[1] <=> SkipBom <= s[1] /\ AllBlank(text, SkipBom, s[1])
  <2> SUFFICES ASSUME NEW s \in ValuesIn(text)[NestingLimit]
               PROVE  /\ s[2] \in 0..Len(text)
                      /\ SkipWhitespace(SkipBom) = s[1] <=>
                             SkipBom <= s[1] /\ AllBlank(text, SkipBom, s[1])
    OBVIOUS
  <2>1. /\ s[1] \in 0..(Len(text) - 1) /\ s[2] \in 1..Len(text)
        /\ ~Blank(text[s[1] + 1])
    BY <1>1, ValuesSolid DEF Solid, Blank
  <2> QED BY <1>2, <2>1, SkipsTo
<1>4. \A s \in ValuesIn(text)[NestingLimit] :
          Rest(text, required, <<>>, Len(<<>>), s[2]) <=> EndsWell(text, required, s[2])
  BY <1>3, RestNone
<1> QED BY <1>3, <1>4 DEF WellFormed, Ahead

LEMMA NothingInNoText ==
    ASSUME text = <<>> PROVE ~WellFormed
<1>1. text \in Seq(Symbol) /\ Len(text) = 0 /\ NestingLimit \in 0..NestingLimit
  BY TextAssumption
<1>2. \A s \in ValuesIn(text)[NestingLimit] : s[1] \in 0..(Len(text) - 1)
  BY <1>1, ValueBegins
<1> QED BY <1>1, <1>2 DEF WellFormed

LEMMA BeginReads ==
    ASSUME Place, Ownership, Reading, Begin
    PROVE  Reading'
<1>0. UNCHANGED buffer /\ text \in Seq(Symbol) /\ NestingLimit \in Nat
  BY TextAssumption DEF Begin, Place
<1>1. CASE text = <<>>
  <2>1. pc' = "done" /\ root' = NULL
    BY <1>1 DEF Begin, Finish, GoTo
  <2> QED BY <1>0, <1>1, <2>1, NothingInNoText, ReadingDone
<1>2. CASE text # <<>> /\ Refused(FreeNodes(heap)) /\ Finish(heap, 0)
  BY <1>0, <1>2, ReadingDone DEF Refused, Finish, GoTo
<1>3. CASE /\ text # <<>> /\ GoTo("value", SkipWhitespace(SkipBom))
           /\ UNCHANGED <<depth, stack>>
  <2>1. stack' = <<>> /\ depth' = 0 /\ Len(stack') = 0 /\ Level' = NestingLimit
    BY <1>0, <1>3 DEF Begin, Ownership, Reading, Level
  <2>2. pc' = "value" /\ offset' = SkipWhitespace(SkipBom)
    BY <1>3 DEF GoTo
  <2> QED BY <1>0, <1>3, <2>1, <2>2, ValueAhead, ReadingValue
<1> QED BY <1>1, <1>2, <1>3 DEF Begin

LEMMA EndReads ==
    ASSUME Place, Ownership, Reading, End
    PROVE  Reading'
<1>0. /\ UNCHANGED buffer /\ text \in Seq(Symbol) /\ offset \in 0..Len(text)
      /\ pc = "after" /\ stack = <<>> /\ oom' = oom
  BY DEF End, Place
<1>1. root # NULL
  BY <1>0, StackSound
<1>2. ~oom => (WellFormed <=> EndsWell(text, required, offset))
  <2>1. Len(stack) = 0
    BY <1>0
  <2> QED BY <1>0, <2>1, RestNone DEF Reading
<1> DEFINE o == IF required THEN SkipWhitespace(offset) ELSE offset
<1>3. EndsWell(text, required, offset) <=> ~(required /\ ~Is(o, "NUL"))
  BY <1>0, SkipsToEnd DEF EndsWell
<1>4. CASE required /\ ~Is(o, "NUL")
  <2>1. pc' = "done" /\ root' = NULL
    BY <1>4 DEF End, Finish, GoTo
  <2> QED BY <1>0, <1>2, <1>3, <1>4, <2>1, ReadingDone
<1>5. CASE ~(required /\ ~Is(o, "NUL"))
  <2>1. pc' = "done" /\ root' = root
    BY <1>5 DEF End, GoTo
  <2> QED BY <1>0, <1>1, <1>2, <1>3, <1>5, <2>1, ReadingDone
<1> QED BY <1>4, <1>5

LEMMA UnwindReads ==
    ASSUME Reading, Unwind
    PROVE  Reading'
<1>0. UNCHANGED buffer /\ oom' = oom /\ (~oom => ~WellFormed)
  BY DEF Unwind, Reading
<1>1. pc' = "fail" \/ (pc' = "done" /\ root' = NULL)
  BY DEF Unwind, Finish, GoTo
<1> QED BY <1>0, <1>1, ReadingFails, ReadingDone

\* A scalar is read whole, and what begins no value fails.
LEMMA ScalarRead ==
    ASSUME Place, Ownership, Reading, pc = "value", Unstacked, depth' = depth,
           oom' = oom \/ oom' = TRUE
    PROVE  /\ Is(offset, "null") \/ Is(offset, "number")
                \/ (CanAccess(offset) /\ text[offset + 1] \in Name)
              => (GoTo("after", offset + 1) => Reading')
           /\ (CanAccess(offset) => /\ text[offset + 1] \notin {"null", "number"} \cup Name
                                    /\ Level = 0 \/ \A kind \in ContainerType :
                                                        text[offset + 1] # Bracket(kind))
              => (pc' = "fail" => Reading')
<1>0. /\ UNCHANGED buffer /\ stack' = stack /\ text \in Seq(Symbol) /\ offset \in 0..Len(text)
      /\ Level \in 0..NestingLimit /\ depth = Len(stack) /\ depth <= NestingLimit
  BY StackSound DEF Unstacked, Place, Reading
<1>1. ~oom' => (WellFormed <=> Ahead(text, required, stack, offset, ValuesIn(text)[Level]))
  BY DEF Reading, Inner, Level
<1>2. ASSUME Is(offset, "null") \/ Is(offset, "number")
                \/ (CanAccess(offset) /\ text[offset + 1] \in Name),
             GoTo("after", offset + 1)
      PROVE  Reading'
  <2>1. offset \in 0..(Len(text) - 1) /\ text[offset + 1] \in {"null", "number"} \cup Name
    BY <1>0, <1>2 DEF Is, CanAccess
  <2>2. Ahead(text, required, stack, offset, ValuesIn(text)[Level])
            <=> Rest(text, required, stack, Len(stack), offset + 1)
    BY <1>0, <2>1, ScalarAhead
  <2> QED BY <1>0, <1>1, <1>2, <2>2, ReadingAfter DEF GoTo
<1>3. ASSUME CanAccess(offset) => /\ text[offset + 1] \notin {"null", "number"} \cup Name
                                  /\ Level = 0 \/ \A kind \in ContainerType :
                                                      text[offset + 1] # Bracket(kind),
             pc' = "fail"
      PROVE  Reading'
  <2>1. ~Ahead(text, required, stack, offset, ValuesIn(text)[Level])
    BY <1>0, <1>3, NoneAhead DEF CanAccess
  <2> QED BY <1>0, <1>1, <1>3, <2>1, ReadingFails
<1> QED BY <1>2, <1>3

LEMMA LiteralReads ==
    ASSUME Place, Ownership, Reading, Literal
    PROVE  Reading'
BY ScalarRead DEF Literal

LEMMA NumberReads ==
    ASSUME Place, Ownership, Reading, Number
    PROVE  Reading'
<1>1. CASE Refused(FreeStrings(heap)) /\ GoTo("fail", offset)
  BY <1>1, ReadingFails DEF Number, Unstacked, Refused, GoTo, buffer
<1>2. CASE Granted(FreeStrings(heap)) /\ Is(offset, "number") /\ GoTo("after", offset + 1)
  BY <1>2, ScalarRead DEF Number, Granted
<1>3. CASE Granted(FreeStrings(heap)) /\ ~Is(offset, "number") /\ GoTo("fail", offset)
  <2>1. Is(offset, "badNumber")
    BY <1>3 DEF Number
  <2>2. /\ text[offset + 1] \notin {"null", "number"} \cup Name
        /\ \A kind \in ContainerType : text[offset + 1] # Bracket(kind)
    BY <2>1, NamesApart, MarksApart DEF Is
  <2> QED BY <1>3, <2>2, ScalarRead DEF Number, Granted, GoTo
<1> QED BY <1>1, <1>2, <1>3 DEF Number

LEMMA StringReads ==
    ASSUME Place, Ownership, Reading, String
    PROVE  Reading'
<1>1. CASE Is(offset, "badString") /\ GoTo("fail", offset + 1) /\ oom' = oom
  <2>1. /\ text[offset + 1] \notin {"null", "number"} \cup Name
        /\ \A kind \in ContainerType : text[offset + 1] # Bracket(kind)
    BY <1>1, NamesApart, MarksApart DEF Is
  <2> QED BY <1>1, <2>1, ScalarRead DEF String, GoTo
<1>2. CASE Refused(FreeStrings(heap)) /\ GoTo("fail", offset + 1)
  BY <1>2, ReadingFails DEF String, Unstacked, Refused, GoTo, buffer
<1>3. CASE ~Is(offset, "badString") /\ Granted(FreeStrings(heap)) /\ GoTo("after", offset + 1)
  <2>1. CanAccess(offset) /\ text[offset + 1] \in Name
    BY <1>3 DEF String, Is
  <2> QED BY <1>3, <2>1, ScalarRead DEF String, Granted
<1> QED BY <1>1, <1>2, <1>3 DEF String

LEMMA NoValueReads ==
    ASSUME Place, Ownership, Reading, NoValue
    PROVE  Reading'
<1>1. CanAccess(offset) => /\ text[offset + 1] \notin {"null", "number"} \cup Name
                           /\ \A kind \in ContainerType : text[offset + 1] # Bracket(kind)
  BY DEF NoValue, ContainerType
<1> QED BY <1>1, ScalarRead DEF NoValue, GoTo

LEMMA OpenReads ==
    ASSUME Place, Ownership, Reading, NEW kind \in ContainerType, Open(kind)
    PROVE  Reading'
<1> DEFINE w == SkipWhitespace(offset + 1)
           n == Len(stack)
<1>0. /\ UNCHANGED buffer /\ text \in Seq(Symbol) /\ Len(text) \in Nat
      /\ offset \in 0..(Len(text) - 1) /\ text[offset + 1] = Bracket(kind)
      /\ pc = "value" /\ oom' = oom
  BY DEF Open, Place, Is, CanAccess
<1>1. /\ stack \in Seq(FrameType) /\ n \in 0..NestingLimit /\ Level \in 0..NestingLimit
      /\ depth = n /\ depth <= NestingLimit /\ NestingLimit \in Nat /\ n \in Nat
  BY <1>0, StackSound, TextAssumption DEF Reading
<1>2. ~oom => (WellFormed <=> Ahead(text, required, stack, offset, ValuesIn(text)[Level]))
  BY <1>0 DEF Reading, Inner, Level
<1>3. TooDeep <=> Level = 0
  BY <1>1 DEF TooDeep, Level
<1>4. CASE TooDeep /\ GoTo("fail", offset)
  <2>1. text[offset + 1] \notin {"null", "number"} \cup Name
    BY <1>0, NamesApart, MarksApart
  <2>2. ~Ahead(text, required, stack, offset, ValuesIn(text)[Level])
    BY <1>0, <1>1, <1>3, <1>4, <2>1, NoneAhead
  <2> QED BY <1>0, <1>2, <1>4, <2>2, ReadingFails DEF GoTo
<1> DEFINE su == Append(stack, Frame(kind, Target))
           items == Items(text, kind, ValuesIn(text)[NestingLimit - Len(su)])
<1>5. /\ Len(su) = n + 1 /\ su[n + 1].kind = kind
      /\ \A m \in 1..n : stack[m].kind = su[m].kind
  BY <1>1 DEF Frame
<1>6. ASSUME ~TooDeep
      PROVE  Ahead(text, required, stack, offset, ValuesIn(text)[Level]) <=>
                 \/ Is(w, Closing(kind)) /\ Rest(text, required, stack, n, w + 1)
                 \/ ElementsAhead(text, required, su, offset, items)
  <2>1. n < NestingLimit
    BY <1>1, <1>6 DEF TooDeep
  <2> HIDE DEF su
  <2>2. /\ offset \in 0..(Len(text) - 1) /\ text[offset + 1] = Bracket(kind)
        /\ Len(stack) \in Nat /\ Len(stack) < NestingLimit /\ Len(su) = Len(stack) + 1
        /\ \A m \in 1..Len(stack) : stack[m].kind = su[m].kind
        /\ su[Len(su)].kind = kind
    BY <1>0, <1>1, <1>5, <2>1
  <2>3. items = Items(text, kind, ValuesIn(text)[NestingLimit - Len(su)])
    OBVIOUS
  <2> HIDE DEF items
  <2>4. Ahead(text, required, stack, offset, ValuesIn(text)[NestingLimit - Len(stack)]) <=>
            \/ Is(SkipWhitespace(offset + 1), Closing(kind))
               /\ Rest(text, required, stack, Len(stack), SkipWhitespace(offset + 1) + 1)
            \/ ElementsAhead(text, required, su, offset, items)
    <3>1. text \in Seq(Symbol)
      BY <1>0
    <3> QED BY <2>2, <2>3, <3>1, ContainerAhead, SMTT(30)
  <2>5. Level = NestingLimit - Len(stack)
    BY <1>1 DEF Level
  <2> QED BY <2>4, <2>5
\* the elements begin where the blanks end, be it behind the bracket or one back
<1>7. ASSUME ~TooDeep
      PROVE  ElementsAhead(text, required, su, offset, items) <=> Ahead(text, required, su, w, items)
  <2>1. Len(su) \in 1..NestingLimit /\ su[Len(su)].kind = kind
    BY <1>1, <1>5, <1>7 DEF TooDeep
  <2> HIDE DEF su
  <2> QED BY <1>0, <2>1, NextElement
<1>8. w \in (offset + 1)..Len(text)
  BY <1>0, SkipWhitespaceInside
<1> HIDE DEF su, items
<1>s. ASSUME ~TooDeep, NEW s \in items
      PROVE  s[1] \in 0..(Len(text) - 1) /\ text[s[1] + 1] # Closing(kind)
  <2>1. NestingLimit - Len(su) \in 0..NestingLimit
    BY <1>1, <1>5, <1>s DEF TooDeep
  <2>2. Solid(text, items)
    BY <1>0, <2>1, ItemsSolid DEF items
  <2> QED BY <2>2 DEF Solid, ContainerType
<1>9. CASE ~TooDeep /\ Is(w, Closing(kind)) /\ GoTo("after", w + 1) /\ UNCHANGED <<depth, stack>>
  <2>1. ~Ahead(text, required, su, w, items)
    BY <1>9, <1>s DEF Ahead, Is
  <2> QED BY <1>0, <1>1, <1>2, <1>6, <1>7, <1>9, <2>1, ReadingAfter DEF GoTo
<1>10. CASE ~TooDeep /\ ~CanAccess(w) /\ GoTo("fail", w - 1)
  <2>1. ~Ahead(text, required, su, w, items)
    BY <1>0, <1>10, <1>s DEF Ahead, CanAccess
  <2>2. ~Is(w, Closing(kind))
    BY <1>10 DEF Is
  <2> QED BY <1>0, <1>2, <1>6, <1>7, <1>10, <2>1, <2>2, ReadingFails DEF GoTo
<1>11. CASE /\ ~TooDeep /\ CanAccess(w) /\ ~Is(w, Closing(kind))
            /\ depth' = depth + 1 /\ stack' = su /\ GoTo("element", w - 1)
  <2>1. Len(su) \in 1..NestingLimit /\ su[Len(su)].kind = kind
    BY <1>1, <1>5, <1>11 DEF TooDeep
  <2>2. w - 1 \in 0..(Len(text) - 1) /\ w - 1 + 1 = w
    BY <1>0, <1>8
  <2>3. SkipWhitespace(w) = w
    BY <1>0, <1>11, SkipTwice
  <2>4. ElementsAhead(text, required, su, w - 1, items) <=> Ahead(text, required, su, w, items)
    BY <1>0, <2>1, <2>2, <2>3, NextElement DEF items
  <2>5. ~oom => (WellFormed <=> ElementsAhead(text, required, su, w - 1, items))
    BY <1>2, <1>6, <1>7, <1>11, <2>4
  <2>6. Top'.kind = kind /\ Level' = NestingLimit - Len(su)
    BY <1>11, <2>1 DEF Top, Level
  <2>7. depth' = Len(stack') /\ depth' <= NestingLimit
    BY <1>1, <1>5, <1>11, <2>1
  <2> QED BY <1>0, <1>11, <2>5, <2>6, <2>7, ReadingElement DEF GoTo, items
<1> QED BY <1>4, <1>9, <1>10, <1>11 DEF Open, su

LEMMA AheadSame ==
    ASSUME NEW t, NEW whole, NEW st, NEW su, NEW o, NEW spans, Len(st) \in Nat,
           Len(su) = Len(st), \A m \in 1..Len(st) : st[m].kind = su[m].kind
    PROVE  Ahead(t, whole, st, o, spans) <=> Ahead(t, whole, su, o, spans)
BY RestSame DEF Ahead

LEMMA ElementReads ==
    ASSUME Place, Ownership, Reading, Element
    PROVE  Reading'
<1> DEFINE w == SkipWhitespace(offset + 1)
           n == Len(stack)
           items == Items(text, Top.kind, ValuesIn(text)[Level])
<1>0. /\ UNCHANGED buffer /\ text \in Seq(Symbol) /\ Len(text) \in Nat
      /\ offset \in 0..(Len(text) - 1) /\ pc = "element" /\ stack # <<>> /\ depth' = depth
  BY DEF Element, Place, CanAccess, Ownership
<1>1. /\ stack \in Seq(FrameType) /\ n \in 1..NestingLimit /\ Level \in 0..NestingLimit
      /\ depth = n /\ depth <= NestingLimit /\ n \in Nat /\ Top.kind \in ContainerType
  BY <1>0, StackSound, TextAssumption DEF Reading, Top
<1>2. ~oom => (WellFormed <=> ElementsAhead(text, required, stack, offset, items))
  BY <1>0 DEF Reading, Inner, Level
<1>3. ElementsAhead(text, required, stack, offset, items) <=> Ahead(text, required, stack, w, items)
  BY <1>0, <1>1, NextElement DEF Top, Level
<1>4. CASE Refused(FreeNodes(heap)) /\ GoTo("fail", offset)
  BY <1>0, <1>4, ReadingFails DEF Refused, GoTo
<1>5. CASE /\ Granted(FreeNodes(heap))
           /\ \E head, current :
                stack' = Append(Below, [Top EXCEPT !.head = head, !.current = current])
           /\ IF Top.kind = "Array" THEN GoTo("value", w)
              ELSE IF KeyMayFollow THEN GoTo("key", w) ELSE GoTo("fail", offset)
  <2>1. oom' = oom
    BY <1>5 DEF Granted
  <2>2. PICK head, current :
            stack' = Append(Below, [Top EXCEPT !.head = head, !.current = current])
    BY <1>5
  <2>3. Below \in Seq(FrameType) /\ Top \in FrameType /\ stack = Append(Below, Top)
    BY <1>0, <1>1, StackSplits
  <2> DEFINE f == [Top EXCEPT !.head = head, !.current = current]
  <2>4. f.kind = Top.kind
    BY <2>3 DEF FrameType
  <2> HIDE DEF f
  <2>5. Len(stack') = n /\ \A m \in 1..n : stack[m].kind = stack'[m].kind
    <3>1. stack' = Append(Below, f)
      BY <2>2 DEF f
    <3>2. Len(Below) \in Nat /\ Len(stack) = Len(Below) + 1 /\ Len(stack') = Len(Below) + 1
      BY <2>3, <3>1
    <3>3. /\ \A m \in 1..Len(Below) : stack[m] = Below[m] /\ stack'[m] = Below[m]
          /\ stack[n] = Top /\ stack'[n] = f
      BY <2>3, <3>1, <3>2
    <3>4. \A m \in 1..n : m = n \/ m \in 1..Len(Below)
      BY <3>2
    <3> QED BY <2>4, <3>2, <3>3, <3>4
  <2>6. Ahead(text, required, stack, w, items) <=> Ahead(text, required, stack', w, items)
    BY <1>1, <2>5, AheadSame
  <2>7. Level' = Level /\ depth' = Len(stack') /\ depth' <= NestingLimit
    BY <1>0, <1>1, <2>5 DEF Level
  <2>8. CASE Top.kind = "Array"
    <3>1. items = ValuesIn(text)[Level']
      BY <2>7, <2>8 DEF Items
    <3> QED BY <1>0, <1>2, <1>3, <1>5, <2>1, <2>6, <2>7, <2>8, <3>1, ReadingValue DEF GoTo
  <2>9. CASE Top.kind # "Array" /\ KeyMayFollow
    <3>1. items = Named(text, ValuesIn(text)[Level'])
      BY <2>7, <2>9 DEF Items
    <3> QED BY <1>0, <1>2, <1>3, <1>5, <2>1, <2>6, <2>7, <2>9, <3>1, ReadingKey DEF GoTo
  <2>10. CASE Top.kind # "Array" /\ ~KeyMayFollow
    <3>1. offset + 1 = Len(text) /\ w = Len(text)
      BY <1>0, <2>10, SkipWhitespaceInside DEF KeyMayFollow, CanAccess
    <3>2. \A s \in items : s[1] \in 0..(Len(text) - 1)
      BY <1>0, <1>1, ItemsSolid DEF Solid
    <3>3. ~Ahead(text, required, stack, w, items)
      BY <1>0, <3>1, <3>2 DEF Ahead
    <3> QED BY <1>0, <1>2, <1>3, <1>5, <2>1, <2>10, <3>3, ReadingFails DEF GoTo
  <2> QED BY <2>8, <2>9, <2>10
<1> QED BY <1>4, <1>5, Zenon DEF Element

LEMMA KeyReads ==
    ASSUME Place, Ownership, Reading, Key
    PROVE  Reading'
<1> DEFINE w == SkipWhitespace(offset + 1)
<1>0. /\ UNCHANGED buffer /\ text \in Seq(Symbol) /\ Len(text) \in Nat
      /\ offset \in 0..(Len(text) - 1) /\ pc = "key" /\ stack' = stack /\ depth' = depth
  BY DEF Key, Place, CanAccess, Unstacked
<1>1. Level \in 0..NestingLimit /\ depth = Len(stack) /\ depth <= NestingLimit
  BY <1>0, StackSound DEF Reading
<1>2. ~oom => (WellFormed <=>
          Ahead(text, required, stack, offset, Named(text, ValuesIn(text)[Level])))
  BY <1>0 DEF Reading, Inner, Level
<1>3. Ahead(text, required, stack, offset, Named(text, ValuesIn(text)[Level])) <=>
          /\ text[offset + 1] \in Name /\ Is(w, ":")
          /\ Ahead(text, required, stack, SkipWhitespace(w + 1), ValuesIn(text)[Level])
  BY <1>0, <1>1, NameAhead
<1>4. CASE text[offset + 1] \notin Name /\ GoTo("fail", offset + 1) /\ oom' = oom
  BY <1>0, <1>2, <1>3, <1>4, ReadingFails DEF GoTo
<1>5. CASE Refused(FreeStrings(heap)) /\ GoTo("fail", offset + 1)
  BY <1>0, <1>5, ReadingFails DEF Refused, GoTo
<1>6. CASE /\ text[offset + 1] \in Name /\ Granted(FreeStrings(heap))
           /\ IF Is(w, ":") THEN GoTo("value", SkipWhitespace(w + 1)) ELSE GoTo("fail", w)
  <2>1. oom' = oom /\ Level' = Level
    BY <1>0, <1>6 DEF Granted, Level
  <2>2. CASE Is(w, ":")
    BY <1>0, <1>1, <1>2, <1>3, <1>6, <2>1, <2>2, ReadingValue DEF GoTo
  <2>3. CASE ~Is(w, ":")
    BY <1>0, <1>2, <1>3, <1>6, <2>1, <2>3, ReadingFails DEF GoTo
  <2> QED BY <2>2, <2>3
<1> QED BY <1>4, <1>5, <1>6, Zenon DEF Key

LEMMA AfterValueReads ==
    ASSUME Place, Ownership, Reading, AfterValue
    PROVE  Reading'
<1> DEFINE w == SkipWhitespace(offset)
           n == Len(stack)
           items == Items(text, Top.kind, ValuesIn(text)[Level])
<1>0. /\ UNCHANGED buffer /\ text \in Seq(Symbol) /\ Len(text) \in Nat
      /\ offset \in 0..Len(text) /\ pc = "after" /\ stack # <<>> /\ oom' = oom
  BY DEF AfterValue, Place
<1>1. /\ stack \in Seq(FrameType) /\ n \in 1..NestingLimit /\ Level \in 0..NestingLimit
      /\ depth = n /\ depth <= NestingLimit /\ n \in Nat /\ Top.kind \in ContainerType
  BY <1>0, StackSound, TextAssumption DEF Reading, Top
<1>2. ~oom => (WellFormed <=> Rest(text, required, stack, n, offset))
  BY <1>0 DEF Reading
<1>3. Rest(text, required, stack, n, offset) <=>
          \/ Is(w, Comma) /\ ElementsAhead(text, required, stack, w, items)
          \/ Is(w, Closing(Top.kind)) /\ Rest(text, required, stack, n - 1, w + 1)
  BY <1>0, <1>1, AfterAhead DEF Top, Level
<1>c. ~(Is(w, Comma) /\ Is(w, Closing(Top.kind)))
  BY <1>1, MarksApart DEF Is
<1>4. CASE Is(w, Comma) /\ GoTo("element", w) /\ UNCHANGED <<depth, stack>>
  <2>1. Top' = Top /\ Level' = Level
    BY <1>4 DEF Top, Level
  <2> QED BY <1>0, <1>1, <1>2, <1>3, <1>c, <1>4, <2>1, ReadingElement DEF GoTo
<1>5. CASE /\ Is(w, Closing(Top.kind)) /\ depth' = depth - 1 /\ stack' = Below
           /\ GoTo("after", w + 1)
  <2>1. Below \in Seq(FrameType) /\ Top \in FrameType /\ stack = Append(Below, Top)
    BY <1>0, <1>1, StackSplits
  <2>2. Len(Below) = n - 1 /\ n - 1 \in Nat /\ \A m \in 1..(n - 1) : stack[m].kind = Below[m].kind
    <3>1. Len(Below) \in Nat /\ n = Len(Below) + 1
      BY <2>1
    <3>2. \A m \in 1..Len(Below) : stack[m] = Below[m]
      BY <2>1
    <3>3. Len(Below) = n - 1
      BY <3>1
    <3> QED BY <3>1, <3>2, <3>3
  <2>3. Rest(text, required, stack, n - 1, w + 1) <=> Rest(text, required, stack', Len(stack'), w + 1)
    BY <1>5, <2>2, RestSame
  <2>4. depth' = Len(stack') /\ depth' <= NestingLimit
    BY <1>1, <1>5, <2>2, TextAssumption
  <2> QED BY <1>0, <1>2, <1>3, <1>c, <1>5, <2>3, <2>4, ReadingAfter DEF GoTo
<1>6. CASE ~Is(w, Comma) /\ ~Is(w, Closing(Top.kind)) /\ GoTo("fail", w)
  BY <1>0, <1>2, <1>3, <1>6, ReadingFails DEF GoTo
<1> QED BY <1>4, <1>5, <1>6, Zenon DEF AfterValue

LEMMA ReadingInductive == Place /\ Ownership /\ Reading /\ [Next]_vars => Reading'
<1> SUFFICES ASSUME Place, Ownership, Reading, [Next]_vars PROVE Reading'
  OBVIOUS
<1>1. CASE Open("Array") \/ Open("Object")
  BY <1>1, OpenReads DEF ContainerType
<1>2. CASE UNCHANGED vars
  <2>1. UNCHANGED buffer
    BY <1>2 DEF vars, buffer
  <2> QED BY <1>2, <2>1, SameText DEF vars, Reading, Top, Inner
<1> QED BY <1>1, <1>2, BeginReads, EndReads, UnwindReads, LiteralReads, NumberReads,
           StringReads, NoValueReads, ElementReads, KeyReads, AfterValueReads DEF Next

LEMMA ReadingInit == Init => Reading
BY TextAssumption DEF Init, Reading

\* For every text of any length, every nesting limit and while no allocation
\* fails: a text parses exactly when it is well-formed JSON no deeper than the
\* limit.
THEOREM ParsesTheGrammar == Spec => []AcceptsGrammar
<1>1. Reading => AcceptsGrammar
  BY DEF Reading, AcceptsGrammar
<1> QED BY <1>1, PlaceInit, PlaceInductive, OwnershipInit, OwnershipInductive,
           ReadingInit, ReadingInductive, PTL DEF Spec
-----------------------------------------------------------------------------
(* What has been read is what has been built *)

\* What is told of an item is what it and those behind it say, in a finished
\* list; in the list of the m-th frame (place m), what they say before the
\* current item of that list, which is still to be read or being read.
Pauses(st, place, n) == place[n] # 0 /\ n = st[place[n]].current

TellsItem(h, st, r, told, place, n) ==
    /\ h.child[n] # NULL => place[h.child[n]] = 0
    /\ h.next[n] # NULL => place[h.next[n]] = place[n]
    /\ h.next[n] = NULL => place[n] = 0 \/ Pauses(st, place, n)
    /\ place[n] \in 0..Len(st)
    /\ n # r => told[n] = IF Pauses(st, place, n) THEN <<>>
                          ELSE Says(h, told, n) \o Behind(h, told, n)

TellsFrame(st, r, place, m) ==
    /\ st[m].item = IF m = 1 THEN r ELSE st[m - 1].current
    /\ st[m].head # NULL => place[st[m].head] = m /\ place[st[m].current] = m

Telling(h, st, r, told, place) ==
    /\ place[r] = 0 /\ h.next[r] = NULL
    /\ \A n \in h.live : TellsItem(h, st, r, told, place, n)
    /\ \A m \in 1..Len(st) : TellsFrame(st, r, place, m)

\* a container as far as its current item
Opened(h, told, f) ==
    NamePart(h, f.item) \o <<Bracket(f.kind)>> \o (IF f.head = NULL THEN <<>> ELSE told[f.head])

\* spoken[m] is what the first m frames say.
Speaking(h, st, told, spoken) ==
    /\ spoken[0] = <<>>
    /\ \A m \in 1..Len(st) : spoken[m] = spoken[m - 1] \o Opened(h, told, st[m])

Read(o) == Strip(text, SkipBom, o)

\* What has been read is what the frames and the item at hand say.
Recalls(told, before) ==
    /\ pc = "value" => Read(offset) = before \o NamePart(heap, Target)
    /\ pc = "key" => Read(offset) = before
    /\ pc = "element" =>
        Read(offset + 1) = IF Top.head = NULL THEN before
                           ELSE before \o Says(heap, told, Top.current) \o <<Comma>>
    /\ pc = "after" => Read(offset) = before \o Says(heap, told, Target)

Word == Seq(Symbol \cup {NULL})

\* What has been read so far is what has been built so far.
Recalling ==
    pc \in {"value", "key", "element", "after"} =>
        /\ offset >= SkipBom
        /\ \E told \in [Node -> Word], place \in [Node -> Nat], spoken \in [Nat -> Word] :
            /\ Telling(heap, stack, root, told, place)
            /\ Speaking(heap, stack, told, spoken)
            /\ Recalls(told, spoken[Len(stack)])

LEMMA MarkIsSymbol == \A x \in Mark : x \in Symbol \cup {NULL} /\ <<x>> \in Word
BY DEF Symbol, Word

LEMMA Joined ==
    /\ \A v, w \in Word : v \o w \in Word
    /\ \A u, v, w \in Word : (u \o v) \o w = u \o (v \o w)
    /\ \A w \in Word : w \o <<>> = w /\ <<>> \o w = w
    /\ <<>> \in Word
<1> DEFINE S == Symbol \cup {NULL}
<1> HIDE DEF S
<1>1. \A v, w \in Seq(S) : v \o w \in Seq(S)
  BY ConcatProperties
<1>2. \A u, v, w \in Seq(S) : (u \o v) \o w = u \o (v \o w)
  <2> TAKE u, v, w \in Seq(S)
  <2> QED BY ConcatAssociative
<1>3. \A w \in Seq(S) : w \o <<>> = w /\ <<>> \o w = w
  BY ConcatEmptySeq
<1>4. <<>> \in Seq(S)
  OBVIOUS
<1> QED BY <1>1, <1>2, <1>3, <1>4 DEF Word, S

LEMMA Regroup ==
    ASSUME NEW u \in Word, NEW v \in Word, NEW w \in Word
    PROVE  (u \o v) \o w = u \o (v \o w)
BY Joined

JoinsFour(a, p, b, c) == ((a \o p) \o b) \o c = a \o (p \o (b \o c))

LEMMA JoinFour ==
    ASSUME NEW a \in Word, NEW p \in Word, NEW b \in Word, NEW c \in Word
    PROVE  JoinsFour(a, p, b, c)
<1> DEFINE x == p \o b
<1>1. x \in Word
  BY Joined
<1>2. (a \o p) \o b = a \o x
  BY Regroup
<1>3. x \o c = p \o (b \o c)
  BY Regroup
<1> HIDE DEF x
<1>4. (a \o x) \o c = a \o (x \o c)
  BY <1>1, Regroup
<1> QED BY <1>2, <1>3, <1>4, Zenon DEF x, JoinsFour

JoinsAround(u, c, v, w) == (u \o (c \o v)) \o w = u \o (c \o (v \o w))

LEMMA JoinAround ==
    ASSUME NEW u \in Word, NEW c \in Word, NEW v \in Word, NEW w \in Word
    PROVE  JoinsAround(u, c, v, w)
<1> DEFINE x == c \o v
<1>1. x \in Word
  BY Joined
<1>2. x \o w = c \o (v \o w)
  BY Regroup
<1> HIDE DEF x
<1>3. (u \o x) \o w = u \o (x \o w)
  BY <1>1, Regroup
<1> QED BY <1>2, <1>3, Zenon DEF x, JoinsAround

\* Reading on: a blank says nothing, any other symbol itself.
LEMMA ReadSteps ==
    ASSUME text \in Seq(Symbol)
    PROVE  /\ SkipBom \in 0..Len(text) /\ Read(SkipBom) = <<>>
           /\ \A k \in 0..Len(text) : Read(k) \in Word
           /\ \A k \in SkipBom..(Len(text) - 1) :
                Read(k + 1) = IF Blank(text[k + 1]) THEN Read(k) ELSE Read(k) \o <<text[k + 1]>>
<1> DEFINE n == Len(text)
           a == SkipBom
           Kept(k, w) == IF k <= a THEN <<>> ELSE IF Blank(text[k]) THEN w ELSE w \o <<text[k]>>
           kept[k \in 0..n] ==
               IF k <= a THEN <<>>
               ELSE IF Blank(text[k]) THEN kept[k - 1] ELSE kept[k - 1] \o <<text[k]>>
           step == [k \in 1..n |-> [w \in Word |-> Kept(k, w)]]
<1>1. n \in Nat /\ a \in 0..n /\ a \in Nat /\ <<>> \in Word
  BY Joined DEF SkipBom, Is, CanAccess
<1>2. ASSUME NEW k \in 1..n, NEW w \in Word PROVE Kept(k, w) \in Word
  <2>1. text[k] \in Symbol
    BY <1>1
  <2>2. <<text[k]>> \in Word
    BY <2>1 DEF Word
  <2>3. w \o <<text[k]>> \in Word
    BY <2>2, Joined
  <2> QED BY <1>1, <2>3
<1>3. step \in [1..n -> [Word -> Word]]
  <2> HIDE DEF Kept, n
  <2> QED BY <1>2
<1>4. PICK f \in [0..n -> Word] : Iterates(f, <<>>, step, n)
  <2> HIDE DEF step, n
  <2> QED BY <1>1, <1>3, IterateExists
<1>5. f = [k \in 0..n |->
              IF k <= a THEN <<>>
              ELSE IF Blank(text[k]) THEN f[k - 1] ELSE f[k - 1] \o <<text[k]>>]
  <2>1. ASSUME NEW k \in 0..n
        PROVE  f[k] = IF k <= a THEN <<>>
                      ELSE IF Blank(text[k]) THEN f[k - 1] ELSE f[k - 1] \o <<text[k]>>
    <3>1. CASE k = 0
      BY <1>1, <1>4, <3>1 DEF Iterates
    <3>2. CASE k # 0
      <4>1. k \in 1..n /\ k - 1 \in 0..n
        BY <1>1, <3>2
      <4>2. f[k - 1] \in Word /\ f[k] = step[k][f[k - 1]]
        BY <1>4, <4>1 DEF Iterates
      <4>3. step[k][f[k - 1]] = Kept(k, f[k - 1])
        <5> HIDE DEF Kept, n
        <5> QED BY <4>1, <4>2
      <4> QED BY <4>2, <4>3
    <3> QED BY <3>1, <3>2
  <2> HIDE DEF n, a
  <2> QED BY <2>1
<1>6. kept = [k \in 0..n |->
                 IF k <= a THEN <<>>
                 ELSE IF Blank(text[k]) THEN kept[k - 1] ELSE kept[k - 1] \o <<text[k]>>]
  BY <1>5
<1>7. \A k \in 0..n : kept[k] = IF k <= a THEN <<>> ELSE IF Blank(text[k]) THEN kept[k - 1]
                                ELSE kept[k - 1] \o <<text[k]>>
  <2> HIDE DEF kept, n, a
  <2> QED BY <1>6
<1>8. \A o : Read(o) = kept[o]
  BY DEF Read, Strip
<1> HIDE DEF kept
<1>9. \A k \in 0..n : kept[k] \in Word
  <2>1. kept[0] \in Word
    BY <1>1, <1>7
  <2>2. ASSUME NEW k \in 1..n, kept[k - 1] \in Word PROVE kept[k] \in Word
    <3>1. kept[k] = Kept(k, kept[k - 1])
      BY <1>1, <1>7
    <3> QED BY <1>2, <2>2, <3>1
  <2> HIDE DEF n
  <2> QED BY <1>1, <2>1, <2>2, LoopInvariant
<1>10. \A k \in a..(n - 1) : k + 1 \in 0..n /\ ~(k + 1 <= a) /\ (k + 1) - 1 = k
  BY <1>1
<1>11. a \in 0..n /\ a <= a
  BY <1>1
<1> HIDE DEF a, n
<1>12. kept[a] = <<>>
  BY <1>7, <1>11
<1>13. \A k \in a..(n - 1) :
          kept[k + 1] = IF Blank(text[k + 1]) THEN kept[k] ELSE kept[k] \o <<text[k + 1]>>
  BY <1>7, <1>10
<1> QED BY <1>8, <1>9, <1>11, <1>12, <1>13 DEF a, n

\* Skipping blanks, and reading a symbol that is none.
LEMMA ReadOn ==
    ASSUME text \in Seq(Symbol), NEW o \in SkipBom..Len(text)
    PROVE  /\ SkipWhitespace(o) \in SkipBom..Len(text) /\ Read(SkipWhitespace(o)) = Read(o)
           /\ \A x : Is(o, x) /\ ~Blank(x) =>
                o + 1 \in SkipBom..Len(text) /\ Read(o + 1) = Read(o) \o <<x>>
           /\ CanAccess(o) /\ Blank(text[o + 1]) => Read(o + 1) = Read(o)
<1> DEFINE n == Len(text)
           a == SkipBom
           e == AfterBlanks(o)
<1>1. n \in Nat /\ a \in 0..n /\ o \in 0..n
  BY ReadSteps
<1>2. e \in o..n /\ AllBlank(text, o, e)
  BY <1>1, AfterBlanksAhead, BlanksSkipped
<1>3. \A k \in o..(e - 1) : Read(k + 1) = Read(k)
  <2>1. \A k \in o..(e - 1) : k \in a..(n - 1) /\ k + 1 \in (o + 1)..e
    BY <1>1, <1>2
  <2>2. \A k \in o..(e - 1) : Blank(text[k + 1])
    BY <2>1, <1>2 DEF AllBlank
  <2> QED BY <2>1, <2>2, ReadSteps
<1>4. \A k \in o..e : Read(k) = Read(o)
  <2> DEFINE r == [k \in 0..(e - o) |-> Read(o + k)]
             m == e - o
             same == {Read(o)}
  <2>1. m \in Nat /\ r[0] \in same
    BY <1>1, <1>2
  <2>2. ASSUME NEW k \in 1..m, r[k - 1] \in same PROVE r[k] \in same
    <3>1. o + (k - 1) \in o..(e - 1) /\ (o + (k - 1)) + 1 = o + k
      BY <1>1, <1>2
    <3>2. r[k] = Read(o + k) /\ r[k - 1] = Read(o + (k - 1))
      BY <1>1, <1>2
    <3> QED BY <1>3, <2>2, <3>1, <3>2
  <2> HIDE DEF r, m, same
  <2>3. \A k \in 0..m : r[k] \in same
    BY <2>1, <2>2, LoopInvariant
  <2>4. ASSUME NEW k \in o..e PROVE Read(k) = Read(o)
    <3>1. k - o \in 0..m /\ o + (k - o) = k
      BY <1>1, <1>2 DEF m
    <3>2. \A j \in 0..m : r[j] = Read(o + j)
      BY DEF r, m
    <3> QED BY <2>3, <3>1, <3>2 DEF same
  <2> QED BY <2>4
<1> HIDE DEF e
<1>5. SkipWhitespace(o) = IF CanAccess(o) /\ e = Len(text) THEN e - 1 ELSE e
  BY DEF SkipWhitespace, e
<1>6. SkipWhitespace(o) \in o..e /\ o..e \subseteq a..n
  BY <1>1, <1>2, <1>5 DEF CanAccess
<1>7. CanAccess(o) => o \in a..(n - 1) /\ o + 1 \in a..n
  BY <1>1 DEF CanAccess
<1>8. CanAccess(o) =>
        Read(o + 1) = IF Blank(text[o + 1]) THEN Read(o) ELSE Read(o) \o <<text[o + 1]>>
  BY <1>7, ReadSteps
<1> HIDE DEF a, n
<1> QED BY <1>4, <1>6, <1>7, <1>8 DEF Is, a, n

-----------------------------------------------------------------------------
(* What an item says *)

\* Two heaps in which an item looks the same, but for what its list says.
Alike(g, h, n) ==
    /\ g.type[n] = h.type[n] /\ g.child[n] = h.child[n] /\ NamePart(g, n) = NamePart(h, n)
    /\ Text(g, g.valuestring[n]) = Text(h, h.valuestring[n])

LEMMA ValueCases ==
    ASSUME NEW h, NEW said, NEW n
    PROVE  /\ h.type[n] = "Null" => ValuePart(h, said, n) = <<"null">>
           /\ h.type[n] = "Number" => ValuePart(h, said, n) = <<"number">>
           /\ h.type[n] = "String" => ValuePart(h, said, n) = <<Text(h, h.valuestring[n])>>
           /\ h.type[n] \in ContainerType =>
                ValuePart(h, said, n) =
                    (<<Bracket(h.type[n])>> \o Inside(h, said, n)) \o <<Closing(h.type[n])>>
           /\ h.type[n] = "Invalid" => ValuePart(h, said, n) = <<"other">>
BY DEF ValuePart, ContainerType

LEMMA BracketWords ==
    \A kind \in ContainerType : <<Bracket(kind)>> \in Word /\ <<Closing(kind)>> \in Word
<1>1. \A kind \in ContainerType : Bracket(kind) \in Mark /\ Closing(kind) \in Mark
  BY Zenon DEF ContainerType, Bracket, Closing, Mark
<1> QED BY <1>1, MarkIsSymbol

LEMMA CommaWord == <<Comma>> \in Word /\ Comma \in Symbol
<1>1. Comma \in Mark
  BY Zenon DEF Comma, Mark
<1> QED BY <1>1, MarkIsSymbol DEF Symbol

LEMMA SaysWords ==
    ASSUME NEW h \in Heap, NEW said \in [Node -> Word], NEW n \in Node
    PROVE  /\ NamePart(h, n) \in Word /\ Inside(h, said, n) \in Word
           /\ Says(h, said, n) \in Word /\ Behind(h, said, n) \in Word
<1>1. \A p \in StrPtr : Text(h, p) \in Symbol \cup {NULL}
  BY DEF Heap, StrPtr, Text, Symbol
<1>2. /\ h.string[n] \in StrPtr /\ h.valuestring[n] \in StrPtr
      /\ h.child[n] \in NodePtr /\ h.next[n] \in NodePtr /\ h.type[n] \in Type
  BY DEF Heap
<1>3. NamePart(h, n) \in Word
  <2>1. Text(h, h.string[n]) \in Symbol \cup {NULL} /\ ":" \in Symbol \cup {NULL}
    <3>1. ":" \in Mark
      BY Zenon DEF Mark
    <3> QED BY <1>1, <1>2, <3>1, MarkIsSymbol
  <2>2. \A x, y \in Symbol \cup {NULL} : <<x, y>> \in Seq(Symbol \cup {NULL})
    <3> DEFINE S == Symbol \cup {NULL}
    <3> HIDE DEF S
    <3>1. \A x, y \in S : <<x, y>> \in Seq(S)
      OBVIOUS
    <3> QED BY <3>1 DEF S
  <2> QED BY <2>1, <2>2, Joined, Zenon DEF NamePart, Word
<1>4. Inside(h, said, n) \in Word
  BY <1>2, Joined DEF Inside, NodePtr
<1>5. Behind(h, said, n) \in Word
  BY <1>2, Joined, CommaWord DEF Behind, NodePtr
<1>6. Says(h, said, n) \in Word
  <2>1. <<"null">> \in Word /\ <<"number">> \in Word /\ <<"other">> \in Word
    BY MarkIsSymbol DEF Mark
  <2>2. <<Text(h, h.valuestring[n])>> \in Word
    BY <1>1, <1>2 DEF Word
  <2>3. h.type[n] \in ContainerType =>
            (<<Bracket(h.type[n])>> \o Inside(h, said, n)) \o <<Closing(h.type[n])>> \in Word
    BY <1>4, BracketWords, Joined
  <2>4. h.type[n] \in {"Null", "Number", "String", "Invalid"} \cup ContainerType
    BY <1>2 DEF Type, ContainerType
  <2>5. ValuePart(h, said, n) \in Word
    BY <2>1, <2>2, <2>3, <2>4, ValueCases
  <2> QED BY <1>3, <2>5, Joined DEF Says
<1> QED BY <1>3, <1>4, <1>5, <1>6

\* An item that looks the same says the same, as long as its list does.
SameInside(h, said, heard, n) ==
    h.type[n] \in ContainerType /\ h.child[n] # NULL => said[h.child[n]] = heard[h.child[n]]

LEMMA SaysSame ==
    ASSUME NEW h \in Heap, NEW g, NEW n \in Node, Alike(g, h, n),
           NEW said, NEW heard, SameInside(h, said, heard, n)
    PROVE  Says(g, heard, n) = Says(h, said, n)
<1>0. h.type[n] \in Type
  BY DEF Heap
<1>1. h.type[n] \in {"Null", "Number", "String", "Invalid"} \cup ContainerType
  BY <1>0 DEF Type, ContainerType
<1>2. h.type[n] \in ContainerType => Inside(g, heard, n) = Inside(h, said, n)
  BY DEF Alike, Inside, SameInside
<1>3. ValuePart(g, heard, n) = ValuePart(h, said, n)
  <2>1. CASE h.type[n] \in ContainerType
    BY <1>2, <2>1, ValueCases DEF Alike
  <2>2. CASE h.type[n] \notin ContainerType
    BY <1>1, <2>2, ValueCases DEF Alike
  <2> QED BY <2>1, <2>2
<1> QED BY <1>3 DEF Says, Alike

\* What is said is longer than what is said below and behind.
LEMMA SaysLonger ==
    ASSUME NEW h \in Heap, NEW f \in [Node -> Word], NEW n \in Node,
           f[n] = Says(h, f, n) \o Behind(h, f, n)
    PROVE  /\ h.type[n] \in ContainerType /\ h.child[n] # NULL => Len(f[h.child[n]]) < Len(f[n])
           /\ h.next[n] # NULL => Len(f[h.next[n]]) < Len(f[n])
<1>1. /\ h.child[n] # NULL => h.child[n] \in Node
      /\ h.next[n] # NULL => h.next[n] \in Node
  BY DEF Heap, NodePtr
<1>2. \A v, w \in Word : Len(v \o w) = Len(v) + Len(w) /\ Len(v) \in Nat
  <2> DEFINE S == Symbol \cup {NULL}
  <2> HIDE DEF S
  <2>1. \A v, w \in Seq(S) : Len(v \o w) = Len(v) + Len(w) /\ Len(v) \in Nat
    BY ConcatProperties
  <2> QED BY <2>1 DEF Word, S
<1>3. \A x : Len(<<x>>) = 1
  OBVIOUS
<1>4. NamePart(h, n) \in Word /\ Says(h, f, n) \in Word /\ Behind(h, f, n) \in Word
  BY SaysWords
<1>5. Len(f[n]) = Len(Says(h, f, n)) + Len(Behind(h, f, n))
  BY <1>2, <1>4
<1>6. ASSUME h.type[n] \in ContainerType, h.child[n] # NULL
      PROVE  Len(f[h.child[n]]) < Len(f[n])
  <2> DEFINE w == f[h.child[n]]
             b == <<Bracket(h.type[n])>>
             c == <<Closing(h.type[n])>>
  <2>1. w \in Word /\ b \in Word /\ c \in Word /\ Len(b) = 1 /\ Len(c) = 1
    BY <1>1, <1>3, <1>6, BracketWords
  <2>2. Says(h, f, n) = NamePart(h, n) \o ((b \o w) \o c)
    BY <1>6, ValueCases DEF Says, Inside
  <2> HIDE DEF w, b, c
  <2>3. b \o w \in Word /\ (b \o w) \o c \in Word
    BY <2>1, Joined
  <2>4. /\ Len(Says(h, f, n)) = Len(NamePart(h, n)) + Len((b \o w) \o c)
        /\ Len((b \o w) \o c) = Len(b \o w) + Len(c) /\ Len(b \o w) = Len(b) + Len(w)
        /\ Len(w) \in Nat /\ Len(NamePart(h, n)) \in Nat /\ Len(Behind(h, f, n)) \in Nat
    BY <1>2, <1>4, <2>1, <2>2, <2>3
  <2>5. Len(w) < Len(f[n])
    BY <1>5, <2>1, <2>4
  <2> QED BY <2>5 DEF w
<1>7. ASSUME h.next[n] # NULL PROVE Len(f[h.next[n]]) < Len(f[n])
  <2>1. Behind(h, f, n) = <<Comma>> \o f[h.next[n]] /\ f[h.next[n]] \in Word
    BY <1>1, <1>7 DEF Behind
  <2>2. /\ Len(Behind(h, f, n)) = Len(<<Comma>>) + Len(f[h.next[n]]) /\ Len(<<Comma>>) = 1
        /\ Len(Says(h, f, n)) \in Nat /\ Len(f[h.next[n]]) \in Nat
    BY <1>2, <1>3, <1>4, <2>1, CommaWord
  <2> QED BY <1>5, <2>2
<1> QED BY <1>6, <1>7

\* At most one function says of every item what it says.
LEMMA SaidOnce ==
    ASSUME NEW h \in Heap, NEW f \in [Node -> Word], NEW g,
           \A n \in Node : f[n] = Says(h, f, n) \o Behind(h, f, n),
           \A n \in Node : g[n] = Says(h, g, n) \o Behind(h, g, n)
    PROVE  \A n \in Node : g[n] = f[n]
<1> DEFINE Wrong == {n \in Node : g[n] # f[n]}
           lengths == {Len(f[n]) : n \in Wrong}
<1> SUFFICES ASSUME Wrong # {} PROVE FALSE
  OBVIOUS
<1>1. \A n \in Node : Len(f[n]) \in Nat
  BY DEF Word
<1>2. lengths \in SUBSET Nat /\ lengths # {}
  BY <1>1
<1> HIDE DEF lengths
<1>3. PICK k \in lengths : \A j \in lengths : k <= j
  BY <1>2, LeastElement
<1>4. PICK n \in Wrong : k = Len(f[n])
  BY DEF lengths
<1>5. \A m \in Node : Len(f[m]) < Len(f[n]) => g[m] = f[m]
  <2> SUFFICES ASSUME NEW m \in Node, m \in Wrong PROVE ~(Len(f[m]) < Len(f[n]))
    OBVIOUS
  <2>1. Len(f[m]) \in lengths
    BY DEF lengths
  <2>2. Len(f[n]) <= Len(f[m]) /\ Len(f[n]) \in Nat /\ Len(f[m]) \in Nat
    BY <1>1, <1>3, <1>4, <2>1
  <2> QED BY <2>2
<1>6. n \in Node /\ g[n] # f[n]
  OBVIOUS
<1> HIDE DEF Wrong
<1>7. /\ h.child[n] # NULL => h.child[n] \in Node
      /\ h.next[n] # NULL => h.next[n] \in Node
      /\ h.type[n] \in Type
  BY <1>6 DEF Heap, NodePtr
<1>8. Says(h, g, n) = Says(h, f, n)
  <2>1. Alike(h, h, n)
    BY DEF Alike
  <2>2. SameInside(h, f, g, n)
    BY <1>5, <1>6, <1>7, SaysLonger DEF SameInside
  <2> QED BY <1>6, <2>1, <2>2, SaysSame
<1>9. Behind(h, g, n) = Behind(h, f, n)
  BY <1>5, <1>6, <1>7, SaysLonger DEF Behind
<1> QED BY <1>6, <1>8, <1>9

\* So Render finds what any such function says.
LEMMA Rendered ==
    ASSUME NEW h \in Heap, NEW f \in [Node -> Word], NEW r \in Node,
           \A n \in Node : f[n] = Says(h, f, n) \o Behind(h, f, n)
    PROVE  Render(h, r) = f[r]
<1> DEFINE said[n \in Node] == Says(h, said, n) \o Behind(h, said, n)
<1>1. f = [n \in Node |-> Says(h, f, n) \o Behind(h, f, n)]
  OBVIOUS
<1>2. said = [n \in Node |-> Says(h, said, n) \o Behind(h, said, n)]
  BY <1>1
<1>3. Render(h, r) = said[r]
  BY DEF Render
<1> HIDE DEF said
<1>4. \A n \in Node : said[n] = Says(h, said, n) \o Behind(h, said, n)
  BY <1>2
<1>5. \A n \in Node : said[n] = f[n]
  BY <1>4, SaidOnce
<1> QED BY <1>3, <1>5

-----------------------------------------------------------------------------
(* What is told when the heap changes *)

\* What leads from items leads to items, and nothing to the root; the frames
\* stand on items.
LiveLinks(h, st, r) ==
    /\ h \in Heap /\ st \in Seq(FrameType) /\ r \in h.live
    /\ \A m \in h.live :
        /\ h.next[m] # NULL => h.next[m] \in h.live
        /\ h.child[m] # NULL => h.child[m] \in h.live
        /\ h.next[m] # r /\ h.child[m] # r
    /\ \A i \in 1..Len(st) :
        /\ st[i].item \in h.live /\ (st[i].head = NULL) = (st[i].current = NULL)
        /\ st[i].head # NULL => st[i].head \in h.live /\ st[i].current \in h.live
                                /\ h.next[st[i].current] = NULL
        /\ i < Len(st) => st[i].head # NULL

LEMMA BuiltLinks ==
    ASSUME NEW h \in Heap, NEW st, NEW r, Structure(h, st, r)
    PROVE  LiveLinks(h, st, r)
<1>1. PICK age \in [Node -> Nat] : Shaped(h, st, r, age)
  BY DEF Structure
<1>2. r \in h.live /\ h.live \subseteq Node /\ r # NULL
  BY LinkTypes DEF Structure
<1>3. ASSUME NEW m \in h.live
      PROVE  /\ h.next[m] # NULL => h.next[m] \in h.live
             /\ h.child[m] # NULL => h.child[m] \in h.live
             /\ h.next[m] # r /\ h.child[m] # r
  <2>1. h.next[m] \in NodePtr /\ h.child[m] \in NodePtr
    BY <1>2, LinkTypes
  <2>2. \A n \in Node : (h.next[m] = n => Follows(h, st, m, n))
                        /\ (h.child[m] = n /\ n # NULL => Follows(h, st, m, n))
    BY DEF Follows, Begins
  <2>3. \A n \in Node : Follows(h, st, m, n) => n \in h.live
    BY <1>1 DEF Shaped, Ordered
  <2>4. ~Follows(h, st, m, r)
    BY <1>1 DEF Shaped, OnePlace
  <2> QED BY <1>2, <2>1, <2>2, <2>3, <2>4 DEF NodePtr
<1>4. Frames(h, st, age)
  BY <1>1 DEF Shaped
<1>5. st \in Seq(FrameType) /\ Len(st) \in Nat
  BY <1>4 DEF Frames
<1>6. ASSUME NEW i \in 1..Len(st)
      PROVE  /\ st[i].item \in h.live /\ (st[i].head = NULL) = (st[i].current = NULL)
             /\ st[i].head # NULL => st[i].head \in h.live /\ st[i].current \in h.live
                                     /\ h.next[st[i].current] = NULL
             /\ i < Len(st) => st[i].head # NULL
  <2>1. Unfinished(h, st[i], age)
    BY <1>4 DEF Frames
  <2>2. i < Len(st) => st[i].head # NULL
    <3>1. i < Len(st) => Len(st) \in 1..Len(st)
      BY <1>5
    <3> QED BY <1>4, <3>1 DEF Frames
  <2> QED BY <2>1, <2>2 DEF Unfinished
<1> QED BY <1>2, <1>3, <1>5, <1>6 DEF LiveLinks

\* The item at hand is filled in.
LEMMA FilledTells ==
    ASSUME NEW h, NEW g \in Heap, NEW st, NEW r, LiveLinks(h, st, r),
           NEW told, NEW place, NEW spoken,
           Telling(h, st, r, told, place), Speaking(h, st, told, spoken),
           NEW x \in h.live, x = r \/ Pauses(st, place, x),
           g.live = h.live, g.next = h.next, g.child[x] = NULL,
           \A n \in h.live : n # x => Alike(g, h, n),
           \A m \in 1..Len(st) : NamePart(g, st[m].item) = NamePart(h, st[m].item)
    PROVE  Telling(g, st, r, told, place) /\ Speaking(g, st, told, spoken)
<1>h. h \in Heap /\ h.live \subseteq Node
  BY LinkTypes DEF LiveLinks
<1>1. ASSUME NEW n \in h.live PROVE TellsItem(g, st, r, told, place, n)
  <2>1. TellsItem(h, st, r, told, place, n)
    BY DEF Telling
  <2>2. n # x => Says(g, told, n) = Says(h, told, n) /\ g.child[n] = h.child[n]
    <3>1. n \in Node /\ SameInside(h, told, told, n)
      BY <1>h DEF SameInside
    <3>2. n # x => Alike(g, h, n)
      OBVIOUS
    <3>3. n # x => Says(g, told, n) = Says(h, told, n)
      BY <1>h, <3>1, <3>2, SaysSame
    <3> QED BY <3>2, <3>3 DEF Alike
  <2>3. Behind(g, told, n) = Behind(h, told, n)
    BY DEF Behind
  <2> QED BY <2>1, <2>2, <2>3 DEF TellsItem
<1>2. Speaking(g, st, told, spoken)
  <2>1. \A m \in 1..Len(st) : Opened(g, told, st[m]) = Opened(h, told, st[m])
    BY DEF Opened
  <2> QED BY <2>1 DEF Speaking
<1> QED BY <1>1, <1>2 DEF Telling

\* One more item: what was said of the list so far now has the item that was at
\* hand, and a comma.
EnlistTells(h, g, b, f, e, r, told, spoken) ==
    \E t \in [Node -> Word], q \in [Node -> Nat], s \in [Nat -> Word] :
        /\ Telling(g, Append(b, e), r, t, q) /\ Speaking(g, Append(b, e), t, s)
        /\ s[Len(b) + 1] = IF f.head = NULL THEN spoken[Len(b) + 1]
                           ELSE spoken[Len(b) + 1] \o Says(h, told, f.current) \o <<Comma>>

LEMMA EnlistedTells ==
    ASSUME NEW h, NEW g \in Heap, NEW b \in Seq(FrameType), NEW f \in FrameType, NEW r,
           LiveLinks(h, Append(b, f), r),
           NEW told \in [Node -> Word], NEW place \in [Node -> Nat], NEW spoken \in [Nat -> Word],
           Telling(h, Append(b, f), r, told, place), Speaking(h, Append(b, f), told, spoken),
           NEW n, NEW e \in FrameType, Enlisted(h, g, f, n, e), e.kind = f.kind,
           \A m \in h.live : Alike(g, h, m)
    PROVE  EnlistTells(h, g, b, f, e, r, told, spoken)
<1> DEFINE st == Append(b, f)
           su == Append(b, e)
           k == Len(b) + 1
           w == IF f.head = NULL THEN <<>> ELSE Says(h, told, f.current) \o <<Comma>>
           InList(x) == x \in h.live /\ place[x] = k
           t == [x \in Node |-> IF x = n THEN <<>> ELSE IF InList(x) THEN told[x] \o w ELSE told[x]]
           q == [place EXCEPT ![n] = k]
           s == [spoken EXCEPT ![k] = spoken[k] \o w]
<1>h. h \in Heap /\ h.live \subseteq Node /\ r \in h.live
  BY LinkTypes DEF LiveLinks
<1>n. /\ n \in Node /\ n \notin h.live /\ h.next[n] = NULL /\ h.child[n] = NULL
      /\ g.live = h.live \cup {n} /\ g.child = h.child
      /\ f.head = NULL => g.next = h.next
      /\ f.head # NULL => g.next = [h.next EXCEPT ![f.current] = n]
      /\ e.item = f.item /\ e.current = n /\ e.head = IF f.head = NULL THEN n ELSE f.head
  BY DEF Enlisted
<1>k. /\ k \in Nat /\ k # 0 /\ Len(st) = k /\ Len(su) = k /\ 1..k = 1..Len(b) \cup {k}
      /\ st[k] = f /\ su[k] = e
      /\ \A i \in 1..Len(b) : st[i] = b[i] /\ su[i] = b[i] /\ i \in 1..k /\ i # k /\ i < k
                              /\ i \in Nat
  BY Pushed
<1>f. /\ f.item \in h.live /\ (f.head = NULL) = (f.current = NULL)
      /\ f.head # NULL => /\ f.head \in h.live /\ f.current \in h.live
                          /\ h.next[f.current] = NULL
                          /\ place[f.head] = k /\ place[f.current] = k
  <2>1. k \in 1..Len(st)
    BY <1>k
  <2>2. TellsFrame(st, r, place, k)
    BY <2>1 DEF Telling
  <2> HIDE DEF k, st
  <2> QED BY <2>1, <2>2, <1>k DEF LiveLinks, TellsFrame
<1>b. \A i \in 1..Len(b) :
          /\ b[i].item \in h.live /\ b[i].head \in h.live /\ b[i].current \in h.live
          /\ place[b[i].head] = i /\ place[b[i].current] = i
  <2> SUFFICES ASSUME NEW i \in 1..Len(b)
               PROVE  /\ b[i].item \in h.live /\ b[i].head \in h.live /\ b[i].current \in h.live
                      /\ place[b[i].head] = i /\ place[b[i].current] = i
    OBVIOUS
  <2>1. i \in 1..Len(st) /\ i < Len(st) /\ st[i] = b[i]
    BY <1>k
  <2>2. TellsFrame(st, r, place, i)
    BY <2>1 DEF Telling
  <2>3. b[i].head # NULL
    BY <2>1 DEF LiveLinks
  <2> HIDE DEF k, st
  <2> QED BY <2>1, <2>2, <2>3 DEF LiveLinks, TellsFrame
<1>l. \A x \in h.live : /\ h.next[x] # NULL => h.next[x] \in h.live
                        /\ h.child[x] # NULL => h.child[x] \in h.live
  BY DEF LiveLinks
<1>w. w \in Word
  <2>1. f.head # NULL => Says(h, told, f.current) \in Word
    BY <1>f, <1>h, SaysWords
  <2> QED BY <2>1, CommaWord, Joined
<1>0. n # NULL /\ n # r
  BY <1>n, <1>h, AddressAssumption
<1> HIDE DEF w
<1>t. /\ t \in [Node -> Word] /\ t[n] = <<>>
      /\ \A x \in h.live : t[x] = IF place[x] = k THEN told[x] \o w ELSE told[x]
  <2>1. \A x \in Node : told[x] \in Word /\ told[x] \o w \in Word
    BY <1>w, Joined
  <2> HIDE DEF k
  <2> QED BY <2>1, <1>h, <1>n, Joined
<1>q. /\ q \in [Node -> Nat] /\ q[n] = k /\ \A x \in h.live : q[x] = place[x]
  BY <1>k, <1>h, <1>n
<1>s. /\ s \in [Nat -> Word] /\ s[k] = spoken[k] \o w /\ \A i \in Nat : i # k => s[i] = spoken[i]
  <2>1. spoken[k] \o w \in Word
    BY <1>k, <1>w, Joined
  <2> HIDE DEF k
  <2> QED BY <2>1, <1>k
<1> HIDE DEF t, q, s, k, st, su
<1>1. \A x \in h.live : TellsItem(h, st, r, told, place, x)
  BY DEF Telling, st
<1>2. \A x \in h.live : Says(g, t, x) = Says(h, told, x)
  <2> SUFFICES ASSUME NEW x \in h.live PROVE Says(g, t, x) = Says(h, told, x)
    OBVIOUS
  <2>1. Alike(g, h, x) /\ x \in Node
    BY <1>h
  <2>2. h.child[x] # NULL => h.child[x] \in h.live /\ place[h.child[x]] = 0
    BY <1>1, <1>l DEF TellsItem
  <2>3. h.child[x] # NULL => told[h.child[x]] = t[h.child[x]]
    BY <2>2, <1>t, <1>k
  <2>4. SameInside(h, told, t, x)
    BY <2>3 DEF SameInside
  <2> QED BY <1>h, <2>1, <2>4, SaysSame
<1>3. \A x \in h.live : f.head = NULL \/ x # f.current => g.next[x] = h.next[x]
  BY <1>n, <1>h DEF Heap
<1>4. f.head # NULL => g.next[f.current] = n
  BY <1>n, <1>h, <1>f DEF Heap
<1>5. \A x \in h.live : place[x] \in 0..k /\ (place[x] # k => place[x] = 0 \/ place[x] \in 1..Len(b))
  <2>1. \A x \in h.live : place[x] \in 0..k
    BY <1>1, <1>k DEF TellsItem
  <2>2. \A i \in 0..k : i = k \/ i = 0 \/ i \in 1..Len(b)
    BY <1>k DEF k
  <2> QED BY <2>1, <2>2
<1>6. \A x \in h.live : place[x] # k => (Pauses(su, q, x) <=> Pauses(st, place, x))
  BY <1>5, <1>q, <1>k DEF Pauses
<1>7. \A x \in h.live : place[x] = k => ~Pauses(su, q, x) /\ (Pauses(st, place, x) <=> x = f.current)
  BY <1>q, <1>k, <1>n DEF Pauses
<1>8. ASSUME NEW x \in h.live PROVE TellsItem(g, su, r, t, q, x)
  <2>1. /\ h.child[x] # NULL => place[h.child[x]] = 0 /\ h.child[x] \in h.live
        /\ h.next[x] # NULL => place[h.next[x]] = place[x] /\ h.next[x] \in h.live
        /\ h.next[x] = NULL => place[x] = 0 \/ Pauses(st, place, x)
        /\ place[x] \in 0..k
        /\ x # r => told[x] = IF Pauses(st, place, x) THEN <<>>
                              ELSE Says(h, told, x) \o Behind(h, told, x)
    BY <1>1, <1>l, <1>k DEF TellsItem
  <2>2. g.child[x] # NULL => q[g.child[x]] = 0
    BY <2>1, <1>n, <1>q
  <2>3. q[x] = place[x] /\ q[x] \in 0..Len(su)
    BY <2>1, <1>q, <1>k
  <2>w. told[x] \in Word /\ Says(h, told, x) \in Word
    BY <1>h, SaysWords
  <2>4. CASE f.head # NULL /\ x = f.current
    <3>1. g.next[x] = n /\ place[x] = k
      BY <2>4, <1>4, <1>f
    <3>2. t[x] = w /\ w = Says(h, told, x) \o <<Comma>>
      <4>1. x # r
        BY <3>1, <1>k DEF Telling
      <4>2. Pauses(st, place, x)
        BY <1>7, <2>4, <3>1
      <4>3. told[x] = <<>>
        BY <2>1, <4>1, <4>2
      <4>4. t[x] = <<>> \o w
        BY <4>3, <3>1, <1>t
      <4> QED BY <4>4, <2>4, <1>w, Joined DEF w
    <3>3. Behind(g, t, x) = <<Comma>>
      <4>1. Behind(g, t, x) = <<Comma>> \o <<>>
        BY <3>1, <1>t, <1>0 DEF Behind
      <4> QED BY <4>1, Joined, CommaWord
    <3>4. t[x] = Says(g, t, x) \o Behind(g, t, x)
      BY <3>2, <3>3, <1>2
    <3> QED BY <2>2, <2>3, <3>1, <3>4, <1>0, <1>q, <1>7 DEF TellsItem
  <2>5. CASE place[x] # k
    <3>1. g.next[x] = h.next[x]
      BY <2>5, <1>3, <1>f
    <3>2. Behind(g, t, x) = Behind(h, told, x)
      <4>1. h.next[x] # NULL => t[h.next[x]] = told[h.next[x]]
        BY <2>1, <2>5, <1>t
      <4> QED BY <3>1, <4>1 DEF Behind
    <3>3. t[x] = told[x]
      BY <2>5, <1>t
    <3>4. g.next[x] # NULL => q[g.next[x]] = q[x]
      BY <2>1, <2>3, <3>1, <1>q
    <3> QED BY <2>1, <2>2, <2>3, <2>5, <3>1, <3>2, <3>3, <3>4, <1>2, <1>6 DEF TellsItem
  <2>6. CASE place[x] = k /\ (f.head = NULL \/ x # f.current)
    <3>1. g.next[x] = h.next[x]
      BY <2>6, <1>3
    <3>2. x # f.current
      <4>1. f.head = NULL => f.current = NULL
        BY <1>f
      <4>2. x # NULL
        BY <1>h, AddressAssumption
      <4> QED BY <2>6, <4>1, <4>2
    <3>3. ~Pauses(st, place, x) /\ ~Pauses(su, q, x)
      BY <2>6, <3>2, <1>7
    <3>4. h.next[x] # NULL
      BY <2>1, <2>6, <3>3, <1>k
    <3>5. h.next[x] \in h.live /\ place[h.next[x]] = k /\ told[h.next[x]] \in Word
      BY <2>1, <2>6, <3>4, <1>h
    <3>6. g.next[x] # NULL => q[g.next[x]] = q[x]
      BY <2>3, <2>6, <3>1, <3>5, <1>q
    <3> DEFINE v == told[h.next[x]]
               u == Says(h, told, x)
    <3> HIDE DEF u, v
    <3>7. x # r => told[x] = u \o (<<Comma>> \o v)
      BY <2>1, <3>3, <3>4 DEF Behind, u, v
    <3>8. Behind(g, t, x) = <<Comma>> \o (v \o w)
      BY <3>1, <3>4, <3>5, <1>t DEF Behind, v
    <3>9. (u \o (<<Comma>> \o v)) \o w = u \o (<<Comma>> \o (v \o w))
      <4>1. u \in Word /\ v \in Word /\ <<Comma>> \in Word
        BY <2>w, <3>5, CommaWord DEF u, v
      <4>2. JoinsAround(u, <<Comma>>, v, w)
        BY <4>1, <1>w, JoinAround
      <4> QED BY <4>2, Zenon DEF JoinsAround
    <3>10. x # r => t[x] = Says(g, t, x) \o Behind(g, t, x)
      <4>1. t[x] = told[x] \o w /\ Says(g, t, x) = u
        BY <2>6, <1>t, <1>2 DEF u
      <4> QED BY <3>7, <3>8, <3>9, <4>1
    <3> QED BY <2>2, <2>3, <3>1, <3>3, <3>4, <3>6, <3>10 DEF TellsItem
  <2> QED BY <2>4, <2>5, <2>6
<1>9. TellsItem(g, su, r, t, q, n)
  <2>1. g.child[n] = NULL /\ g.next[n] = NULL
    BY <1>n, <1>f, <1>h DEF Heap
  <2>2. Pauses(su, q, n)
    BY <1>q, <1>k, <1>n DEF Pauses
  <2> QED BY <2>1, <2>2, <1>q, <1>k, <1>t DEF TellsItem
<1>10. ASSUME NEW m \in 1..k PROVE TellsFrame(su, r, q, m)
  <2>1. TellsFrame(st, r, place, m)
    BY <1>k DEF Telling, st
  <2>2. m # 1 => m - 1 \in 1..Len(b)
    BY <1>k DEF k
  <2>3. m # 1 => su[m - 1] = st[m - 1]
    BY <2>2, <1>k
  <2>4. CASE m = k
    BY <2>1, <2>3, <2>4, <1>k, <1>n, <1>f, <1>q DEF TellsFrame
  <2>5. CASE m \in 1..Len(b)
    BY <2>1, <2>3, <2>5, <1>k, <1>b, <1>q DEF TellsFrame
  <2> QED BY <2>4, <2>5, <1>k
<1>11. Telling(g, su, r, t, q)
  <2>1. q[r] = 0 /\ g.next[r] = NULL
    <3>1. place[r] = 0 /\ h.next[r] = NULL
      BY DEF Telling
    <3> QED BY <3>1, <1>h, <1>q, <1>3, <1>f, <1>k
  <2> QED BY <2>1, <1>8, <1>9, <1>10, <1>k, <1>n DEF Telling
<1>12. Speaking(g, su, t, s)
  <2>1. /\ spoken[0] = <<>>
        /\ \A m \in 1..k : spoken[m] = spoken[m - 1] \o Opened(h, told, st[m])
    BY <1>k DEF Speaking, st
  <2>2. s[0] = <<>>
    BY <2>1, <1>s, <1>k
  <2>3. ASSUME NEW m \in 1..Len(b) PROVE s[m] = s[m - 1] \o Opened(g, t, su[m])
    <3>1. m \in Nat /\ m - 1 \in Nat /\ m # k /\ m - 1 # k /\ m \in 1..k
      BY <1>k DEF k
    <3>2. s[m] = spoken[m] /\ s[m - 1] = spoken[m - 1]
      BY <3>1, <1>s
    <3>3. t[b[m].head] = told[b[m].head] /\ NamePart(g, b[m].item) = NamePart(h, b[m].item)
      BY <3>1, <1>b, <1>t DEF Alike
    <3>4. Opened(g, t, b[m]) = Opened(h, told, b[m])
      BY <3>3 DEF Opened
    <3> QED BY <2>1, <3>1, <3>2, <3>4, <1>k
  <2>4. s[k] = s[k - 1] \o Opened(g, t, e)
    <3>1. k \in 1..k /\ k - 1 \in Nat /\ k - 1 # k
      BY <1>k
    <3>2. spoken[k] = spoken[k - 1] \o Opened(h, told, f) /\ s[k - 1] = spoken[k - 1]
      BY <2>1, <3>1, <1>k, <1>s
    <3> DEFINE p == NamePart(h, f.item) \o <<Bracket(f.kind)>>
               d == IF f.head = NULL THEN <<>> ELSE told[f.head]
    <3>3. p \in Word /\ d \in Word
      <4>1. NamePart(h, f.item) \in Word /\ <<Bracket(f.kind)>> \in Word
        BY <1>f, <1>h, SaysWords, BracketWords DEF FrameType
      <4>2. p \in Word
        BY <4>1, Joined
      <4> HIDE DEF p
      <4> QED BY <4>2, <1>f, <1>h, Joined
    <3>4. Opened(h, told, f) = p \o d
      BY DEF Opened
    <3>5. Opened(g, t, e) = p \o (d \o w)
      <4>1. NamePart(g, e.item) = NamePart(h, f.item) /\ e.head # NULL
        BY <1>f, <1>n, <1>0 DEF Alike
      <4>2. t[e.head] = d \o w
        <5>1. CASE f.head = NULL
          <6>1. d = <<>> /\ w = <<>> /\ t[e.head] = <<>>
            BY <5>1, <1>n, <1>t DEF w
          <6> QED BY <6>1, Joined
        <5>2. CASE f.head # NULL
          BY <5>2, <1>f, <1>n, <1>t
        <5> QED BY <5>1, <5>2
      <4> HIDE DEF d
      <4> QED BY <4>1, <4>2 DEF Opened
    <3> HIDE DEF p, d
    <3>6. s[k] = (spoken[k - 1] \o (p \o d)) \o w
      BY <1>s, <3>2, <3>4
    <3>7. (spoken[k - 1] \o (p \o d)) \o w = spoken[k - 1] \o (p \o (d \o w))
      <4>1. spoken[k - 1] \in Word /\ p \o d \in Word
        BY <3>1, <3>3, Joined
      <4>2. (spoken[k - 1] \o (p \o d)) \o w = spoken[k - 1] \o ((p \o d) \o w)
        BY <4>1, <1>w, Regroup
      <4>3. (p \o d) \o w = p \o (d \o w)
        BY <3>3, <1>w, Regroup
      <4> QED BY <4>2, <4>3
    <3> QED BY <3>2, <3>5, <3>6, <3>7
  <2>5. Len(su) = k /\ 1..k = 1..Len(b) \cup {k} /\ su[k] = e
    BY <1>k
  <2> HIDE DEF k, s, su, t
  <2>6. ASSUME NEW m \in 1..k PROVE s[m] = s[m - 1] \o Opened(g, t, su[m])
    <3>1. CASE m = k
      BY <2>4, <2>5, <3>1
    <3>2. CASE m \in 1..Len(b)
      BY <2>3, <3>2
    <3> QED BY <2>5, <3>1, <3>2
  <2> QED BY <2>2, <2>5, <2>6 DEF Speaking
<1>13. s[k] = IF f.head = NULL THEN spoken[k] ELSE spoken[k] \o Says(h, told, f.current) \o <<Comma>>
  <2>1. spoken[k] \in Word
    BY <1>k
  <2>2. CASE f.head = NULL
    <3>1. s[k] = spoken[k] \o <<>>
      BY <2>2, <1>s DEF w
    <3> QED BY <2>1, <2>2, <3>1, Joined
  <2>3. CASE f.head # NULL
    <3>1. Says(h, told, f.current) \in Word
      BY <2>3, <1>f, <1>h, SaysWords
    <3>2. s[k] = spoken[k] \o (Says(h, told, f.current) \o <<Comma>>)
      BY <2>3, <1>s DEF w
    <3> QED BY <2>1, <2>3, <3>1, <3>2, CommaWord, Joined
  <2> QED BY <2>2, <2>3
<1> QED BY <1>11, <1>12, <1>13, <1>t, <1>q, <1>s DEF su, k, EnlistTells

\* what a container says
SaysList(h, said, n, kind) ==
    ValuePart(h, said, n) = (<<Bracket(kind)>> \o Inside(h, said, n)) \o <<Closing(kind)>>

LEMMA ListCase ==
    ASSUME NEW h, NEW said, NEW n, NEW kind \in ContainerType, h.type[n] = kind
    PROVE  SaysList(h, said, n, kind)
BY ValueCases DEF SaysList

Regroups(a, p, o, d, w, c) ==
    ((a \o ((p \o o) \o d)) \o w) \o c = a \o (p \o ((o \o (d \o w)) \o c))

LEMMA Regrouped ==
    ASSUME NEW a \in Word, NEW p \in Word, NEW o \in Word, NEW d \in Word,
           NEW w \in Word, NEW c \in Word
    PROVE  Regroups(a, p, o, d, w, c)
<1> DEFINE W == Word
           y == d \o w
           z == (p \o o) \o d
           e == o \o (d \o w)
           v == p \o (o \o (d \o w))
<1>a. a \in W
  OBVIOUS
<1>p. p \in W
  OBVIOUS
<1>o. o \in W
  OBVIOUS
<1>d. d \in W
  OBVIOUS
<1>w. w \in W
  OBVIOUS
<1>c. c \in W
  OBVIOUS
<1>1. \A i, j \in W : i \o j \in W
  BY Joined
<1>2. \A i, j, k \in W : (i \o j) \o k = i \o (j \o k)
  BY Regroup
<1> HIDE DEF W
<1>x. p \o o \in W
  BY <1>p, <1>o, <1>1, Zenon
<1>y. y \in W
  BY <1>d, <1>w, <1>1, Zenon
<1>z. z \in W
  BY <1>x, <1>d, <1>1, Zenon
<1>e. e \in W
  BY <1>o, <1>y, <1>1, Zenon
<1>v. v \in W
  BY <1>p, <1>e, <1>1, Zenon
<1>3. z \o w = (p \o o) \o y
  BY <1>x, <1>d, <1>w, <1>2, Zenon
<1>4. (p \o o) \o y = v
  BY <1>p, <1>o, <1>y, <1>2, Zenon
<1> HIDE DEF y, z, e, v
<1>5. (a \o z) \o w = a \o (z \o w)
  BY <1>a, <1>z, <1>w, <1>2, Zenon
<1>6. (a \o v) \o c = a \o (v \o c)
  BY <1>a, <1>v, <1>c, <1>2, Zenon
<1>7. (p \o e) \o c = p \o (e \o c)
  BY <1>p, <1>e, <1>c, <1>2, Zenon
<1>8. v = p \o e
  BY DEF v, e
<1> QED BY <1>3, <1>4, <1>5, <1>6, <1>7, <1>8, Zenon DEF z, e, Regroups

\* The end of a list: what was said of it so far now has the item that was at
\* hand, and its container says all of it.
CloseTells(h, g, b, f, r, told, spoken) ==
    \E t \in [Node -> Word], q \in [Node -> Nat] :
        /\ Telling(g, b, r, t, q) /\ Speaking(g, b, t, spoken)
        /\ spoken[Len(b)] \o Says(g, t, f.item) =
               (spoken[Len(b) + 1] \o Says(h, told, f.current)) \o <<Closing(f.kind)>>

LEMMA ClosedTells ==
    ASSUME NEW h, NEW g \in Heap, NEW b \in Seq(FrameType), NEW f \in FrameType, NEW r,
           LiveLinks(h, Append(b, f), r), f.head # NULL,
           NEW told \in [Node -> Word], NEW place \in [Node -> Nat], NEW spoken \in [Nat -> Word],
           Telling(h, Append(b, f), r, told, place), Speaking(h, Append(b, f), told, spoken),
           g.live = h.live, g.next = h.next, g.child = [h.child EXCEPT ![f.item] = f.head],
           g.type[f.item] = f.kind, NamePart(g, f.item) = NamePart(h, f.item),
           \A m \in h.live : m # f.item => Alike(g, h, m)
    PROVE  CloseTells(h, g, b, f, r, told, spoken)
<1> DEFINE st == Append(b, f)
           k == Len(b) + 1
           w == Says(h, told, f.current)
           InList(x) == x \in h.live /\ place[x] = k
           t == [x \in Node |-> IF InList(x) THEN told[x] \o w ELSE told[x]]
           q == [x \in Node |-> IF InList(x) THEN 0 ELSE place[x]]
<1>h. h \in Heap /\ h.live \subseteq Node /\ r \in h.live
  BY LinkTypes DEF LiveLinks
<1>k. /\ k \in Nat /\ k # 0 /\ Len(st) = k /\ 1..k = 1..Len(b) \cup {k} /\ k - 1 = Len(b)
      /\ Len(b) \in Nat /\ Len(b) # k /\ (k # 1 => Len(b) \in 1..Len(b))
      /\ \A i \in 0..k : i = k \/ i = 0 \/ i \in 1..Len(b)
      /\ st[k] = f /\ k \in 1..k
      /\ \A i \in 1..Len(b) : st[i] = b[i] /\ i \in 1..k /\ i # k /\ i < k /\ i \in Nat
                              /\ i \in 1..Len(st)
  BY Pushed
<1>f. /\ f.item \in h.live /\ f.head \in h.live /\ f.current \in h.live
      /\ h.next[f.current] = NULL /\ place[f.head] = k /\ place[f.current] = k
      /\ f.item = IF k = 1 THEN r ELSE st[k - 1].current
  <2>1. k \in 1..Len(st)
    BY <1>k
  <2>2. TellsFrame(st, r, place, k)
    BY <2>1 DEF Telling
  <2> HIDE DEF k, st
  <2> QED BY <2>1, <2>2, <1>k DEF LiveLinks, TellsFrame
<1>b. \A i \in 1..Len(b) :
          /\ b[i].item \in h.live /\ b[i].head \in h.live /\ b[i].current \in h.live
          /\ place[b[i].head] = i /\ place[b[i].current] = i
  <2> SUFFICES ASSUME NEW i \in 1..Len(b)
               PROVE  /\ b[i].item \in h.live /\ b[i].head \in h.live /\ b[i].current \in h.live
                      /\ place[b[i].head] = i /\ place[b[i].current] = i
    OBVIOUS
  <2>1. i \in 1..Len(st) /\ i < Len(st) /\ st[i] = b[i]
    BY <1>k
  <2>2. TellsFrame(st, r, place, i)
    BY <2>1 DEF Telling
  <2>3. b[i].head # NULL
    BY <2>1 DEF LiveLinks
  <2> HIDE DEF k, st
  <2> QED BY <2>1, <2>2, <2>3 DEF LiveLinks, TellsFrame
<1>l. \A x \in h.live : /\ h.next[x] # NULL => h.next[x] \in h.live
                        /\ h.child[x] # NULL => h.child[x] \in h.live
  BY DEF LiveLinks
<1>w. w \in Word
  BY <1>f, <1>h, SaysWords
<1> HIDE DEF w
<1>t. /\ t \in [Node -> Word]
      /\ \A x \in h.live : t[x] = IF place[x] = k THEN told[x] \o w ELSE told[x]
  <2>1. \A x \in Node : told[x] \in Word /\ told[x] \o w \in Word
    BY <1>w, Joined
  <2> HIDE DEF k
  <2> QED BY <2>1, <1>h
<1>q. /\ q \in [Node -> Nat] /\ \A x \in h.live : q[x] = IF place[x] = k THEN 0 ELSE place[x]
  <2> HIDE DEF k
  <2> QED BY <1>h
<1> HIDE DEF t, q, k, st
<1>1. \A x \in h.live : TellsItem(h, st, r, told, place, x)
  BY DEF Telling, st
<1>i. f.item # r => /\ Len(b) \in 1..Len(b) /\ f.item = b[Len(b)].current
                    /\ place[f.item] = Len(b) /\ Pauses(st, place, f.item)
  <2>1. k # 1 => Len(b) \in 1..Len(b)
    BY <1>k
  <2>2. f.item # r => Len(b) \in 1..Len(b) /\ f.item = b[Len(b)].current
    BY <2>1, <1>f, <1>k
  <2> QED BY <2>2, <1>b, <1>k DEF Pauses
<1>r. place[r] = 0 /\ h.next[r] = NULL
  BY DEF Telling
<1>o. place[f.item] # k
  BY <1>i, <1>r, <1>k
<1>2. \A x \in h.live : x # f.item => Says(g, t, x) = Says(h, told, x)
  <2> SUFFICES ASSUME NEW x \in h.live, x # f.item PROVE Says(g, t, x) = Says(h, told, x)
    OBVIOUS
  <2>1. Alike(g, h, x) /\ x \in Node
    BY <1>h
  <2>2. h.child[x] # NULL => h.child[x] \in h.live /\ place[h.child[x]] = 0
    BY <1>1, <1>l DEF TellsItem
  <2>3. h.child[x] # NULL => told[h.child[x]] = t[h.child[x]]
    BY <2>2, <1>t, <1>k
  <2>4. SameInside(h, told, t, x)
    BY <2>3 DEF SameInside
  <2> QED BY <1>h, <2>1, <2>4, SaysSame
<1>5. \A x \in h.live : place[x] \in 0..k /\ (place[x] # k => place[x] = 0 \/ place[x] \in 1..Len(b))
  <2>1. \A x \in h.live : place[x] \in 0..k
    BY <1>1, <1>k DEF TellsItem
  <2> QED BY <2>1, <1>k
<1>6. \A x \in h.live : place[x] # k => (Pauses(b, q, x) <=> Pauses(st, place, x))
  BY <1>5, <1>q, <1>k DEF Pauses
<1>7. \A x \in h.live : place[x] = k => ~Pauses(b, q, x) /\ (Pauses(st, place, x) <=> x = f.current)
  BY <1>q, <1>k DEF Pauses
<1>8. ASSUME NEW x \in h.live PROVE TellsItem(g, b, r, t, q, x)
  <2>1. /\ h.child[x] # NULL => place[h.child[x]] = 0 /\ h.child[x] \in h.live
        /\ h.next[x] # NULL => place[h.next[x]] = place[x] /\ h.next[x] \in h.live
        /\ h.next[x] = NULL => place[x] = 0 \/ Pauses(st, place, x)
        /\ x # r => told[x] = IF Pauses(st, place, x) THEN <<>>
                              ELSE Says(h, told, x) \o Behind(h, told, x)
    BY <1>1, <1>l DEF TellsItem
  <2>2. g.child[x] # NULL => q[g.child[x]] = 0
    <3>1. g.child[x] = IF x = f.item THEN f.head ELSE h.child[x]
      BY <1>h, LinkTypes
    <3>2. q[f.head] = 0
      BY <1>f, <1>q
    <3>3. h.child[x] # NULL => q[h.child[x]] = 0
      BY <2>1, <1>q
    <3> QED BY <3>1, <3>2, <3>3
  <2>3. q[x] \in 0..Len(b)
    <3>1. q[x] = 0 \/ q[x] \in 1..Len(b)
      BY <1>5, <1>q
    <3> QED BY <3>1, <1>k
  <2>w. told[x] \in Word /\ Says(h, told, x) \in Word
    BY <1>h, SaysWords
  <2>n. g.next[x] # NULL => q[g.next[x]] = q[x]
    BY <2>1, <1>q
  <2>4. CASE x = f.current
    <3>1. place[x] = k /\ x # f.item /\ x # r /\ g.next[x] = NULL
      BY <2>4, <1>f, <1>o, <1>r, <1>k
    <3>2. told[x] = <<>> /\ w = Says(h, told, x)
      BY <2>1, <2>4, <3>1, <1>7 DEF w
    <3>3. t[x] = <<>> \o w
      BY <3>1, <3>2, <1>t
    <3>4. Behind(g, t, x) = <<>>
      BY <3>1 DEF Behind
    <3>5. t[x] = Says(g, t, x) \o Behind(g, t, x)
      BY <3>1, <3>2, <3>3, <3>4, <1>2, <1>w, Joined
    <3>6. q[x] = 0
      BY <3>1, <1>q
    <3> QED BY <2>2, <2>3, <2>n, <3>1, <3>5, <3>6, <1>7 DEF TellsItem
  <2>5. CASE place[x] # k
    <3>1. q[x] = place[x] /\ t[x] = told[x]
      BY <2>5, <1>q, <1>t
    <3>2. Behind(g, t, x) = Behind(h, told, x)
      <4>1. h.next[x] # NULL => t[h.next[x]] = told[h.next[x]]
        BY <2>1, <2>5, <1>t
      <4> QED BY <4>1 DEF Behind
    <3>3. x # r /\ ~Pauses(st, place, x) => x # f.item
      BY <1>i
    <3> QED BY <2>1, <2>2, <2>3, <2>n, <2>5, <3>1, <3>2, <3>3, <1>2, <1>6 DEF TellsItem
  <2>6. CASE place[x] = k /\ x # f.current
    <3>3. ~Pauses(st, place, x) /\ ~Pauses(b, q, x) /\ x # f.item
      BY <2>6, <1>7, <1>o
    <3>4. h.next[x] # NULL
      BY <2>1, <2>6, <3>3, <1>k
    <3>5. h.next[x] \in h.live /\ place[h.next[x]] = k /\ told[h.next[x]] \in Word
      BY <2>1, <2>6, <3>4, <1>h
    <3> DEFINE v == told[h.next[x]]
               u == Says(h, told, x)
    <3> HIDE DEF u, v
    <3>7. x # r => told[x] = u \o (<<Comma>> \o v)
      BY <2>1, <3>3, <3>4 DEF Behind, u, v
    <3>8. Behind(g, t, x) = <<Comma>> \o (v \o w)
      BY <3>4, <3>5, <1>t DEF Behind, v
    <3>9. (u \o (<<Comma>> \o v)) \o w = u \o (<<Comma>> \o (v \o w))
      <4>1. u \in Word /\ v \in Word /\ <<Comma>> \in Word
        BY <2>w, <3>5, CommaWord DEF u, v
      <4>2. JoinsAround(u, <<Comma>>, v, w)
        BY <4>1, <1>w, JoinAround
      <4> QED BY <4>2, Zenon DEF JoinsAround
    <3>10. x # r => t[x] = Says(g, t, x) \o Behind(g, t, x)
      <4>1. t[x] = told[x] \o w /\ Says(g, t, x) = u
        BY <2>6, <3>3, <1>t, <1>2 DEF u
      <4> QED BY <3>7, <3>8, <3>9, <4>1
    <3>11. q[x] = 0
      BY <2>6, <1>q
    <3> QED BY <2>2, <2>3, <2>n, <3>3, <3>4, <3>10, <3>11 DEF TellsItem
  <2> QED BY <2>4, <2>5, <2>6
<1>10. ASSUME NEW m \in 1..Len(b) PROVE TellsFrame(b, r, q, m)
  <2>1. TellsFrame(st, r, place, m)
    BY <1>k DEF Telling, st
  <2>2. m # 1 => m - 1 \in 1..Len(b)
    BY <1>k
  <2>3. m # 1 => b[m - 1] = st[m - 1]
    BY <2>2, <1>k
  <2>4. q[b[m].head] = m /\ q[b[m].current] = m
    BY <1>b, <1>q, <1>k
  <2> QED BY <2>1, <2>3, <2>4, <1>k DEF TellsFrame
<1>11. Telling(g, b, r, t, q)
  <2>1. q[r] = 0 /\ g.next[r] = NULL
    BY <1>r, <1>h, <1>q, <1>k
  <2> QED BY <2>1, <1>8, <1>10 DEF Telling
<1>s. /\ spoken[0] = <<>>
      /\ \A m \in 1..k : spoken[m] = spoken[m - 1] \o Opened(h, told, st[m])
  BY <1>k DEF Speaking, st
<1>n. \A m \in h.live : NamePart(g, m) = NamePart(h, m)
  BY DEF Alike
<1>12. Speaking(g, b, t, spoken)
  <2>1. ASSUME NEW m \in 1..Len(b) PROVE spoken[m] = spoken[m - 1] \o Opened(g, t, b[m])
    <3>1. m \in Nat /\ m # k /\ m \in 1..k /\ st[m] = b[m]
      BY <1>k
    <3>2. t[b[m].head] = told[b[m].head] /\ NamePart(g, b[m].item) = NamePart(h, b[m].item)
      BY <3>1, <1>b, <1>t, <1>n
    <3>3. Opened(g, t, b[m]) = Opened(h, told, b[m])
      BY <3>2 DEF Opened
    <3> QED BY <1>s, <3>1, <3>3
  <2> QED BY <1>s, <2>1 DEF Speaking
<1>13. spoken[Len(b)] \o Says(g, t, f.item) = (spoken[k] \o w) \o <<Closing(f.kind)>>
  <2> DEFINE p == NamePart(h, f.item)
             o == <<Bracket(f.kind)>>
             c == <<Closing(f.kind)>>
             d == told[f.head]
             a == spoken[Len(b)]
  <2>1. p \in Word /\ o \in Word /\ c \in Word /\ d \in Word /\ a \in Word
    BY <1>f, <1>h, <1>k, SaysWords, BracketWords DEF FrameType
  <2>2. spoken[k] = a \o ((p \o o) \o d)
    BY <1>s, <1>k DEF Opened
  <2>3. Says(g, t, f.item) = p \o ((o \o (d \o w)) \o c)
    <3>1. g.child[f.item] = f.head /\ f.head # NULL /\ f.item \in Node
      BY <1>h, <1>f, LinkTypes
    <3>2. Inside(g, t, f.item) = d \o w
      BY <3>1, <1>f, <1>t DEF Inside
    <3>3. f.kind \in ContainerType
      BY DEF FrameType
    <3>4. SaysList(g, t, f.item, f.kind)
      BY <3>3, ListCase
    <3> QED BY <3>2, <3>4, Zenon DEF Says, SaysList
  <2> HIDE DEF p, o, c, d, a
  <2>4. Regroups(a, p, o, d, w, c)
    BY <2>1, <1>w, Regrouped
  <2> QED BY <2>2, <2>3, <2>4, Zenon DEF a, c, Regroups
<1> QED BY <1>11, <1>12, <1>13, <1>t, <1>q DEF k, w, CloseTells

\* What a change of an item does to what the others say: nothing.
Retyped(h, g, x, t) ==
    /\ g.type[x] = t /\ NamePart(g, x) = NamePart(h, x)
    /\ \A m \in Node : m # x => Alike(g, h, m)

LEMMA TypeSays ==
    ASSUME NEW h \in Heap, NEW x \in Node, NEW t \in Type
    PROVE  Retyped(h, [h EXCEPT !.type[x] = t], x, t)
<1> DEFINE g == [h EXCEPT !.type[x] = t]
           ty == [h.type EXCEPT ![x] = t]
<1>1. g = [h EXCEPT !.type = ty]
  BY DEF Heap
<1>2. /\ g.type = ty /\ g.child = h.child /\ g.string = h.string /\ g.text = h.text
      /\ g.valuestring = h.valuestring /\ ty[x] = t /\ \A m \in Node : m # x => ty[m] = h.type[m]
  BY <1>1 DEF Heap
<1> HIDE DEF g, ty
<1>3. \A p : Text(g, p) = Text(h, p)
  BY <1>2 DEF Text
<1>4. \A m : NamePart(g, m) = NamePart(h, m)
  BY <1>2, <1>3 DEF NamePart
<1>5. \A m \in Node : m # x => Alike(g, h, m)
  BY <1>2, <1>3, <1>4 DEF Alike
<1> QED BY <1>2, <1>4, <1>5 DEF g, Retyped

\* A literal in a block that no item owns.
LEMMA OthersKeepStrings ==
    ASSUME NEW h, Memory(h), NEW s \in Str, h.text[s] = NULL, NEW y, NEW g,
           g.text = [h.text EXCEPT ![s] = y]
    PROVE  \A m \in h.live : /\ Text(g, h.string[m]) = Text(h, h.string[m])
                             /\ Text(g, h.valuestring[m]) = Text(h, h.valuestring[m])
<1>1. h \in Heap /\ h.live \subseteq Node /\ StringsOwned(h) /\ s \in StrPtr /\ s # NULL
  BY LinkTypes, AddressAssumption DEF Memory, Plain, StrPtr
<1>2. \A m \in h.live : h.string[m] # s /\ h.valuestring[m] # s
  BY <1>1 DEF StringsOwned, OwnsString
<1>3. \A p : p # s => Text(g, p) = Text(h, p)
  BY <1>1 DEF Text, Heap
<1> QED BY <1>2, <1>3

LEMMA ValueSays ==
    ASSUME NEW h, Memory(h), NEW x \in h.live, NEW s \in Str, h.text[s] = NULL, NEW y \in Name
    PROVE  LET g == TakeValue(Strdup(h, s, y), x, s)
           IN  /\ g.type[x] = "String" /\ Text(g, g.valuestring[x]) = y
               /\ NamePart(g, x) = NamePart(h, x)
               /\ \A m \in h.live : m # x => Alike(g, h, m)
<1> DEFINE g == TakeValue(Strdup(h, s, y), x, s)
           ty == [h.type EXCEPT ![x] = "String"]
           vs == [h.valuestring EXCEPT ![x] = s]
           tx == [h.text EXCEPT ![s] = y]
<1>h. h \in Heap /\ h.live \subseteq Node /\ x \in Node
  BY LinkTypes DEF Memory, Plain
<1>1. Strdup(h, s, y) = [h EXCEPT !.text = tx]
  BY <1>h, StrdupIs
<1>2. g = [h EXCEPT !.text = tx, !.type = ty, !.valuestring = vs]
  BY <1>h, <1>1 DEF Heap, TakeValue
<1>3. /\ ty[x] = "String" /\ vs[x] = s /\ tx[s] = y
      /\ \A m \in Node : m # x => ty[m] = h.type[m] /\ vs[m] = h.valuestring[m]
  BY <1>h DEF Heap
<1> HIDE DEF g, ty, vs
<1>4. /\ g.child = h.child /\ g.type = ty /\ g.string = h.string
      /\ g.valuestring = vs /\ g.text = tx
  BY <1>h, <1>2 DEF Heap
<1>5. \A m \in h.live : /\ Text(g, h.string[m]) = Text(h, h.string[m])
                        /\ Text(g, h.valuestring[m]) = Text(h, h.valuestring[m])
  BY <1>4, OthersKeepStrings
<1> HIDE DEF tx
<1>6. \A m \in h.live : NamePart(g, m) = NamePart(h, m)
  BY <1>4, <1>5 DEF NamePart
<1>7. \A m \in h.live : m # x => Alike(g, h, m)
  BY <1>h, <1>3, <1>4, <1>5, <1>6 DEF Alike
<1>8. Text(g, g.valuestring[x]) = y
  BY <1>3, <1>4 DEF Text
<1> QED BY <1>3, <1>4, <1>6, <1>7, <1>8 DEF g

LEMMA KeySays ==
    ASSUME NEW h, Memory(h), NEW x \in h.live, NEW s \in Str, h.text[s] = NULL, NEW y \in Name
    PROVE  LET g == TakeKey(Strdup(h, s, y), x, s)
           IN  /\ NamePart(g, x) = <<y, ":">>
               /\ \A m \in h.live : m # x => Alike(g, h, m)
<1> DEFINE g == TakeKey(Strdup(h, s, y), x, s)
           ty == [h.type EXCEPT ![x] = "String"]
           sg == [h.string EXCEPT ![x] = s]
           tx == [h.text EXCEPT ![s] = y]
<1>h. h \in Heap /\ h.live \subseteq Node /\ x \in Node /\ s # NULL
  BY LinkTypes, AddressAssumption DEF Memory, Plain
<1>1. Strdup(h, s, y) = [h EXCEPT !.text = tx]
  BY <1>h, StrdupIs
<1>2. g = [h EXCEPT !.text = tx, !.type = ty, !.string = sg]
  BY <1>h, <1>1 DEF Heap, TakeKey
<1>3. /\ sg[x] = s /\ tx[s] = y
      /\ \A m \in Node : m # x => ty[m] = h.type[m] /\ sg[m] = h.string[m]
  BY <1>h DEF Heap
<1> HIDE DEF g, ty, sg
<1>4. /\ g.child = h.child /\ g.type = ty /\ g.string = sg
      /\ g.valuestring = h.valuestring /\ g.text = tx
  BY <1>h, <1>2 DEF Heap
<1>5. \A m \in h.live : /\ Text(g, h.string[m]) = Text(h, h.string[m])
                        /\ Text(g, h.valuestring[m]) = Text(h, h.valuestring[m])
  BY <1>4, OthersKeepStrings
<1> HIDE DEF tx
<1>6. \A m \in h.live : m # x => NamePart(g, m) = NamePart(h, m)
  BY <1>h, <1>3, <1>4, <1>5 DEF NamePart
<1>7. \A m \in h.live : m # x => Alike(g, h, m)
  BY <1>h, <1>3, <1>4, <1>5, <1>6 DEF Alike
<1>8. NamePart(g, x) = <<y, ":">>
  <2>1. g.string[x] = s /\ Text(g, s) = y
    BY <1>3, <1>4 DEF Text
  <2> QED BY <2>1, <1>h DEF NamePart
<1> QED BY <1>7, <1>8 DEF g

LEMMA NewItemSays ==
    ASSUME NEW h, Memory(h), NEW n \in Node \ h.live
    PROVE  LET g == NewItem(h, n, "Invalid")
           IN  \A m : NamePart(g, m) = NamePart(h, m) /\ Alike(g, h, m)
<1> DEFINE g == NewItem(h, n, "Invalid")
           lv == h.live \cup {n}
<1>h. h \in Heap /\ h.live \subseteq Node /\ n # NULL
  BY LinkTypes, AddressAssumption DEF Memory, Plain
<1>1. /\ [h.next EXCEPT ![n] = NULL] = h.next /\ [h.prev EXCEPT ![n] = NULL] = h.prev
      /\ [h.child EXCEPT ![n] = NULL] = h.child /\ [h.type EXCEPT ![n] = "Invalid"] = h.type
      /\ [h.string EXCEPT ![n] = NULL] = h.string
      /\ [h.valuestring EXCEPT ![n] = NULL] = h.valuestring
  BY <1>h DEF Memory, Plain, FreedIsBlank, Heap
<1>2. g = [h EXCEPT !.live = lv, !.next = [h.next EXCEPT ![n] = NULL],
                    !.prev = [h.prev EXCEPT ![n] = NULL],
                    !.child = [h.child EXCEPT ![n] = NULL],
                    !.type = [h.type EXCEPT ![n] = "Invalid"],
                    !.isReference = h.isReference \ {n},
                    !.stringIsConst = h.stringIsConst \ {n},
                    !.string = [h.string EXCEPT ![n] = NULL],
                    !.valuestring = [h.valuestring EXCEPT ![n] = NULL]]
  BY <1>h DEF NewItem, Heap
<1>3. g = [h EXCEPT !.live = lv, !.next = h.next, !.prev = h.prev, !.child = h.child,
                    !.type = h.type, !.isReference = h.isReference \ {n},
                    !.stringIsConst = h.stringIsConst \ {n}, !.string = h.string,
                    !.valuestring = h.valuestring]
  BY <1>1, <1>2
<1> HIDE DEF g, lv
<1>4. /\ g.child = h.child /\ g.type = h.type /\ g.string = h.string
      /\ g.valuestring = h.valuestring /\ g.text = h.text
  BY <1>h, <1>3 DEF Heap
<1>5. \A p : Text(g, p) = Text(h, p)
  BY <1>4 DEF Text
<1>6. \A m : NamePart(g, m) = NamePart(h, m)
  BY <1>4, <1>5 DEF NamePart
<1>7. \A m : Alike(g, h, m)
  BY <1>4, <1>5, <1>6 DEF Alike
<1> QED BY <1>6, <1>7 DEF g

LEMMA SuffixSays ==
    ASSUME NEW h \in Heap, NEW c, NEW n
    PROVE  LET g == SuffixObject(h, c, n)
           IN  \A m : NamePart(g, m) = NamePart(h, m) /\ Alike(g, h, m)
<1> DEFINE g == SuffixObject(h, c, n)
<1>1. /\ g.child = h.child /\ g.type = h.type /\ g.string = h.string
      /\ g.valuestring = h.valuestring /\ g.text = h.text
  BY DEF Heap, SuffixObject
<1> HIDE DEF g
<1>2. \A p : Text(g, p) = Text(h, p)
  BY <1>1 DEF Text
<1>3. \A m : NamePart(g, m) = NamePart(h, m)
  BY <1>1, <1>2 DEF NamePart
<1>4. \A m : Alike(g, h, m)
  BY <1>1, <1>2, <1>3 DEF Alike
<1> QED BY <1>3, <1>4 DEF g

LEMMA ClosingSays ==
    ASSUME NEW h \in Heap, NEW f \in FrameType
    PROVE  LET g == WithList(h, f)
           IN  /\ g.type[f.item] = f.kind /\ NamePart(g, f.item) = NamePart(h, f.item)
               /\ \A m \in Node : m # f.item => Alike(g, h, m)
<1> DEFINE g == WithList(h, f)
           ty == [h.type EXCEPT ![f.item] = f.kind]
           pv == [h.prev EXCEPT ![f.head] = f.current]
           ch == [h.child EXCEPT ![f.item] = f.head]
<1>1. f.item \in Node
  BY DEF FrameType
<1>2. /\ ty[f.item] = f.kind
      /\ \A m \in Node : m # f.item => ty[m] = h.type[m] /\ ch[m] = h.child[m]
  BY <1>1 DEF Heap
<1>3. g = [h EXCEPT !.prev = pv, !.type = ty, !.child = ch]
  BY DEF Heap, WithList
<1> HIDE DEF g, ty, pv, ch
<1>4. /\ g.child = ch /\ g.type = ty /\ g.string = h.string
      /\ g.valuestring = h.valuestring /\ g.text = h.text
  BY <1>3 DEF Heap
<1>5. \A p : Text(g, p) = Text(h, p)
  BY <1>4 DEF Text
<1>6. \A m : NamePart(g, m) = NamePart(h, m)
  BY <1>4, <1>5 DEF NamePart
<1>7. \A m \in Node : m # f.item => Alike(g, h, m)
  BY <1>2, <1>4, <1>5, <1>6 DEF Alike
<1> QED BY <1>2, <1>4, <1>6, <1>7 DEF g

\* The item that parse_value fills is the root or the current item of the
\* innermost list, and the item of no frame.
AtHand(st, r) == IF st = <<>> THEN r ELSE st[Len(st)].current

LEMMA AtHandApart ==
    ASSUME NEW h, NEW st, NEW r, LiveLinks(h, st, r), NEW told, NEW place,
           Telling(h, st, r, told, place), st # <<>> => st[Len(st)].head # NULL
    PROVE  LET x == AtHand(st, r)
           IN  /\ x \in h.live /\ (x = r \/ Pauses(st, place, x)) /\ place[x] = Len(st)
               /\ \A m \in 1..Len(st) : st[m].item # x /\ st[m].item \in h.live
<1> DEFINE x == AtHand(st, r)
           k == Len(st)
<1>1. h \in Heap /\ r \in h.live /\ place[r] = 0 /\ k \in Nat
  BY DEF LiveLinks, Telling
<1>2. CASE st = <<>>
  BY <1>1, <1>2 DEF AtHand
<1>3. CASE st # <<>>
  <2>1. k \in 1..k /\ k # 0 /\ x = st[k].current
    BY <1>3 DEF AtHand, LiveLinks
  <2>2. ASSUME NEW m \in 1..k
        PROVE  /\ st[m].item = IF m = 1 THEN r ELSE st[m - 1].current
               /\ st[m].item \in h.live /\ st[m].current \in h.live /\ place[st[m].current] = m
    <3>1. TellsFrame(st, r, place, m)
      BY DEF Telling
    <3>2. m # k => m < Len(st)
      BY <1>1
    <3>3. st[m].head # NULL
      BY <1>3, <3>2 DEF LiveLinks
    <3> QED BY <3>1, <3>3 DEF TellsFrame, LiveLinks
  <2>3. x \in h.live /\ place[x] = k /\ Pauses(st, place, x)
    BY <2>1, <2>2 DEF Pauses
  <2>4. ASSUME NEW m \in 1..k PROVE st[m].item # x
    <3>1. CASE m = 1
      BY <1>1, <2>1, <2>2, <2>3, <3>1
    <3>2. CASE m # 1
      <4>1. m - 1 \in 1..k /\ m - 1 # k
        BY <1>1, <3>2
      <4>2. place[st[m].item] = m - 1
        BY <2>2, <3>2, <4>1
      <4> QED BY <2>3, <4>1, <4>2
    <3> QED BY <3>1, <3>2
  <2> QED BY <2>2, <2>3, <2>4
<1> QED BY <1>2, <1>3

\* A container is opened.
Pushes(h, b, r, kind, told, place, spoken) ==
    LET x == AtHand(b, r)
        su == Append(b, Frame(kind, x))
    IN  \E s \in [Nat -> Word] :
            /\ Telling(h, su, r, told, place) /\ Speaking(h, su, told, s)
            /\ s[Len(su)] = (spoken[Len(b)] \o NamePart(h, x)) \o <<Bracket(kind)>>

LEMMA PushedTells ==
    ASSUME NEW h, NEW b \in Seq(FrameType), NEW r, LiveLinks(h, b, r),
           b # <<>> => b[Len(b)].head # NULL, NEW kind \in ContainerType,
           NEW told \in [Node -> Word], NEW place \in [Node -> Nat], NEW spoken \in [Nat -> Word],
           Telling(h, b, r, told, place), Speaking(h, b, told, spoken)
    PROVE  Pushes(h, b, r, kind, told, place, spoken)
<1> DEFINE x == AtHand(b, r)
           f == Frame(kind, x)
           su == Append(b, f)
           k == Len(b) + 1
           w == NamePart(h, x) \o <<Bracket(kind)>>
           s == [spoken EXCEPT ![k] = spoken[Len(b)] \o w]
<1>h. h \in Heap /\ h.live \subseteq Node
  BY LinkTypes DEF LiveLinks
<1>x. x \in h.live /\ x \in Node
  BY <1>h, AtHandApart
<1>f. f \in FrameType /\ f.item = x /\ f.head = NULL /\ f.kind = kind
  BY <1>x DEF Frame, FrameType, NodePtr
<1> HIDE DEF f
<1>k. /\ k \in Nat /\ k # 0 /\ Len(b) \in Nat /\ Len(su) = k /\ 1..k = 1..Len(b) \cup {k}
      /\ Len(b) # k /\ k - 1 = Len(b) /\ su[k] = f /\ (Len(b) = 0 <=> k = 1)
      /\ (k # 1 => Len(b) \in 1..Len(b))
      /\ \A i \in 1..Len(b) : su[i] = b[i] /\ i # k /\ i \in Nat /\ i - 1 \in Nat /\ i - 1 # k
      /\ \A i \in 0..Len(b) : i \in 0..k /\ (i # 0 => i \in 1..Len(b))
      /\ \A i \in 1..Len(b) : i # 1 => i - 1 \in 1..Len(b)
  BY <1>f, Pushed
<1>a. x = IF k = 1 THEN r ELSE b[Len(b)].current
  <2>1. b = <<>> <=> Len(b) = 0
    BY EmptySeq
  <2> QED BY <2>1, <1>k DEF AtHand
<1>w. NamePart(h, x) \in Word /\ <<Bracket(kind)>> \in Word /\ w \in Word
  <2>1. NamePart(h, x) \in Word
    BY <1>h, <1>x, SaysWords
  <2> QED BY <2>1, BracketWords, Joined
<1> HIDE DEF w, x
<1>s. /\ s \in [Nat -> Word] /\ s[k] = spoken[Len(b)] \o w
      /\ \A i \in Nat : i # k => s[i] = spoken[i]
  <2>1. spoken[Len(b)] \o w \in Word
    BY <1>k, <1>w, Joined
  <2> HIDE DEF k
  <2> QED BY <2>1, <1>k
<1> HIDE DEF s, k, su
<1>1. ASSUME NEW n \in h.live PROVE TellsItem(h, su, r, told, place, n)
  <2>1. TellsItem(h, b, r, told, place, n)
    BY DEF Telling
  <2>2. Pauses(su, place, n) <=> Pauses(b, place, n)
    BY <2>1, <1>k DEF Pauses, TellsItem
  <2>3. place[n] \in 0..Len(su)
    BY <2>1, <1>k DEF TellsItem
  <2> QED BY <2>1, <2>2, <2>3 DEF TellsItem
<1>2. ASSUME NEW m \in 1..k PROVE TellsFrame(su, r, place, m)
  <2>1. CASE m = k
    <3>1. k # 1 => su[k - 1] = b[Len(b)]
      BY <1>k
    <3> QED BY <2>1, <3>1, <1>k, <1>f, <1>a DEF TellsFrame
  <2>2. CASE m \in 1..Len(b)
    <3>1. TellsFrame(b, r, place, m)
      BY <2>2 DEF Telling
    <3>2. m # 1 => su[m - 1] = b[m - 1]
      BY <2>2, <1>k
    <3> QED BY <2>2, <3>1, <3>2, <1>k DEF TellsFrame
  <2> QED BY <2>1, <2>2, <1>k
<1>3. Telling(h, su, r, told, place)
  BY <1>1, <1>2, <1>k DEF Telling
<1>4. Speaking(h, su, told, s)
  <2>1. s[0] = <<>>
    BY <1>k, <1>s DEF Speaking
  <2>2. ASSUME NEW m \in 1..Len(b) PROVE s[m] = s[m - 1] \o Opened(h, told, su[m])
    <3>1. spoken[m] = spoken[m - 1] \o Opened(h, told, b[m])
      BY DEF Speaking
    <3> QED BY <3>1, <1>k, <1>s
  <2>3. s[k] = s[k - 1] \o Opened(h, told, su[k])
    <3>1. Opened(h, told, f) = w \o <<>>
      BY <1>f DEF Opened, w
    <3>2. w \o <<>> = w
      BY <1>w, Joined
    <3>3. s[k - 1] = spoken[Len(b)]
      BY <1>k, <1>s
    <3> QED BY <3>1, <3>2, <3>3, <1>k, <1>s
  <2> QED BY <2>1, <2>2, <2>3, <1>k DEF Speaking
<1>5. s[k] = (spoken[Len(b)] \o NamePart(h, x)) \o <<Bracket(kind)>>
  <2>1. spoken[Len(b)] \in Word
    BY <1>k
  <2> QED BY <2>1, <1>s, <1>w, Regroup DEF w
<1> QED BY <1>3, <1>4, <1>5, <1>s, <1>k DEF su, f, x, Pushes

-----------------------------------------------------------------------------
(* The steps, and what each has read *)

LEMMA NoBlanks ==
    /\ ~Blank(Comma) /\ ~Blank(":") /\ ~Blank("null") /\ ~Blank("number")
    /\ \A x \in Name : ~Blank(x)
    /\ \A kind \in ContainerType : ~Blank(Bracket(kind)) /\ ~Blank(Closing(kind))
<1>1. ~Blank(":") /\ ~Blank("null") /\ ~Blank("number")
  BY Zenon DEF Blank
<1> QED BY <1>1, MarksApart, NamesApart DEF Blank

LEMMA ReadSame ==
    ASSUME text' = text
    PROVE  SkipBom' = SkipBom /\ \A o : Strip(text', SkipBom', o) = Read(o)
<1>1. SkipBom' = SkipBom
  BY DEF SkipBom, Is, CanAccess
<1> QED BY <1>1 DEF Read

\* What a label needs.
Told(h, st, r, told, place, spoken) == Telling(h, st, r, told, place) /\ Speaking(h, st, told, spoken)

LEMMA RecallsValue ==
    ASSUME text' = text, pc' = "value", offset' >= SkipBom,
           NEW told \in [Node -> Word], NEW place \in [Node -> Nat], NEW spoken \in [Nat -> Word],
           Told(heap', stack', root', told, place, spoken),
           Read(offset') = spoken[Len(stack')] \o NamePart(heap', Target')
    PROVE  Recalling'
<1>1. Recalls(told, spoken[Len(stack)])'
  BY ReadSame DEF Recalls, Read
<1> QED BY <1>1, ReadSame DEF Recalling, Told

LEMMA RecallsAfter ==
    ASSUME text' = text, pc' = "after", offset' >= SkipBom,
           NEW told \in [Node -> Word], NEW place \in [Node -> Nat], NEW spoken \in [Nat -> Word],
           Told(heap', stack', root', told, place, spoken),
           Read(offset') = spoken[Len(stack')] \o Says(heap', told, Target')
    PROVE  Recalling'
<1>1. Recalls(told, spoken[Len(stack)])'
  BY ReadSame DEF Recalls, Read
<1> QED BY <1>1, ReadSame DEF Recalling, Told

LEMMA RecallsKey ==
    ASSUME text' = text, pc' = "key", offset' >= SkipBom,
           NEW told \in [Node -> Word], NEW place \in [Node -> Nat], NEW spoken \in [Nat -> Word],
           Told(heap', stack', root', told, place, spoken),
           Read(offset') = spoken[Len(stack')]
    PROVE  Recalling'
<1>1. Recalls(told, spoken[Len(stack)])'
  BY ReadSame DEF Recalls, Read
<1> QED BY <1>1, ReadSame DEF Recalling, Told

LEMMA RecallsElement ==
    ASSUME text' = text, pc' = "element", offset' >= SkipBom,
           NEW told \in [Node -> Word], NEW place \in [Node -> Nat], NEW spoken \in [Nat -> Word],
           Told(heap', stack', root', told, place, spoken),
           Read(offset' + 1) =
               IF Top'.head = NULL THEN spoken[Len(stack')]
               ELSE spoken[Len(stack')] \o Says(heap', told, Top'.current) \o <<Comma>>
    PROVE  Recalling'
<1>1. Recalls(told, spoken[Len(stack)])'
  BY ReadSame DEF Recalls, Read
<1> QED BY <1>1, ReadSame DEF Recalling, Told

LEMMA RecallsNothing ==
    ASSUME pc' \in {"fail", "done"} PROVE Recalling'
BY DEF Recalling

\* Where a step begins.
LEMMA Facing ==
    ASSUME Place, Ownership, Recalling, pc \in {"value", "key", "element", "after"}
    PROVE  /\ text \in Seq(Symbol) /\ offset \in SkipBom..Len(text) /\ offset \in Nat
           /\ SkipBom \in Nat
           /\ Built /\ heap \in Heap /\ Memory(heap) /\ heap.live \subseteq Node
           /\ LiveLinks(heap, stack, root) /\ stack \in Seq(FrameType)
           /\ Target = AtHand(stack, root)
           /\ pc # "element" => (stack # <<>> => stack[Len(stack)].head # NULL)
           /\ stack # <<>> => Below \in Seq(FrameType) /\ Top \in FrameType
                              /\ stack = Append(Below, Top)
                              /\ Len(Below) + 1 = Len(stack) /\ Len(Below) \in Nat
           /\ \E told \in [Node -> Word], place \in [Node -> Nat], spoken \in [Nat -> Word] :
                Told(heap, stack, root, told, place, spoken) /\ Recalls(told, spoken[Len(stack)])
<1>1. text \in Seq(Symbol) /\ offset \in 0..Len(text)
  BY DEF Place
<1>2. SkipBom \in 0..Len(text) /\ offset >= SkipBom
  BY <1>1, ReadSteps DEF Recalling
<1>3. Built /\ heap \in Heap /\ Memory(heap)
  BY DEF Ownership, Built, Memory, Plain
<1>4. LiveLinks(heap, stack, root)
  BY <1>3, BuiltLinks DEF Built
<1>5. stack \in Seq(FrameType) /\ heap.live \subseteq Node
  BY <1>3, <1>4, LinkTypes DEF LiveLinks
<1>6. stack # <<>> => Below \in Seq(FrameType) /\ Top \in FrameType
                      /\ stack = Append(Below, Top)
  BY <1>5, StackSplits
<1>7. stack # <<>> => Len(Below) + 1 = Len(stack) /\ Len(Below) \in Nat
  BY <1>6, Pushed
<1>8. Target = AtHand(stack, root)
  BY DEF Target, AtHand, Top
<1>9. pc # "element" => (stack # <<>> => stack[Len(stack)].head # NULL)
  BY DEF Ownership, Top
<1>10. \E told \in [Node -> Word], place \in [Node -> Nat], spoken \in [Nat -> Word] :
            Told(heap, stack, root, told, place, spoken) /\ Recalls(told, spoken[Len(stack)])
  BY DEF Recalling, Told
<1>11. SkipBom \in Nat /\ offset \in Nat /\ offset \in SkipBom..Len(text)
  BY <1>1, <1>2
<1> QED BY <1>1, <1>3, <1>4, <1>5, <1>6, <1>7, <1>8, <1>9, <1>10, <1>11

\* The item at hand is filled in; the others say what they said.
LEMMA FillsIn ==
    ASSUME Place, Ownership, Recalling, pc \in {"value", "key"}, heap' \in Heap,
           heap'.live = heap.live, heap'.next = heap.next, heap'.child[Target] = NULL,
           stack' = stack, root' = root,
           \A n \in heap.live : n # Target => Alike(heap', heap, n),
           NEW told, NEW place, NEW spoken, Told(heap, stack, root, told, place, spoken)
    PROVE  Told(heap', stack', root', told, place, spoken) /\ Target' = Target
<1>1. Target' = Target
  BY DEF Target, Top
<1> DEFINE x == Target
<1>2. /\ LiveLinks(heap, stack, root) /\ x = AtHand(stack, root)
      /\ (stack # <<>> => stack[Len(stack)].head # NULL)
      /\ Telling(heap, stack, root, told, place) /\ Speaking(heap, stack, told, spoken)
  BY Facing DEF Told
<1> HIDE DEF x
<1>3. /\ x \in heap.live /\ (x = root \/ Pauses(stack, place, x))
      /\ \A m \in 1..Len(stack) : stack[m].item # x /\ stack[m].item \in heap.live
  BY <1>2, AtHandApart
<1>4. /\ heap'.child[x] = NULL /\ \A n \in heap.live : n # x => Alike(heap', heap, n)
  BY DEF x
<1>5. \A m \in 1..Len(stack) : NamePart(heap', stack[m].item) = NamePart(heap, stack[m].item)
  BY <1>3, <1>4 DEF Alike
<1>6. Telling(heap', stack, root, told, place) /\ Speaking(heap', stack, told, spoken)
  BY <1>2, <1>3, <1>4, <1>5, FilledTells, SMTT(30)
<1> QED BY <1>1, <1>6 DEF Told

LEMMA BeginRecalls == Place /\ Ownership /\ Begin => Recalling'
<1> SUFFICES ASSUME Place, Ownership, Begin PROVE Recalling'
  OBVIOUS
<1>1. heap = EmptyHeap /\ stack = <<>> /\ stack' = <<>> /\ text' = text /\ text \in Seq(Symbol)
  BY DEF Ownership, Begin, buffer, Place
<1>2. CASE Finish(heap, 0)
  BY <1>2, RecallsNothing DEF Finish, GoTo
<1>3. CASE /\ Granted(FreeNodes(heap)) /\ root' = FreshNode(heap)
           /\ heap' = NewItem(heap, FreshNode(heap), "Invalid")
           /\ GoTo("value", SkipWhitespace(SkipBom))
  <2> DEFINE n == FreshNode(heap)
             told == [x \in Node |-> <<>>]
             place == [x \in Node |-> 0]
             spoken == [i \in Nat |-> <<>>]
  <2>1. n \in Node \ heap.live
    BY <1>3 DEF Granted, FreeNodes, FreshNode
  <2>2. Memory(heap) /\ heap.live = {}
    BY <1>1, EmptyMemory DEF EmptyHeap
  <2>3. heap.next[n] = NULL /\ heap.child[n] = NULL /\ heap.string[n] = NULL
    BY <2>1, <2>2 DEF Memory, FreedIsBlank
  <2> HIDE DEF n
  <2>4. /\ heap' = NewItem(heap, n, "Invalid") /\ root' = n /\ pc' = "value"
        /\ offset' = SkipWhitespace(SkipBom)
    BY <1>3 DEF n, GoTo
  <2>5. /\ heap'.live = {n} /\ heap'.next = heap.next /\ heap'.child = heap.child
        /\ heap'.string = heap.string
    BY <2>1, <2>2, <2>4, NewItemKeeps
  <2>6. /\ told \in [Node -> Word] /\ place \in [Node -> Nat] /\ spoken \in [Nat -> Word]
        /\ place[n] = 0 /\ spoken[0] = <<>>
    BY <2>1, Joined
  <2> HIDE DEF told, place, spoken
  <2>7. Len(stack') = 0
    BY <1>1
  <2>8. TellsItem(heap', stack', n, told, place, n)
    BY <2>3, <2>5, <2>6, <2>7 DEF TellsItem
  <2>9. Told(heap', stack', root', told, place, spoken)
    BY <2>3, <2>4, <2>5, <2>6, <2>7, <2>8 DEF Told, Telling, Speaking
  <2>10. Target' = n /\ NamePart(heap', n) = <<>>
    BY <1>1, <2>3, <2>4, <2>5 DEF Target, NamePart
  <2>11. SkipBom \in SkipBom..Len(text) /\ SkipBom \in Nat /\ Read(SkipBom) = <<>>
    BY <1>1, ReadSteps
  <2>12. offset' \in SkipBom..Len(text) /\ Read(offset') = <<>>
    BY <1>1, <2>4, <2>11, ReadOn
  <2>13. offset' >= SkipBom
    BY <2>11, <2>12
  <2>14. Read(offset') = spoken[Len(stack')] \o NamePart(heap', Target')
    BY <2>6, <2>7, <2>10, <2>12, Joined
  <2> QED BY <1>1, <2>4, <2>6, <2>9, <2>13, <2>14, RecallsValue
<1> QED BY <1>2, <1>3, <1>1 DEF Begin

\* A value of one symbol.
LEMMA ScalarRecalls ==
    ASSUME Place, Ownership, Recalling, pc = "value", heap' \in Heap,
           heap'.live = heap.live, heap'.next = heap.next, heap'.child = heap.child,
           stack' = stack, root' = root, text' = text,
           \A n \in heap.live : n # Target => Alike(heap', heap, n),
           NamePart(heap', Target) = NamePart(heap, Target),
           NEW y, Is(offset, y), ~Blank(y),
           \A said : ValuePart(heap', said, Target) = <<y>>, GoTo("after", offset + 1)
    PROVE  Recalling'
<1>1. /\ text \in Seq(Symbol) /\ offset \in SkipBom..Len(text) /\ offset \in Nat /\ SkipBom \in Nat
      /\ heap \in Heap /\ heap.live \subseteq Node /\ stack \in Seq(FrameType)
      /\ LiveLinks(heap, stack, root) /\ Target = AtHand(stack, root)
      /\ (stack # <<>> => stack[Len(stack)].head # NULL)
  BY Facing
<1>2. PICK told \in [Node -> Word], place \in [Node -> Nat], spoken \in [Nat -> Word] :
          Told(heap, stack, root, told, place, spoken) /\ Recalls(told, spoken[Len(stack)])
  BY Facing
<1>3. heap'.child[Target] = NULL
  BY DEF Ownership
<1>4. Told(heap', stack', root', told, place, spoken) /\ Target' = Target
  BY <1>2, <1>3, FillsIn
<1>5. Target \in Node
  <2>1. Telling(heap, stack, root, told, place)
    BY <1>2 DEF Told
  <2> QED BY <1>1, <2>1, AtHandApart
<1>6. Read(offset + 1) = Read(offset) \o <<y>>
  BY <1>1, ReadOn
<1>7. Read(offset) = spoken[Len(stack)] \o NamePart(heap, Target)
  BY <1>2 DEF Recalls
<1> DEFINE p == NamePart(heap, Target)
           a == spoken[Len(stack)]
<1>8. p \in Word /\ a \in Word /\ <<y>> \in Word
  <2>1. y \in Symbol
    BY <1>1 DEF Is, CanAccess
  <2>2. Len(stack) \in Nat
    BY <1>1
  <2>3. <<y>> \in Word
    BY <2>1 DEF Word
  <2> QED BY <1>1, <1>5, <2>2, <2>3, SaysWords
<1>9. Says(heap', told, Target) = p \o <<y>>
  BY DEF Says
<1> HIDE DEF p, a
<1>10. (a \o p) \o <<y>> = a \o (p \o <<y>>)
  BY <1>8, Regroup
<1>11. offset' = offset + 1 /\ pc' = "after" /\ offset' >= SkipBom
  BY <1>1 DEF GoTo
<1>12. Read(offset') = spoken[Len(stack')] \o Says(heap', told, Target')
  BY <1>4, <1>6, <1>7, <1>9, <1>10, <1>11 DEF a, p
<1> QED BY <1>4, <1>11, <1>12, RecallsAfter

LEMMA LiteralRecalls == Place /\ Ownership /\ Recalling /\ Literal => Recalling'
<1> SUFFICES ASSUME Place, Ownership, Recalling, Literal PROVE Recalling'
  OBVIOUS
<1>1. /\ pc = "value" /\ stack' = stack /\ root' = root /\ text' = text
      /\ heap' = [heap EXCEPT !.type[Target] = "Null"] /\ Is(offset, "null")
      /\ GoTo("after", offset + 1) /\ "Null" \in Type
  BY DEF Literal, Unstacked, buffer, Type
<1>2. /\ Memory(heap) /\ heap \in Heap /\ heap.live \subseteq Node /\ Target \in heap.live
  BY <1>1, Facing, TargetLives DEF Ownership
<1>3. /\ heap' \in Heap /\ heap'.live = heap.live /\ heap'.next = heap.next
      /\ heap'.child = heap.child
  BY <1>1, <1>2, TypeKeeps
<1>4. /\ heap'.type[Target] = "Null" /\ NamePart(heap', Target) = NamePart(heap, Target)
      /\ \A n \in heap.live : n # Target => Alike(heap', heap, n)
  BY <1>1, <1>2, TypeSays DEF Retyped
<1>5. \A said : ValuePart(heap', said, Target) = <<"null">>
  BY <1>4, ValueCases
<1> QED BY <1>1, <1>3, <1>4, <1>5, NoBlanks, ScalarRecalls

LEMMA NumberRecalls == Place /\ Ownership /\ Recalling /\ Number => Recalling'
<1> SUFFICES ASSUME Place, Ownership, Recalling, Number PROVE Recalling'
  OBVIOUS
<1>1. /\ pc = "value" /\ stack' = stack /\ root' = root /\ text' = text /\ "Number" \in Type
  BY DEF Number, Unstacked, buffer, Type
<1>2. CASE pc' = "fail"
  BY <1>2, RecallsNothing
<1>3. CASE /\ heap' = [heap EXCEPT !.type[Target] = "Number"] /\ Is(offset, "number")
           /\ GoTo("after", offset + 1)
  <2>2. /\ Memory(heap) /\ heap \in Heap /\ heap.live \subseteq Node /\ Target \in heap.live
    BY <1>1, Facing, TargetLives DEF Ownership
  <2>3. /\ heap' \in Heap /\ heap'.live = heap.live /\ heap'.next = heap.next
        /\ heap'.child = heap.child
    BY <1>1, <1>3, <2>2, TypeKeeps
  <2>4. /\ heap'.type[Target] = "Number" /\ NamePart(heap', Target) = NamePart(heap, Target)
        /\ \A n \in heap.live : n # Target => Alike(heap', heap, n)
    BY <1>1, <1>3, <2>2, TypeSays DEF Retyped
  <2>5. \A said : ValuePart(heap', said, Target) = <<"number">>
    BY <2>4, ValueCases
  <2> QED BY <1>1, <1>3, <2>3, <2>4, <2>5, NoBlanks, ScalarRecalls
<1> QED BY <1>2, <1>3 DEF Number, GoTo

LEMMA StringRecalls == Place /\ Ownership /\ Recalling /\ String => Recalling'
<1> SUFFICES ASSUME Place, Ownership, Recalling, String PROVE Recalling'
  OBVIOUS
<1>1. pc = "value" /\ stack' = stack /\ root' = root /\ text' = text
  BY DEF String, Unstacked, buffer
<1>2. CASE pc' = "fail"
  BY <1>2, RecallsNothing
<1> DEFINE s == FreshStr(heap)
           x == text[offset + 1]
<1>3. CASE /\ GoTo("after", offset + 1) /\ Granted(FreeStrings(heap)) /\ x \in Name
           /\ heap' = [Strdup(heap, s, x) EXCEPT !.type[Target] = "String",
                                                 !.valuestring[Target] = s]
  <2>1. /\ Memory(heap) /\ heap \in Heap /\ heap.live \subseteq Node /\ Target \in heap.live
        /\ heap.valuestring[Target] = NULL
    BY <1>1, Facing, TargetLives DEF Ownership
  <2>2. s \in Str /\ heap.text[s] = NULL
    <3>1. s \in FreeStrings(heap)
      BY <1>3 DEF Granted, FreshStr
    <3> QED BY <3>1 DEF FreeStrings
  <2>0. Is(offset, x)
    BY DEF String, Is
  <2> HIDE DEF s, x
  <2>3. heap' = TakeValue(Strdup(heap, s, x), Target, s) /\ x \in Name
    BY <1>3 DEF TakeValue
  <2>4. /\ heap' \in Heap /\ heap'.live = heap.live /\ heap'.next = heap.next
        /\ heap'.child = heap.child
    BY <2>1, <2>2, <2>3, ValueKeeps
  <2>5. /\ heap'.type[Target] = "String" /\ Text(heap', heap'.valuestring[Target]) = x
        /\ NamePart(heap', Target) = NamePart(heap, Target)
        /\ \A n \in heap.live : n # Target => Alike(heap', heap, n)
    BY <2>1, <2>2, <2>3, ValueSays
  <2>6. \A said : ValuePart(heap', said, Target) = <<x>>
    BY <2>5, ValueCases
  <2> QED BY <1>1, <1>3, <2>0, <2>3, <2>4, <2>5, <2>6, NoBlanks, ScalarRecalls
<1>4. \/ pc' = "fail"
      \/ /\ GoTo("after", offset + 1) /\ Granted(FreeStrings(heap)) /\ x \in Name
         /\ heap' = [Strdup(heap, s, x) EXCEPT !.type[Target] = "String",
                                               !.valuestring[Target] = s]
  BY DEF String, GoTo, Is
<1> QED BY <1>2, <1>3, <1>4

LEMMA NoValueRecalls == NoValue => Recalling'
BY RecallsNothing DEF NoValue, GoTo

\* The head of a container.
LEMMA OpenRecalls ==
    ASSUME Place, Ownership, Recalling, NEW kind \in ContainerType, Open(kind)
    PROVE  Recalling'
<1> DEFINE o == SkipWhitespace(offset + 1)
<1>1. /\ pc = "value" /\ root' = root /\ text' = text /\ Is(offset, Bracket(kind))
      /\ heap.child[Target] = NULL
  BY DEF Open, buffer, Ownership
<1>2. /\ text \in Seq(Symbol) /\ offset \in SkipBom..Len(text) /\ offset \in Nat /\ SkipBom \in Nat
      /\ heap \in Heap /\ Memory(heap) /\ heap.live \subseteq Node /\ stack \in Seq(FrameType)
      /\ LiveLinks(heap, stack, root) /\ Target = AtHand(stack, root)
      /\ (stack # <<>> => stack[Len(stack)].head # NULL)
  BY <1>1, Facing
<1>3. PICK told \in [Node -> Word], place \in [Node -> Nat], spoken \in [Nat -> Word] :
          Told(heap, stack, root, told, place, spoken) /\ Recalls(told, spoken[Len(stack)])
  BY <1>1, Facing
<1>4. Telling(heap, stack, root, told, place) /\ Speaking(heap, stack, told, spoken)
  BY <1>3 DEF Told
<1>5. Target \in heap.live /\ Target \in Node
  BY <1>2, <1>4, AtHandApart
<1> DEFINE p == NamePart(heap, Target)
           a == spoken[Len(stack)]
           b == <<Bracket(kind)>>
           c == <<Closing(kind)>>
<1>6. p \in Word /\ a \in Word /\ b \in Word /\ c \in Word
  <2>1. Len(stack) \in Nat
    BY <1>2
  <2> QED BY <1>2, <1>5, <2>1, SaysWords, BracketWords
<1>7. Read(offset) = a \o p
  BY <1>1, <1>3 DEF Recalls
<1> HIDE DEF p, a, b, c
<1>8. /\ offset + 1 \in SkipBom..Len(text) /\ Read(offset + 1) = (a \o p) \o b
      /\ o \in SkipBom..Len(text) /\ Read(o) = (a \o p) \o b
  <2>1. offset + 1 \in SkipBom..Len(text) /\ Read(offset + 1) = Read(offset) \o b
    BY <1>1, <1>2, NoBlanks, ReadOn DEF b
  <2> QED BY <1>2, <1>7, <2>1, ReadOn
<1>9. o \in (offset + 1)..Len(text) /\ o - 1 >= SkipBom /\ (o - 1) + 1 = o
  <2>1. Len(text) \in Nat /\ SkipBom \in 0..Len(text)
    BY <1>2, ReadSteps
  <2>2. offset + 1 \in 0..Len(text)
    BY <1>2, <1>8, <2>1
  <2>3. o \in (offset + 1)..Len(text)
    BY <1>2, <2>2, SkipWhitespaceInside
  <2> QED BY <1>2, <2>1, <2>3
<1> HIDE DEF o
<1>10. CASE pc' = "fail"
  BY <1>10, RecallsNothing
<1>11. CASE /\ Is(o, Closing(kind)) /\ stack' = stack /\ GoTo("after", o + 1)
            /\ heap' = [heap EXCEPT !.type[Target] = kind, !.child[Target] = NULL]
  <2>1. heap' = [heap EXCEPT !.type[Target] = kind] /\ kind \in Type
    <3>1. [heap.child EXCEPT ![Target] = NULL] = heap.child
      BY <1>1, <1>2 DEF Heap
    <3> QED BY <3>1, <1>2, <1>11 DEF Heap, Type, ContainerType
  <2>2. /\ heap' \in Heap /\ heap'.live = heap.live /\ heap'.next = heap.next
        /\ heap'.child = heap.child
    <3>1. Memory(heap) /\ Target \in heap.live /\ kind \in Type
      BY <1>2, <1>5, <2>1
    <3>2. heap' = [heap EXCEPT !.type[Target] = kind]
      BY <2>1
    <3> HIDE DEF Target
    <3> QED BY <3>1, <3>2, TypeKeeps
  <2>3. /\ heap'.type[Target] = kind /\ NamePart(heap', Target) = p
        /\ \A n \in heap.live : n # Target => Alike(heap', heap, n)
    <3> DEFINE x == Target
               g == heap'
    <3>1. x \in Node /\ kind \in Type /\ heap \in Heap /\ g = [heap EXCEPT !.type[x] = kind]
      BY <1>2, <1>5, <2>1
    <3> HIDE DEF x, g
    <3>2. Retyped(heap, g, x, kind)
      BY <3>1, TypeSays
    <3> QED BY <1>2, <3>2 DEF p, x, g, Retyped
  <2>4. Told(heap', stack', root', told, place, spoken) /\ Target' = Target
    BY <1>1, <1>3, <1>11, <2>2, <2>3, FillsIn
  <2>5. Says(heap', told, Target) = p \o (b \o c)
    <3>1. SaysList(heap', told, Target, kind)
      BY <2>3, ListCase
    <3>2. Inside(heap', told, Target) = <<>>
      BY <1>1, <2>2 DEF Inside
    <3>3. ValuePart(heap', told, Target) = (b \o <<>>) \o c
      BY <3>1, <3>2, Zenon DEF SaysList, b, c
    <3>4. b \o <<>> = b
      BY <1>6, Joined
    <3> QED BY <2>3, <3>3, <3>4 DEF Says
  <2>6. Read(o + 1) = ((a \o p) \o b) \o c
    <3>1. Read(o + 1) = Read(o) \o <<Closing(kind)>>
      BY <1>2, <1>8, <1>11, NoBlanks, ReadOn
    <3> QED BY <1>8, <3>1 DEF c
  <2>7. ((a \o p) \o b) \o c = a \o (p \o (b \o c))
    <3>1. JoinsFour(a, p, b, c)
      BY <1>6, JoinFour
    <3> QED BY <3>1, Zenon DEF JoinsFour
  <2>8. offset' = o + 1 /\ pc' = "after" /\ offset' >= SkipBom
    BY <1>2, <1>9, <1>11 DEF GoTo
  <2>9. Read(offset') = spoken[Len(stack')] \o Says(heap', told, Target')
    BY <1>11, <2>4, <2>5, <2>6, <2>7, <2>8 DEF a
  <2> QED BY <1>1, <2>4, <2>8, <2>9, RecallsAfter
<1>12. CASE stack' = Append(stack, Frame(kind, Target)) /\ heap' = heap /\ GoTo("element", o - 1)
  <2>1. PICK s \in [Nat -> Word] :
            /\ Telling(heap, stack', root, told, place) /\ Speaking(heap, stack', told, s)
            /\ s[Len(stack')] = (a \o p) \o b
    <3>1. /\ stack \in Seq(FrameType) /\ LiveLinks(heap, stack, root)
          /\ (stack # <<>> => stack[Len(stack)].head # NULL)
      BY <1>2
    <3>2. Pushes(heap, stack, root, kind, told, place, spoken)
      BY <3>1, <1>4, PushedTells
    <3>3. Target = AtHand(stack, root) /\ stack' = Append(stack, Frame(kind, Target))
      BY <1>2, <1>12
    <3> QED BY <3>2, <3>3 DEF Pushes, a, p, b
  <2>2. Told(heap', stack', root', told, place, s)
    BY <1>1, <1>12, <2>1 DEF Told
  <2>3. Top'.head = NULL
    <3>1. Frame(kind, Target) \in FrameType /\ Frame(kind, Target).head = NULL
      BY <1>5 DEF Frame, FrameType, NodePtr
    <3>2. stack'[Len(stack')] = Frame(kind, Target)
      BY <1>2, <1>12, <3>1, Pushed
    <3> QED BY <3>1, <3>2 DEF Top
  <2>4. pc' = "element" /\ offset' = o - 1 /\ offset' >= SkipBom /\ offset' + 1 = o
    BY <1>9, <1>12 DEF GoTo
  <2>5. Read(offset' + 1) = s[Len(stack')]
    BY <1>8, <2>1, <2>4
  <2> QED BY <1>1, <2>2, <2>3, <2>4, <2>5, RecallsElement
<1> QED BY <1>10, <1>11, <1>12 DEF Open, GoTo, o

\* The other items look the same.
LEMMA NewItemAlike ==
    ASSUME Built, NEW n \in Node \ heap.live, NEW g, g = Enlist(NewItem(heap, n, "Invalid"), n)
    PROVE  \A m : Alike(g, heap, m)
<1> DEFINE h1 == NewItem(heap, n, "Invalid")
<1>1. h1 \in Heap /\ \A m : NamePart(h1, m) = NamePart(heap, m) /\ Alike(h1, heap, m)
  BY NewItemKeeps, NewItemSays DEF Built
<1> HIDE DEF h1
<1>2. g = IF Top.head = NULL THEN h1 ELSE SuffixObject(h1, Top.current, n)
  BY DEF h1, Enlist
<1>3. CASE Top.head = NULL
  BY <1>1, <1>2, <1>3
<1>4. CASE Top.head # NULL
  <2>1. \A m : Alike(g, h1, m)
    BY <1>1, <1>2, <1>4, SuffixSays
  <2> QED BY <1>1, <2>1 DEF Alike
<1> QED BY <1>3, <1>4

LEMMA ElementRecalls == Place /\ Ownership /\ Recalling /\ Element => Recalling'
<1> SUFFICES ASSUME Place, Ownership, Recalling, Element PROVE Recalling'
  OBVIOUS
<1> DEFINE n == FreshNode(heap)
           first == IF Top.head = NULL THEN n ELSE Top.head
           e == [Top EXCEPT !.head = first, !.current = n]
<1>1. /\ pc = "element" /\ root' = root /\ text' = text /\ stack # <<>> /\ CanAccess(offset)
  BY DEF Element, buffer, Ownership, Place
<1>2. CASE pc' = "fail"
  BY <1>2, RecallsNothing
<1>3. CASE /\ Granted(FreeNodes(heap))
           /\ heap' = Enlist(NewItem(heap, n, "Invalid"), n)
           /\ stack' = Append(Below, e)
           /\ pc' \in {"value", "key"} /\ offset' = SkipWhitespace(offset + 1)
  <2>1. n \in Node \ heap.live
    BY <1>3 DEF Granted, FreeNodes, FreshNode
  <2>2. /\ text \in Seq(Symbol) /\ offset \in SkipBom..Len(text) /\ offset \in Nat /\ SkipBom \in Nat
        /\ Built /\ heap \in Heap /\ LiveLinks(heap, stack, root)
        /\ Below \in Seq(FrameType) /\ Top \in FrameType /\ stack = Append(Below, Top)
        /\ Len(Below) + 1 = Len(stack) /\ Len(Below) \in Nat
    BY <1>1, Facing
  <2>3. PICK told \in [Node -> Word], place \in [Node -> Nat], spoken \in [Nat -> Word] :
            Told(heap, stack, root, told, place, spoken) /\ Recalls(told, spoken[Len(stack)])
    BY <1>1, Facing
  <2>e. /\ first = IF Top.head = NULL THEN n ELSE Top.head
        /\ e = [Top EXCEPT !.head = first, !.current = n]
        /\ heap' = Enlist(NewItem(heap, n, "Invalid"), n) /\ stack' = Append(Below, e)
    BY <1>3
  <2>b. Built /\ stack # <<>>
    BY <1>1, <2>2
  <2> HIDE DEF n, first, e
  <2>4. /\ e \in FrameType /\ e.kind = Top.kind /\ e.current = n
        /\ Enlisted(heap, heap', Top, n, e) /\ heap' \in Heap
        /\ heap'.string = heap.string /\ heap.string[n] = NULL
    <3>1. AddsItem(heap', n, e)
      BY <2>1, <2>b, <2>e, NewItemEnlisted
    <3> QED BY <3>1 DEF AddsItem
  <2>5. \A m \in heap.live : Alike(heap', heap, m)
    BY <2>1, <2>b, <2>e, NewItemAlike
  <2>6. Telling(heap, Append(Below, Top), root, told, place)
        /\ Speaking(heap, Append(Below, Top), told, spoken)
        /\ LiveLinks(heap, Append(Below, Top), root)
    BY <2>2, <2>3 DEF Told
  <2>7. PICK t \in [Node -> Word], q \in [Node -> Nat], s \in [Nat -> Word] :
            /\ Telling(heap', Append(Below, e), root, t, q)
            /\ Speaking(heap', Append(Below, e), t, s)
            /\ s[Len(Below) + 1] = IF Top.head = NULL THEN spoken[Len(Below) + 1]
                                   ELSE spoken[Len(Below) + 1]
                                            \o Says(heap, told, Top.current) \o <<Comma>>
    <3>1. /\ heap' \in Heap /\ Below \in Seq(FrameType) /\ Top \in FrameType /\ e \in FrameType
          /\ e.kind = Top.kind /\ Enlisted(heap, heap', Top, n, e)
      BY <2>2, <2>4
    <3>2. EnlistTells(heap, heap', Below, Top, e, root, told, spoken)
      BY <2>5, <2>6, <3>1, EnlistedTells
    <3> QED BY <3>2 DEF EnlistTells
  <2>8. Told(heap', stack', root', t, q, s)
    BY <1>1, <2>e, <2>7 DEF Told
  <2>9. Len(stack') = Len(Below) + 1 /\ Top' = e /\ Target' = n
    <3>1. /\ Append(Below, e) # <<>> /\ Len(Append(Below, e)) = Len(Below) + 1
          /\ Append(Below, e)[Len(Below) + 1] = e
      BY <2>2, <2>4, Pushed
    <3>2. Top' = e /\ stack' # <<>> /\ Len(stack') = Len(Below) + 1
      BY <2>e, <3>1 DEF Top
    <3> QED BY <2>4, <3>2 DEF Target
  <2>10. Read(offset + 1) = s[Len(stack')]
    BY <1>1, <2>2, <2>3, <2>7, <2>9 DEF Recalls
  <2>11. offset' \in SkipBom..Len(text) /\ Read(offset') = s[Len(stack')]
    <3>1. offset + 1 \in SkipBom..Len(text)
      BY <1>1, <2>2 DEF CanAccess
    <3> QED BY <1>3, <2>2, <2>10, <3>1, ReadOn
  <2>12. offset' >= SkipBom
    BY <2>2, <2>11
  <2>13. CASE pc' = "key"
    BY <1>1, <2>8, <2>11, <2>12, <2>13, RecallsKey
  <2>14. CASE pc' = "value"
    <3>1. NamePart(heap', Target') = <<>>
      BY <2>4, <2>9 DEF NamePart
    <3>2. s[Len(stack')] \in Word
      BY <2>2, <2>9
    <3>3. Read(offset') = s[Len(stack')] \o NamePart(heap', Target')
      BY <2>11, <3>1, <3>2, Joined
    <3> QED BY <1>1, <2>8, <2>12, <2>14, <3>3, RecallsValue
  <2> QED BY <1>3, <2>13, <2>14
<1>4. \/ pc' = "fail"
      \/ /\ Granted(FreeNodes(heap))
         /\ heap' = Enlist(NewItem(heap, n, "Invalid"), n)
         /\ stack' = Append(Below, e)
         /\ pc' \in {"value", "key"} /\ offset' = SkipWhitespace(offset + 1)
  BY DEF Element, GoTo
<1> QED BY <1>2, <1>3, <1>4

LEMMA SideBySide == \A x, y : <<x>> \o <<y>> = <<x, y>>
<1> TAKE x, y
<1> DEFINE S == {x, y}
           u == <<x>>
           v == <<y>>
           w == <<x, y>>
<1>1. u \in Seq(S) /\ v \in Seq(S) /\ w \in Seq(S)
  OBVIOUS
<1>2. Len(u) = 1 /\ Len(v) = 1 /\ Len(w) = 2 /\ u[1] = x /\ v[1] = y /\ w[1] = x /\ w[2] = y
  OBVIOUS
<1> HIDE DEF S, u, v, w
<1>3. /\ u \o v \in Seq(S) /\ Len(u \o v) = Len(u) + Len(v)
      /\ \A i \in 1..(Len(u) + Len(v)) :
            (u \o v)[i] = IF i <= Len(u) THEN u[i] ELSE v[i - Len(u)]
  BY <1>1, ConcatProperties
<1>4. Len(u \o v) = 2 /\ (u \o v)[1] = x /\ (u \o v)[2] = y
  BY <1>2, <1>3
<1>5. \A i \in 1..Len(w) : (u \o v)[i] = w[i]
  BY <1>2, <1>4
<1>6. u \o v = w
  BY <1>1, <1>2, <1>3, <1>4, <1>5, SeqEqual
<1> QED BY <1>6 DEF u, v, w

\* The name of a member.
LEMMA KeyRecalls == Place /\ Ownership /\ Recalling /\ Key => Recalling'
<1> SUFFICES ASSUME Place, Ownership, Recalling, Key PROVE Recalling'
  OBVIOUS
<1> DEFINE s == FreshStr(heap)
           x == text[offset + 1]
           o == SkipWhitespace(offset + 1)
<1>1. /\ pc = "key" /\ root' = root /\ text' = text /\ stack' = stack /\ CanAccess(offset)
      /\ Target = Top.current /\ heap.string[Target] = NULL /\ heap.child[Target] = NULL
  BY DEF Key, Unstacked, buffer, Ownership, Place, Target
<1>2. CASE pc' = "fail"
  BY <1>2, RecallsNothing
<1>3. CASE /\ Granted(FreeStrings(heap)) /\ x \in Name /\ Is(o, ":")
           /\ heap' = TakeKey(Strdup(heap, s, x), Top.current, s)
           /\ GoTo("value", SkipWhitespace(o + 1))
  <2>1. /\ text \in Seq(Symbol) /\ offset \in SkipBom..Len(text) /\ offset \in Nat /\ SkipBom \in Nat
        /\ Memory(heap) /\ heap \in Heap /\ heap.live \subseteq Node
        /\ LiveLinks(heap, stack, root) /\ stack \in Seq(FrameType)
        /\ Target = AtHand(stack, root) /\ (stack # <<>> => stack[Len(stack)].head # NULL)
    BY <1>1, Facing
  <2>2. PICK told \in [Node -> Word], place \in [Node -> Nat], spoken \in [Nat -> Word] :
            Told(heap, stack, root, told, place, spoken) /\ Recalls(told, spoken[Len(stack)])
    BY <1>1, Facing
  <2>3. Target \in heap.live
    <3>1. Telling(heap, stack, root, told, place)
      BY <2>2 DEF Told
    <3> QED BY <2>1, <3>1, AtHandApart
  <2>4. s \in Str /\ heap.text[s] = NULL
    <3>1. s \in FreeStrings(heap)
      BY <1>3 DEF Granted, FreshStr
    <3> QED BY <3>1 DEF FreeStrings
  <2> HIDE DEF s
  <2>5. heap' = TakeKey(Strdup(heap, s, x), Target, s) /\ x \in Name
    BY <1>1, <1>3
  <2>6. /\ heap' \in Heap /\ heap'.live = heap.live /\ heap'.next = heap.next
        /\ heap'.child = heap.child
    BY <1>1, <2>1, <2>3, <2>4, <2>5, KeyKeeps
  <2>7. /\ NamePart(heap', Target) = <<x, ":">>
        /\ \A m \in heap.live : m # Target => Alike(heap', heap, m)
    BY <2>1, <2>3, <2>4, <2>5, KeySays
  <2>8. Told(heap', stack', root', told, place, spoken) /\ Target' = Target
    BY <1>1, <2>2, <2>6, <2>7, FillsIn
  <2> DEFINE a == spoken[Len(stack)]
  <2>9. a \in Word /\ Read(offset) = a
    BY <1>1, <2>1, <2>2 DEF Recalls
  <2>10. offset + 1 \in SkipBom..Len(text) /\ Read(offset + 1) = a \o <<x>>
    <3>1. Is(offset, x) /\ ~Blank(x)
      BY <1>1, <2>5, NoBlanks DEF Is
    <3> QED BY <2>1, <2>9, <3>1, ReadOn
  <2> HIDE DEF a, x
  <2>11. o \in SkipBom..Len(text) /\ Read(o) = a \o <<x>>
    BY <2>1, <2>10, ReadOn
  <2> HIDE DEF o
  <2>12. o + 1 \in SkipBom..Len(text) /\ Read(o + 1) = (a \o <<x>>) \o <<":">>
    BY <1>3, <2>1, <2>11, NoBlanks, ReadOn
  <2>13. (a \o <<x>>) \o <<":">> = a \o <<x, ":">>
    <3>1. <<x>> \in Word /\ <<":">> \in Word
      <4>1. x \in Symbol \cup {NULL} /\ ":" \in Symbol \cup {NULL}
        <5>1. ":" \in Mark
          BY Zenon DEF Mark
        <5> QED BY <5>1, <2>5 DEF Symbol
      <4> QED BY <4>1 DEF Word
    <3>2. <<x>> \o <<":">> = <<x, ":">>
      BY SideBySide, Zenon
    <3> DEFINE u == <<x>>
               v == <<":">>
    <3>3. a \in Word /\ u \in Word /\ v \in Word
      BY <2>9, <3>1
    <3> HIDE DEF u, v
    <3>4. (a \o u) \o v = a \o (u \o v)
      BY <3>3, Regroup
    <3> QED BY <3>2, <3>4, Zenon DEF u, v
  <2>14. /\ pc' = "value" /\ offset' \in SkipBom..Len(text)
         /\ Read(offset') = a \o <<x, ":">>
    BY <1>3, <2>1, <2>12, <2>13, ReadOn DEF GoTo
  <2>15. offset' >= SkipBom /\ Read(offset') = spoken[Len(stack')] \o NamePart(heap', Target')
    <3>1. offset' >= SkipBom
      BY <2>1, <2>14
    <3>2. stack' = stack /\ Target' = Target
      BY <1>1, <2>8
    <3>3. NamePart(heap', Target') = <<x, ":">>
      BY <2>7, <3>2, Zenon
    <3>4. Read(offset') = spoken[Len(stack)] \o <<x, ":">>
      BY <2>14, Zenon DEF a
    <3> QED BY <3>1, <3>2, <3>3, <3>4, Zenon
  <2> QED BY <1>1, <2>8, <2>14, <2>15, RecallsValue
<1>4. \/ pc' = "fail"
      \/ /\ Granted(FreeStrings(heap)) /\ x \in Name /\ Is(o, ":")
         /\ heap' = TakeKey(Strdup(heap, s, x), Top.current, s)
         /\ GoTo("value", SkipWhitespace(o + 1))
  BY DEF Key, GoTo
<1> QED BY <1>2, <1>3, <1>4

\* The end of a value in a list: a comma, or the end of the list.
LEMMA CommaRecalls ==
    ASSUME Place, Ownership, Recalling, pc = "after", stack # <<>>, text' = text,
           NEW o \in SkipBom..Len(text), Read(o) = Read(offset), Is(o, Comma),
           pc' = "element", offset' = o, UNCHANGED <<heap, stack, root>>
    PROVE  Recalling'
<1>1. /\ text \in Seq(Symbol) /\ SkipBom \in Nat /\ heap \in Heap /\ heap.live \subseteq Node
      /\ LiveLinks(heap, stack, root) /\ Target = AtHand(stack, root)
      /\ (stack # <<>> => stack[Len(stack)].head # NULL) /\ stack \in Seq(FrameType)
  BY Facing
<1>2. PICK told \in [Node -> Word], place \in [Node -> Nat], spoken \in [Nat -> Word] :
          Told(heap, stack, root, told, place, spoken) /\ Recalls(told, spoken[Len(stack)])
  BY Facing
<1>3. Told(heap', stack', root', told, place, spoken)
  BY <1>2
<1>4. Top' = Top /\ Target = Top.current /\ Top.head # NULL
  BY <1>1 DEF Top, Target
<1> DEFINE a == spoken[Len(stack)]
           w == Says(heap, told, Target)
           c == <<Comma>>
<1>5. Read(offset) = a \o w
  BY <1>2 DEF Recalls
<1>6. Read(o + 1) = Read(o) \o c
  BY <1>1, NoBlanks, ReadOn
<1> HIDE DEF a, w, c
<1>7. Read(offset' + 1) = (a \o w) \o c
  BY <1>5, <1>6
<1>8. offset' >= SkipBom
  BY <1>1
<1>9. /\ Top'.head # NULL
       /\ spoken[Len(stack')] \o Says(heap', told, Top'.current) \o <<Comma>> = (a \o w) \o c
  <2>1. /\ heap' = heap /\ stack' = stack /\ Top'.head = Top.head /\ Top'.current = Target
        /\ Top.head # NULL
    BY <1>4
  <2> QED BY <2>1, Zenon DEF a, w, c
<1> QED BY <1>3, <1>7, <1>8, <1>9, RecallsElement

EndsList(h, g, f) ==
    /\ g \in Heap /\ g.live = h.live /\ g.next = h.next
    /\ g.child = [h.child EXCEPT ![f.item] = f.head]

LEMMA CloseIs ==
    ASSUME NEW h, Memory(h), NEW f, f.head \in h.live, f.current \in h.live,
           f.item \in h.live, f.kind \in ContainerType
    PROVE  EndsList(h, WithList(h, f), f)
BY CloseKeeps, Zenon DEF EndsList

LEMMA CloseRecalls ==
    ASSUME Place, Ownership, Recalling, pc = "after", stack # <<>>, text' = text,
           NEW o \in SkipBom..Len(text), Read(o) = Read(offset), Is(o, Closing(Top.kind)),
           GoTo("after", o + 1), heap' = CloseList(heap), stack' = Below, root' = root
    PROVE  Recalling'
<1>1. /\ text \in Seq(Symbol) /\ SkipBom \in Nat /\ Memory(heap) /\ heap \in Heap
      /\ heap.live \subseteq Node /\ LiveLinks(heap, stack, root) /\ Target = AtHand(stack, root)
      /\ stack[Len(stack)].head # NULL /\ stack \in Seq(FrameType)
      /\ Below \in Seq(FrameType) /\ Top \in FrameType /\ stack = Append(Below, Top)
      /\ Len(Below) + 1 = Len(stack) /\ Len(Below) \in Nat
  BY Facing
<1>2. PICK told \in [Node -> Word], place \in [Node -> Nat], spoken \in [Nat -> Word] :
          Told(heap, stack, root, told, place, spoken) /\ Recalls(told, spoken[Len(stack)])
  BY Facing
<1>3. /\ Top = stack[Len(stack)] /\ Target = Top.current /\ Top.head # NULL
      /\ Top.kind \in ContainerType /\ Len(stack) \in 1..Len(stack)
  BY <1>1 DEF Top, Target, FrameType
<1>4. Top.item \in heap.live /\ Top.head \in heap.live /\ Top.current \in heap.live
  BY <1>1, <1>3 DEF LiveLinks
<1>5. Telling(heap, stack, root, told, place) /\ Speaking(heap, stack, told, spoken)
  BY <1>2 DEF Told
<1>6. heap' = WithList(heap, Top)
  BY DEF CloseList, WithList
<1>7. /\ heap' \in Heap /\ heap'.live = heap.live /\ heap'.next = heap.next
      /\ heap'.child = [heap.child EXCEPT ![Top.item] = Top.head]
  <2> DEFINE f == Top
  <2>1. /\ Memory(heap) /\ f.head \in heap.live /\ f.current \in heap.live
        /\ f.item \in heap.live /\ f.kind \in ContainerType /\ heap' = WithList(heap, f)
    BY <1>1, <1>3, <1>4, <1>6
  <2> HIDE DEF f
  <2>2. EndsList(heap, heap', f)
    BY <2>1, CloseIs
  <2> QED BY <2>2 DEF f, EndsList
<1>8. /\ heap'.type[Top.item] = Top.kind /\ NamePart(heap', Top.item) = NamePart(heap, Top.item)
      /\ \A m \in Node : m # Top.item => Alike(heap', heap, m)
  BY <1>1, <1>6, ClosingSays
<1>9. CloseTells(heap, heap', Below, Top, root, told, spoken)
  <2> DEFINE b == Below
             f == Top
  <2>1. /\ heap' \in Heap /\ b \in Seq(FrameType) /\ f \in FrameType
        /\ LiveLinks(heap, Append(b, f), root) /\ f.head # NULL
        /\ Telling(heap, Append(b, f), root, told, place)
        /\ Speaking(heap, Append(b, f), told, spoken)
    BY <1>1, <1>3, <1>5, <1>7
  <2>2. /\ heap'.live = heap.live /\ heap'.next = heap.next
        /\ heap'.child = [heap.child EXCEPT ![f.item] = f.head]
        /\ heap'.type[f.item] = f.kind /\ NamePart(heap', f.item) = NamePart(heap, f.item)
    BY <1>7, <1>8
  <2>3. \A m \in heap.live : m # f.item => Alike(heap', heap, m)
    BY <1>1, <1>8
  <2> HIDE DEF b, f
  <2>4. CloseTells(heap, heap', b, f, root, told, spoken)
    BY <2>1, <2>2, <2>3, ClosedTells
  <2> QED BY <2>4 DEF b, f
<1>10. PICK t \in [Node -> Word], q \in [Node -> Nat] :
           /\ Telling(heap', Below, root, t, q) /\ Speaking(heap', Below, t, spoken)
           /\ spoken[Len(Below)] \o Says(heap', t, Top.item) =
                  (spoken[Len(Below) + 1] \o Says(heap, told, Top.current)) \o <<Closing(Top.kind)>>
  BY <1>9 DEF CloseTells
<1>11. Told(heap', stack', root', t, q, spoken)
  BY <1>10 DEF Told
<1>12. Target' = Top.item
  <2>1. Top.item = IF Len(stack) = 1 THEN root ELSE stack[Len(stack) - 1].current
    BY <1>3, <1>5 DEF Telling, TellsFrame
  <2>2. CASE Below = <<>>
    <3>1. Len(stack) = 1
      BY <1>1, <2>2
    <3> QED BY <2>1, <2>2, <3>1 DEF Target
  <2>3. CASE Below # <<>>
    <3>1. Len(Below) \in 1..Len(Below) /\ Len(Below) # 0
      BY <1>1, <2>3
    <3>2. Len(stack) # 1 /\ Len(stack) - 1 = Len(Below)
      BY <1>1, <3>1
    <3>3. Append(Below, Top)[Len(Below)] = Below[Len(Below)]
      BY <1>1, <3>1, Pushed
    <3>4. Top.item = Below[Len(Below)].current
      BY <1>1, <2>1, <3>2, <3>3
    <3> QED BY <2>3, <3>4 DEF Target, Top
  <2> QED BY <2>2, <2>3
<1>13. Read(o + 1) = Read(o) \o <<Closing(Top.kind)>> /\ o + 1 \in SkipBom..Len(text)
  BY <1>1, <1>3, NoBlanks, ReadOn
<1>14. Read(offset) = spoken[Len(Below) + 1] \o Says(heap, told, Top.current)
  BY <1>1, <1>2, <1>3 DEF Recalls
<1>15. offset' = o + 1 /\ pc' = "after" /\ offset' >= SkipBom
  BY <1>1, <1>13 DEF GoTo
<1>16. Read(offset') = spoken[Len(stack')] \o Says(heap', t, Target')
  BY <1>10, <1>12, <1>13, <1>14, <1>15
<1> QED BY <1>11, <1>15, <1>16, RecallsAfter

LEMMA AfterValueRecalls == Place /\ Ownership /\ Recalling /\ AfterValue => Recalling'
<1> SUFFICES ASSUME Place, Ownership, Recalling, AfterValue PROVE Recalling'
  OBVIOUS
<1> DEFINE o == SkipWhitespace(offset)
<1>1. pc = "after" /\ stack # <<>> /\ text' = text /\ root' = root
  BY DEF AfterValue, buffer
<1>2. o \in SkipBom..Len(text) /\ Read(o) = Read(offset)
  <2>1. text \in Seq(Symbol) /\ offset \in SkipBom..Len(text)
    BY <1>1, Facing
  <2> QED BY <2>1, ReadOn
<1> HIDE DEF o
<1>3. CASE Is(o, Comma) /\ GoTo("element", o) /\ UNCHANGED <<heap, depth, stack>>
  BY <1>1, <1>2, <1>3, CommaRecalls DEF GoTo
<1>4. CASE /\ Is(o, Closing(Top.kind)) /\ heap' = CloseList(heap) /\ stack' = Below
           /\ GoTo("after", o + 1)
  BY <1>1, <1>2, <1>4, CloseRecalls
<1>5. CASE GoTo("fail", o)
  BY <1>5, RecallsNothing DEF GoTo
<1> QED BY <1>3, <1>4, <1>5, Zenon DEF AfterValue, o

LEMMA EndRecalls == End => Recalling'
BY RecallsNothing DEF End, Finish, GoTo

LEMMA UnwindRecalls == Unwind => Recalling'
BY RecallsNothing DEF Unwind, Finish, GoTo

LEMMA RecallingInductive == Place /\ Ownership /\ Recalling /\ [Next]_vars => Recalling'
<1> SUFFICES ASSUME Place, Ownership, Recalling, [Next]_vars PROVE Recalling'
  OBVIOUS
<1>1. CASE Open("Array") \/ Open("Object")
  BY <1>1, OpenRecalls DEF ContainerType
<1>2. CASE UNCHANGED vars
  <2>1. text' = text /\ UNCHANGED <<heap, root, offset, stack, pc>>
    BY <1>2 DEF vars, buffer
  <2>2. SkipBom' = SkipBom /\ \A n : Strip(text', SkipBom', n) = Read(n)
    BY <2>1, ReadSame
  <2>3. Top' = Top /\ Target' = Target /\ Read(offset)' = Read(offset)
        /\ Read(offset + 1)' = Read(offset + 1)
    BY <2>1, <2>2 DEF Top, Target, Read
  <2>4. \A told, before : Recalls(told, before) => Recalls(told, before)'
    BY <2>1, <2>3 DEF Recalls
  <2> QED BY <2>1, <2>2, <2>4 DEF Recalling
<1> QED BY <1>1, <1>2, BeginRecalls, EndRecalls, UnwindRecalls, LiteralRecalls, NumberRecalls,
           StringRecalls, NoValueRecalls, ElementRecalls, KeyRecalls, AfterValueRecalls DEF Next

LEMMA RecallingInit == Init => Recalling
BY DEF Init, Recalling

\* When no frame is left, what is told of the items is what Render says.
LEMMA RootSays ==
    ASSUME Memory(heap), LiveLinks(heap, <<>>, root),
           NEW told \in [Node -> Word], NEW place \in [Node -> Nat],
           Telling(heap, <<>>, root, told, place)
    PROVE  Render(heap, root) = Says(heap, told, root)
<1> DEFINE own(n) == Says(heap, told, n)
           f == [n \in Node |-> IF n = root \/ n \notin heap.live THEN own(n) ELSE told[n]]
<1>1. heap \in Heap /\ heap.live \subseteq Node /\ root \in heap.live /\ root \in Node
  BY LinkTypes DEF LiveLinks
<1>2. \A n \in Node : own(n) \in Word
  BY <1>1, SaysWords
<1> HIDE DEF own
<1>3. f \in [Node -> Word]
  BY <1>2
<1>4. \A n \in Node : f[n] = IF n = root \/ n \notin heap.live THEN own(n) ELSE told[n]
  OBVIOUS
<1> HIDE DEF f
<1>5. ASSUME NEW n \in Node
      PROVE  f[n] = Says(heap, f, n) \o Behind(heap, f, n)
  <2>1. /\ heap.child[n] # NULL => heap.child[n] \in heap.live /\ heap.child[n] # root
                                   /\ heap.child[n] \in Node
        /\ heap.next[n] # NULL => heap.next[n] \in heap.live /\ heap.next[n] # root
                                  /\ heap.next[n] \in Node
    <3>1. CASE n \in heap.live
      BY <1>1, <3>1 DEF LiveLinks
    <3>2. CASE n \notin heap.live
      BY <3>2 DEF Memory, FreedIsBlank
    <3> QED BY <3>1, <3>2
  <2>2. Says(heap, f, n) = own(n)
    <3>1. Alike(heap, heap, n)
      BY DEF Alike
    <3>2. SameInside(heap, told, f, n)
      BY <1>4, <2>1 DEF SameInside
    <3> QED BY <1>1, <3>1, <3>2, SaysSame DEF own
  <2>3. Behind(heap, f, n) = Behind(heap, told, n)
    BY <1>4, <2>1 DEF Behind
  <2>4. CASE n = root \/ n \notin heap.live
    <3>1. heap.next[n] = NULL
      BY <2>4 DEF Telling, Memory, FreedIsBlank
    <3>2. Behind(heap, f, n) = <<>> /\ own(n) \o <<>> = own(n)
      BY <1>2, <3>1, Joined DEF Behind
    <3> QED BY <1>4, <2>2, <2>4, <3>2
  <2>5. CASE n # root /\ n \in heap.live
    <3>1. TellsItem(heap, <<>>, root, told, place, n)
      BY <2>5 DEF Telling
    <3>2. place[n] = 0
      BY <3>1 DEF TellsItem
    <3>3. told[n] = Says(heap, told, n) \o Behind(heap, told, n)
      BY <2>5, <3>1, <3>2 DEF TellsItem, Pauses
    <3> QED BY <1>4, <2>2, <2>3, <2>5, <3>3 DEF own
  <2> QED BY <2>4, <2>5
<1>6. Render(heap, root) = f[root]
  BY <1>1, <1>3, <1>5, Rendered
<1> QED BY <1>1, <1>4, <1>6 DEF own

\* The step that returns a tree.
LEMMA EndRenders ==
    ASSUME Place, Ownership, Recalling, End, root' # NULL
    PROVE  ResultRendersText'
<1>0. pc = "after" /\ stack = <<>> /\ text' = text
  BY DEF End, buffer
<1>1. /\ text \in Seq(Symbol) /\ offset \in SkipBom..Len(text) /\ SkipBom \in Nat
      /\ heap \in Heap /\ Memory(heap) /\ heap.live \subseteq Node
      /\ LiveLinks(heap, <<>>, root) /\ Target = root
  BY <1>0, Facing DEF Target
<1>2. PICK told \in [Node -> Word], place \in [Node -> Nat], spoken \in [Nat -> Word] :
          Told(heap, <<>>, root, told, place, spoken) /\ Recalls(told, spoken[Len(stack)])
  BY <1>0, Facing
<1>3. Telling(heap, <<>>, root, told, place) /\ spoken[0] = <<>>
  BY <1>2 DEF Told, Speaking
<1>4. Render(heap, root) = Says(heap, told, root)
  BY <1>1, <1>3, RootSays
<1>5. Read(offset) = Says(heap, told, root)
  <2>1. Read(offset) = <<>> \o Says(heap, told, root)
    <3>1. Len(stack) = 0
      BY <1>0
    <3> QED BY <1>0, <1>1, <1>2, <1>3, <3>1 DEF Recalls
  <2>2. Says(heap, told, root) \in Word
    BY <1>1, SaysWords DEF LiveLinks
  <2> QED BY <2>1, <2>2, Joined
<1>6. /\ heap' = heap /\ root' = root
      /\ offset' = IF required THEN SkipWhitespace(offset) ELSE offset
  BY DEF End, Finish, GoTo
<1>7. Read(offset') = Read(offset)
  BY <1>1, <1>6, ReadOn
<1>8. Strip(text', SkipBom', offset') = Read(offset')
  BY <1>0, ReadSame
<1> QED BY <1>4, <1>5, <1>6, <1>7, <1>8 DEF ResultRendersText

\* A step that is not the end of a parse, or returns nothing.
LEMMA NothingRenders ==
    ASSUME pc' # "done" \/ root' = NULL
    PROVE  ResultRendersText'
BY DEF ResultRendersText

LEMMA RendersInductive ==
    Place /\ Ownership /\ Recalling /\ ResultRendersText /\ [Next]_vars => ResultRendersText'
<1> SUFFICES ASSUME Place, Ownership, Recalling, ResultRendersText, [Next]_vars
             PROVE  ResultRendersText'
  OBVIOUS
<1>1. CASE End
  BY <1>1, EndRenders, NothingRenders
<1>2. CASE UNCHANGED vars
  <2>1. text' = text /\ UNCHANGED <<heap, root, offset, pc>>
    BY <1>2 DEF vars, buffer
  <2> QED BY <2>1, ReadSame DEF ResultRendersText, Read
<1>3. CASE \/ Begin \/ Unwind \/ Literal \/ Number \/ String \/ Open("Array") \/ Open("Object")
           \/ NoValue \/ Element \/ Key \/ AfterValue
  <2>1. pc' # "done" \/ root' = NULL
    BY <1>3 DEF Begin, Unwind, Literal, Number, String, Open, NoValue, Element, Key, AfterValue,
                Finish, GoTo
  <2> QED BY <2>1, NothingRenders
<1> QED BY <1>1, <1>2, <1>3 DEF Next

LEMMA RendersInit == Init => ResultRendersText
BY DEF Init, ResultRendersText

\* For every text of any length and every nesting limit, whether or not an
\* allocation fails: the tree a parse returns, written out item by item and in
\* order, is the text it has read, without its blanks.
THEOREM ParsedTreeSaysTheText == Spec => []ResultRendersText
BY PlaceInit, PlaceInductive, OwnershipInit, OwnershipInductive, RecallingInit,
   RecallingInductive, RendersInit, RendersInductive, PTL DEF Spec
=============================================================================
