----------------------------- MODULE MinifyTheorems -----------------------------
(***************************************************************************)
(* cJSON_Minify stays inside its block, never overwrites what it has not    *)
(* read, and takes out the blanks and comments, for every text.  The first  *)
(* two need each other: the look-ahead is inside because the symbol it      *)
(* looks at is still the client's, and the client's text ends in a NUL.     *)
(***************************************************************************)
EXTENDS Minify, LeastNumber, SequenceTheorems

-----------------------------------------------------------------------------
(* Joining sequences *)

\* f holds the concatenations of the first sequences of s
Joins(s, f, n) == \A k \in 1..n : f[k] = IF k = 1 THEN s[k] ELSE f[k - 1] \o s[k]

\* They exist,
LEMMA JoinsExist ==
    ASSUME NEW S, NEW s \in Seq(Seq(S))
    PROVE  \E f \in [1..Len(s) -> Seq(S)] : Joins(s, f, Len(s))
<1> DEFINE G == {n \in Nat : n <= Len(s) => \E f \in [1..n -> Seq(S)] : Joins(s, f, n)}
<1>1. 0 \in G
  <2> DEFINE f == [k \in 1..0 |-> <<>>]
  <2>1. f \in [1..0 -> Seq(S)] /\ Joins(s, f, 0)
    BY DEF Joins
  <2> QED BY <2>1
<1>2. ASSUME NEW n \in Nat, n \in G PROVE n + 1 \in G
  <2> SUFFICES ASSUME n + 1 <= Len(s)
               PROVE  \E g \in [1..(n + 1) -> Seq(S)] : Joins(s, g, n + 1)
    OBVIOUS
  <2>1. PICK f \in [1..n -> Seq(S)] : Joins(s, f, n)
    BY <1>2
  <2> DEFINE g == [k \in 1..(n + 1) |->
                     IF k = n + 1 THEN IF k = 1 THEN s[k] ELSE f[n] \o s[k] ELSE f[k]]
  <2>2. s[n + 1] \in Seq(S) /\ (n # 0 => f[n] \in Seq(S))
    OBVIOUS
  <2>3. \A k \in 1..(n + 1) : k # n + 1 => k \in 1..n
    OBVIOUS
  <2>4. g \in [1..(n + 1) -> Seq(S)]
    <3> SUFFICES ASSUME NEW k \in 1..(n + 1) PROVE g[k] \in Seq(S)
      OBVIOUS
    <3>1. CASE k = n + 1
      <4>1. CASE n = 0
        BY <3>1, <4>1, <2>2
      <4>2. CASE n # 0
        <5>1. f[n] \o s[n + 1] \in Seq(S)
          BY <2>2, <4>2, ConcatProperties
        <5> QED BY <3>1, <4>2, <5>1
      <4> QED BY <4>1, <4>2
    <3>2. CASE k # n + 1
      BY <3>2, <2>3
    <3> QED BY <3>1, <3>2
  <2>5. ASSUME NEW k \in 1..(n + 1) PROVE g[k] = IF k = 1 THEN s[k] ELSE g[k - 1] \o s[k]
    <3>1. CASE k = n + 1
      <4>1. k # 1 => g[k - 1] = f[n]
        BY <3>1
      <4> QED BY <3>1, <4>1
    <3>2. CASE k # n + 1
      <4>1. k \in 1..n /\ (k # 1 => k - 1 \in 1..n)
        BY <3>2
      <4>2. k \in 1..(n + 1) /\ (k # 1 => k - 1 \in 1..(n + 1) /\ k - 1 # n + 1)
        BY <3>2
      <4>3. g[k] = f[k] /\ (k # 1 => g[k - 1] = f[k - 1])
        BY <3>2, <4>2
      <4> QED BY <2>1, <4>1, <4>3 DEF Joins
    <3> QED BY <3>1, <3>2
  <2>6. Joins(s, g, n + 1)
    BY <2>5 DEF Joins
  <2> QED BY <2>4, <2>6
<1> HIDE DEF G
<1>3. \A n \in Nat : n \in G
  BY <1>1, <1>2, SetInduction
<1> QED BY <1>3 DEF G

\* are the only ones,
LEMMA JoinsUnique ==
    ASSUME NEW s, NEW f, NEW g, NEW n \in Nat, Joins(s, f, n), Joins(s, g, n)
    PROVE  \A k \in 1..n : f[k] = g[k]
<1> DEFINE G == {k \in Nat : k \in 1..n => f[k] = g[k]}
<1>1. 0 \in G
  OBVIOUS
<1>2. ASSUME NEW k \in Nat, k \in G PROVE k + 1 \in G
  <2> SUFFICES ASSUME k + 1 \in 1..n PROVE f[k + 1] = g[k + 1]
    OBVIOUS
  <2>1. k # 0 => f[k] = g[k]
    BY <1>2
  <2>2. (k + 1) - 1 = k /\ (k + 1 = 1 <=> k = 0)
    OBVIOUS
  <2> QED BY <2>1, <2>2 DEF Joins
<1> HIDE DEF G
<1>3. \A k \in Nat : k \in G
  BY <1>1, <1>2, SetInduction
<1> QED BY <1>3 DEF G

\* and the last is the concatenation of all.
LEMMA FlattenIsJoin ==
    ASSUME NEW S, NEW s \in Seq(Seq(S)), NEW f \in [1..Len(s) -> Seq(S)], Joins(s, f, Len(s))
    PROVE  FlattenSeq(s) = IF Len(s) = 0 THEN s ELSE f[Len(s)]
<1> DEFINE flatten[i \in 1..Len(s)] == IF i = 1 THEN s[i] ELSE flatten[i-1] \o s[i]
<1>1. f = [k \in 1..Len(s) |-> IF k = 1 THEN s[k] ELSE f[k - 1] \o s[k]]
  BY DEF Joins
<1>2. flatten = [k \in 1..Len(s) |-> IF k = 1 THEN s[k] ELSE flatten[k - 1] \o s[k]]
  BY <1>1 DEF flatten
<1>3. FlattenSeq(s) = IF Len(s) = 0 THEN s ELSE flatten[Len(s)]
  BY DEF FlattenSeq
<1> HIDE DEF flatten
<1>4. Joins(s, flatten, Len(s))
  BY <1>2 DEF Joins
<1>5. Len(s) \in Nat
  OBVIOUS
<1>6. \A k \in 1..Len(s) : flatten[k] = f[k]
  BY <1>4, <1>5, JoinsUnique
<1> QED BY <1>3, <1>5, <1>6

\* Joining is appending one sequence after the other.
LEMMA FlattenAppend ==
    ASSUME NEW S, NEW s \in Seq(Seq(S)), NEW e \in Seq(S)
    PROVE  FlattenSeq(Append(s, e)) = FlattenSeq(s) \o e
<1> DEFINE t == Append(s, e)
           n == Len(s)
<1>1. t \in Seq(Seq(S)) /\ Len(t) = n + 1 /\ n \in Nat /\ t[n + 1] = e /\ \A k \in 1..n : t[k] = s[k]
  BY AppendProperties
<1> HIDE DEF t
<1>2. PICK f \in [1..n -> Seq(S)] : Joins(s, f, n)
  BY JoinsExist
<1>3. PICK g \in [1..Len(t) -> Seq(S)] : Joins(t, g, Len(t))
  BY <1>1, JoinsExist
<1>4. Joins(s, g, n)
  <2> SUFFICES ASSUME NEW k \in 1..n
               PROVE  g[k] = IF k = 1 THEN s[k] ELSE g[k - 1] \o s[k]
    BY DEF Joins
  <2>1. k \in 1..Len(t) /\ t[k] = s[k]
    BY <1>1
  <2>2. g[k] = IF k = 1 THEN t[k] ELSE g[k - 1] \o t[k]
    BY <1>3, <2>1, Zenon DEF Joins
  <2> QED BY <2>1, <2>2
<1>5. n # 0 => g[n] = f[n]
  BY <1>1, <1>2, <1>4, JoinsUnique
<1>6. FlattenSeq(s) = IF n = 0 THEN s ELSE f[n]
  BY <1>2, FlattenIsJoin
<1>7. FlattenSeq(t) = g[n + 1]
  BY <1>1, <1>3, FlattenIsJoin
<1>8. g[n + 1] = IF n = 0 THEN e ELSE g[n] \o e
  <2>1. (n + 1) - 1 = n /\ n + 1 \in 1..Len(t) /\ (n + 1 = 1 <=> n = 0)
    BY <1>1
  <2> QED BY <1>1, <1>3, <2>1 DEF Joins
<1>9. n = 0 => s = <<>> /\ s \o e = e
  OBVIOUS
<1> QED BY <1>5, <1>6, <1>7, <1>8, <1>9 DEF t

LEMMA FlattenTypes ==
    ASSUME NEW S, NEW s \in Seq(Seq(S))
    PROVE  FlattenSeq(s) \in Seq(S)
<1>1. PICK f \in [1..Len(s) -> Seq(S)] : Joins(s, f, Len(s))
  BY JoinsExist
<1>2. FlattenSeq(s) = IF Len(s) = 0 THEN s ELSE f[Len(s)]
  BY <1>1, FlattenIsJoin
<1>3. CASE Len(s) = 0
  <2>1. s = <<>> /\ <<>> \in Seq(S)
    BY <1>3
  <2> QED BY <1>2, <1>3, <2>1
<1>4. CASE Len(s) # 0
  <2>1. Len(s) \in 1..Len(s)
    BY <1>4
  <2> QED BY <1>2, <1>4, <2>1
<1> QED BY <1>3, <1>4

-----------------------------------------------------------------------------
(* A text up to its k-th lexeme *)

Upto(s, k) == FlattenSeq(SubSeq(s, 1, k))

\* One lexeme after the other, up to the whole text.
LEMMA UptoSteps ==
    ASSUME NEW S, NEW s \in Seq(Seq(S))
    PROVE  /\ Upto(s, 0) = <<>> /\ Upto(s, Len(s)) = FlattenSeq(s)
           /\ \A k \in 0..Len(s) : Upto(s, k) \in Seq(S) /\ Len(Upto(s, k)) \in Nat
           /\ \A k \in 0..(Len(s) - 1) : Upto(s, k + 1) = Upto(s, k) \o s[k + 1]
<1>1. SubSeq(s, 1, 0) = <<>> /\ SubSeq(s, 1, Len(s)) = s /\ FlattenSeq(<<>>) = <<>>
  BY DEF FlattenSeq
<1>2. ASSUME NEW k \in 0..Len(s) PROVE Upto(s, k) \in Seq(S) /\ Len(Upto(s, k)) \in Nat
  <2>1. SubSeq(s, 1, k) \in Seq(Seq(S))
    BY SubSeqProperties
  <2>2. Upto(s, k) \in Seq(S)
    BY <2>1, FlattenTypes DEF Upto
  <2> QED BY <2>2
<1>3. ASSUME NEW k \in 0..(Len(s) - 1) PROVE Upto(s, k + 1) = Upto(s, k) \o s[k + 1]
  <2>1. SubSeq(s, 1, k) \in Seq(Seq(S)) /\ s[k + 1] \in Seq(S)
    BY SubSeqProperties
  <2>2. SubSeq(s, 1, k + 1) = Append(SubSeq(s, 1, k), s[k + 1])
    OBVIOUS
  <2> QED BY <2>1, <2>2, FlattenAppend DEF Upto
<1> QED BY <1>1, <1>2, <1>3 DEF Upto

\* The text begins with each of its parts,
LEMMA UptoBegins ==
    ASSUME NEW S, NEW s \in Seq(Seq(S)), NEW k \in 0..Len(s)
    PROVE  /\ Len(Upto(s, k)) <= Len(FlattenSeq(s))
           /\ \A i \in 1..Len(Upto(s, k)) : FlattenSeq(s)[i] = Upto(s, k)[i]
<1> DEFINE n == Len(s)
           G == {m \in Nat : k + m <= n =>
                   /\ Len(Upto(s, k)) <= Len(Upto(s, k + m))
                   /\ \A i \in 1..Len(Upto(s, k)) : Upto(s, k + m)[i] = Upto(s, k)[i]}
<1>1. n \in Nat /\ k \in Nat
  OBVIOUS
<1>2. 0 \in G
  <2>1. k + 0 = k /\ Len(Upto(s, k)) \in Nat
    BY <1>1, UptoSteps
  <2> QED BY <2>1
<1>3. ASSUME NEW m \in Nat, m \in G PROVE m + 1 \in G
  <2> SUFFICES ASSUME k + (m + 1) <= n
               PROVE  /\ Len(Upto(s, k)) <= Len(Upto(s, k + (m + 1)))
                      /\ \A i \in 1..Len(Upto(s, k)) : Upto(s, k + (m + 1))[i] = Upto(s, k)[i]
    BY <1>1
  <2> DEFINE u == Upto(s, k)
             v == Upto(s, k + m)
  <2>1. k + m \in 0..(n - 1) /\ k + m \in 0..n /\ k + (m + 1) = (k + m) + 1
    BY <1>1
  <2>2. Upto(s, (k + m) + 1) = v \o s[(k + m) + 1] /\ v \in Seq(S) /\ u \in Seq(S)
    BY <2>1, UptoSteps
  <2>3. s[(k + m) + 1] \in Seq(S)
    BY <2>1
  <2>4. Len(u) <= Len(v) /\ \A i \in 1..Len(u) : v[i] = u[i]
    BY <1>3, <2>1
  <2> HIDE DEF u, v
  <2>5. Len(v \o s[(k + m) + 1]) >= Len(v)
        /\ \A i \in 1..Len(v) : (v \o s[(k + m) + 1])[i] = v[i]
    BY <2>2, <2>3, ConcatProperties
  <2>6. Len(u) \in Nat /\ Len(v) \in Nat /\ Len(v \o s[(k + m) + 1]) \in Nat
    BY <2>2, <2>3, ConcatProperties
  <2>7. /\ Len(u) <= Len(v \o s[(k + m) + 1])
        /\ \A i \in 1..Len(u) : (v \o s[(k + m) + 1])[i] = u[i]
    BY <2>4, <2>5, <2>6
  <2>8. Upto(s, k + (m + 1)) = v \o s[(k + m) + 1]
    BY <2>1, <2>2
  <2> QED BY <2>7, <2>8 DEF u
<1> HIDE DEF G
<1>4. \A m \in Nat : m \in G
  BY <1>2, <1>3, SetInduction
<1>5. n - k \in Nat /\ k + (n - k) = n
  BY <1>1
<1>6. Upto(s, n) = FlattenSeq(s)
  BY UptoSteps
<1>7. n - k \in G
  BY <1>4, <1>5
<1>8. k + (n - k) <= n
  BY <1>1
<1> QED BY <1>5, <1>6, <1>7, <1>8 DEF G

\* and the k-th lexeme follows on what is before it.
LEMMA LexemeAt ==
    ASSUME NEW S, NEW s \in Seq(Seq(S)), NEW k \in 0..(Len(s) - 1)
    PROVE  /\ Len(Upto(s, k + 1)) = Len(Upto(s, k)) + Len(s[k + 1])
           /\ Len(Upto(s, k + 1)) <= Len(FlattenSeq(s))
           /\ \A i \in 1..Len(s[k + 1]) : FlattenSeq(s)[Len(Upto(s, k)) + i] = s[k + 1][i]
<1>1. k \in 0..Len(s) /\ k + 1 \in 0..Len(s) /\ s[k + 1] \in Seq(S)
  OBVIOUS
<1>2. Upto(s, k + 1) = Upto(s, k) \o s[k + 1] /\ Upto(s, k) \in Seq(S)
  BY <1>1, UptoSteps
<1>3. Len(Upto(s, k + 1)) = Len(Upto(s, k)) + Len(s[k + 1])
  BY <1>1, <1>2
<1>4. ASSUME NEW i \in 1..Len(s[k + 1])
      PROVE  FlattenSeq(s)[Len(Upto(s, k)) + i] = s[k + 1][i]
  <2>1. Len(Upto(s, k)) + i \in 1..Len(Upto(s, k + 1))
    BY <1>1, <1>2, <1>3
  <2>2. Upto(s, k + 1)[Len(Upto(s, k)) + i] = s[k + 1][i]
    BY <1>1, <1>2, <2>1, ConcatProperties
  <2>3. FlattenSeq(s)[Len(Upto(s, k)) + i] = Upto(s, k + 1)[Len(Upto(s, k)) + i]
    BY <1>1, <2>1, UptoBegins
  <2> QED BY <2>2, <2>3
<1> QED BY <1>1, <1>3, <1>4, UptoBegins

-----------------------------------------------------------------------------
(* Inside the block *)

\* The invariant: types, and the reader ahead of the writer.
MInv == TypeOK /\ UnreadIsUntouched

\* A text ends in a NUL.
LEMMA TextEndsInNul ==
    ASSUME NEW d \in Documents
    PROVE  /\ Text(d) \in Seq(Symbol \cup {"NUL"})
           /\ Len(Text(d)) \in Nat /\ Len(Text(d)) >= 1
           /\ Text(d)[Len(Text(d))] = "NUL"
<1> DEFINE c == FlattenSeq(d)
<1>1. c \in Seq(Symbol) BY TextAssumption, FlattenTypes
<1>2. c \in Seq(Symbol \cup {"NUL"}) /\ Len(c) \in Nat BY <1>1
<1> HIDE DEF c
<1>3. /\ c \o <<"NUL">> \in Seq(Symbol \cup {"NUL"})
      /\ Len(c \o <<"NUL">>) = Len(c) + 1
      /\ (c \o <<"NUL">>)[Len(c) + 1] = "NUL"
    BY <1>2
<1>4. QED BY <1>2, <1>3 DEF Text, c

\* Both pointers are numbers in the block, and the writer is behind.
LEMMA Pointers ==
    ASSUME MInv
    PROVE  /\ Len(Text(document)) \in Nat /\ json \in Nat /\ into \in Nat
           /\ 1 <= into /\ into <= json /\ json <= Len(Text(document))
           /\ \A k : k \in Position <=> k \in Nat /\ 1 <= k /\ k <= Len(Text(document))
<1> DEFINE N == Len(Text(document))
<1>1. N \in Nat BY TextEndsInNul DEF MInv, TypeOK
<1>2. Position = 1..N BY DEF Position
<1>3. json \in Position /\ into \in Position /\ into <= json
    BY DEF MInv, TypeOK, UnreadIsUntouched
<1> HIDE DEF N
<1>4. /\ json \in Nat /\ into \in Nat /\ 1 <= into /\ into <= json /\ json <= N
      /\ \A k : k \in Position <=> k \in Nat /\ 1 <= k /\ k <= N
    BY <1>1, <1>2, <1>3
<1>5. QED BY <1>1, <1>4 DEF N

\* While the call runs, a symbol that is not the NUL has a successor in the
\* block, and that is still the client's.
LEMMA LookAheadInside ==
    ASSUME MInv, pc # "done", memory[json] # "NUL"
    PROVE  /\ json + 1 \in Position
           /\ memory[json + 1] = Text(document)[json + 1]
           /\ memory[json + 1] # "NUL" => json + 2 \in Position
<1> DEFINE N == Len(Text(document))
<1>1. Text(document)[N] = "NUL" BY TextEndsInNul DEF MInv, TypeOK
<1>2. /\ N \in Nat /\ json \in Nat /\ 1 <= json /\ json <= N
      /\ \A k : k \in Position <=> k \in Nat /\ 1 <= k /\ k <= N
    BY Pointers
<1>3. ASSUME NEW k \in Position, k >= json PROVE memory[k] = Text(document)[k]
    BY <1>3 DEF MInv, UnreadIsUntouched
<1> HIDE DEF N
<1>4. json \in Position /\ json >= json BY <1>2
<1>5. json # N BY <1>1, <1>3, <1>4
<1>6. json + 1 \in Position /\ json + 1 >= json BY <1>2, <1>5
<1>7. memory[json + 1] = Text(document)[json + 1] BY <1>3, <1>6
<1>8. ASSUME memory[json + 1] # "NUL" PROVE json + 2 \in Position
    <2>1. json + 1 # N BY <1>1, <1>7, <1>8
    <2>2. QED BY <1>2, <1>6, <2>1
<1>9. QED BY <1>6, <1>7, <1>8

\* The initial state satisfies the invariant.
LEMMA InitMInv == Init => MInv
<1>1. SUFFICES ASSUME Init PROVE MInv OBVIOUS
<1>2. /\ Text(document) \in Seq(Symbol \cup {"NUL"})
      /\ Len(Text(document)) \in Nat /\ Len(Text(document)) >= 1
    BY <1>1, TextEndsInNul DEF Init
<1>3. memory \in [1..Len(Text(document)) -> Symbol \cup {"NUL"}] /\ memory = Text(document)
    BY <1>1, <1>2 DEF Init
<1>4. 1 \in 1..Len(Text(document)) BY <1>2
<1>5. Position = 1..Len(Text(document)) BY DEF Position
<1>6. QED BY <1>1, <1>3, <1>4, <1>5 DEF Init, MInv, TypeOK, UnreadIsUntouched

\* Copying one symbol backwards keeps the invariant.
LEMMA CopyOneKeeps ==
    ASSUME MInv, pc # "done", memory[json] # "NUL", CopyOne, document' = document,
           pc' \in {"text", "string"}
    PROVE  MInv'
<1>1. json + 1 \in Position BY LookAheadInside
<1>2. /\ json \in Nat /\ into \in Nat /\ 1 <= into /\ into <= json
      /\ \A k : k \in Position => k \in Nat
    BY Pointers
<1>3. into \in Position /\ into + 1 \in Position /\ json \in Position
    BY <1>1, <1>2, Pointers
<1>4. /\ memory' = [memory EXCEPT ![into] = memory[json]]
      /\ json' = json + 1 /\ into' = into + 1
    BY DEF CopyOne, Write, Read
<1>5. Position' = Position BY DEF Position
<1>6. TypeOK' BY <1>1, <1>3, <1>4, <1>5 DEF MInv, TypeOK
<1>7. ASSUME NEW k \in Position, k >= json + 1 PROVE memory'[k] = Text(document)[k]
    <2>1. k # into /\ k >= json BY <1>2, <1>7
    <2>2. memory'[k] = memory[k] BY <1>4, <2>1 DEF MInv, TypeOK
    <2>3. QED BY <2>1, <2>2 DEF MInv, UnreadIsUntouched
<1>8. into' <= json' BY <1>2, <1>4
<1>9. UnreadIsUntouched' BY <1>4, <1>5, <1>7, <1>8 DEF UnreadIsUntouched
<1>10. QED BY <1>6, <1>9 DEF MInv

\* Moving the reader forward inside the block keeps the invariant.
LEMMA ReadKeeps ==
    ASSUME MInv, pc # "done", NEW p \in Nat, p \in Position, p >= json, json' = p,
           document' = document, memory' = memory, into' = into,
           pc' \in {"text", "oneline", "multiline", "string"}
    PROVE  MInv'
<1>1. Position' = Position BY DEF Position
<1>2. TypeOK' BY <1>1 DEF MInv, TypeOK
<1>3. json \in Nat /\ into \in Nat /\ into <= json BY Pointers
<1>4. into <= p BY <1>3
<1>5. ASSUME NEW k \in Position, k >= p PROVE memory[k] = Text(document)[k]
    <2>1. k \in Nat BY Pointers
    <2>2. k >= json BY <1>3, <1>5, <2>1
    <2>3. QED BY <2>2 DEF MInv, UnreadIsUntouched
<1>6. UnreadIsUntouched' BY <1>1, <1>4, <1>5 DEF UnreadIsUntouched
<1>7. QED BY <1>2, <1>6 DEF MInv

\* Copying the two symbols of an escaped quote keeps the invariant.
LEMMA CopyEscapedQuoteKeeps == MInv /\ CopyEscapedQuote => MInv'
<1>1. SUFFICES ASSUME MInv, CopyEscapedQuote PROVE MInv' OBVIOUS
<1>2. /\ pc = "string" /\ pc' = pc /\ document' = document
      /\ memory[json] = "backslash" /\ memory[json + 1] = "quote"
      /\ memory' = [memory EXCEPT ![into] = memory[json], ![into + 1] = memory[json + 1]]
      /\ json' = json + 2 /\ into' = into + 2
    BY <1>1 DEF CopyEscapedQuote, IsEscapedQuote, At, NextIs, Read
<1>3. json + 1 \in Position /\ json + 2 \in Position BY <1>1, <1>2, LookAheadInside
<1>4. /\ json \in Nat /\ into \in Nat /\ 1 <= into /\ into <= json
      /\ \A k : k \in Position => k \in Nat
    BY <1>1, Pointers
<1>5. into \in Position /\ into + 1 \in Position /\ into + 2 \in Position
    BY <1>1, <1>3, <1>4, Pointers
<1>6. Position' = Position BY <1>2 DEF Position
<1>7. TypeOK' BY <1>1, <1>2, <1>3, <1>4, <1>5, <1>6 DEF MInv, TypeOK, Symbol
<1>8. ASSUME NEW k \in Position, k >= json + 2 PROVE memory'[k] = Text(document)[k]
    <2>1. k # into /\ k # into + 1 /\ k >= json BY <1>4, <1>8
    <2>2. memory'[k] = memory[k] BY <1>1, <1>2, <2>1 DEF MInv, TypeOK
    <2>3. QED BY <1>1, <1>2, <2>1, <2>2 DEF MInv, UnreadIsUntouched
<1>9. into' <= json' BY <1>2, <1>4
<1>10. UnreadIsUntouched' BY <1>2, <1>6, <1>8, <1>9 DEF UnreadIsUntouched
<1>11. QED BY <1>7, <1>10 DEF MInv

\* The write of the NUL ends the call.
LEMMA TerminateKeeps == MInv /\ Terminate => MInv'
<1>1. SUFFICES ASSUME MInv, Terminate PROVE MInv' OBVIOUS
<1>2. /\ pc' = "done" /\ document' = document /\ json' = json /\ into' = into
      /\ memory' = [memory EXCEPT ![into] = "NUL"]
    BY <1>1 DEF Terminate, Write
<1>3. Position' = Position BY <1>2 DEF Position
<1>4. QED BY <1>1, <1>2, <1>3 DEF MInv, TypeOK, UnreadIsUntouched

\* Every step keeps the invariant.
LEMMA NextMInv == MInv /\ [Next]_vars => MInv'
<1>1. SUFFICES ASSUME MInv, [Next]_vars PROVE MInv' OBVIOUS
<1>2. json \in Nat /\ json \in Position BY <1>1, Pointers
<1>3. CASE SkipBlank
    <2>1. memory[json] # "NUL" /\ pc = "text" BY <1>3 DEF SkipBlank, Blank
    <2>2. json + 1 \in Position BY <1>1, <2>1, LookAheadInside
    <2>3. QED BY <1>1, <1>2, <1>3, <2>1, <2>2, ReadKeeps DEF SkipBlank, Read
<1>4. CASE OpenComment
    <2>1. memory[json] # "NUL" /\ memory[json + 1] # "NUL" /\ pc = "text"
        BY <1>4 DEF OpenComment, At, NextIs
    <2>2. json + 2 \in Position BY <1>1, <2>1, LookAheadInside
    <2>3. pc' \in {"oneline", "multiline"} BY <1>4 DEF OpenComment
    <2>4. json' = json + 2 /\ UNCHANGED <<document, memory, into>>
        BY <1>4 DEF OpenComment, Read
    <2>5. json + 2 \in Nat /\ json + 2 >= json BY <1>2
    <2>6. QED BY <1>1, <2>1, <2>2, <2>3, <2>4, <2>5, ReadKeeps
<1>5. CASE DropSlash
    <2>1. memory[json] # "NUL" /\ pc = "text" BY <1>5 DEF DropSlash, At
    <2>2. json + 1 \in Position BY <1>1, <2>1, LookAheadInside
    <2>3. QED BY <1>1, <1>2, <1>5, <2>1, <2>2, ReadKeeps DEF DropSlash, Read
<1>6. CASE OpenString
    <2>1. memory[json] # "NUL" /\ pc = "text" BY <1>6 DEF OpenString, At
    <2>2. QED BY <1>1, <1>6, <2>1, CopyOneKeeps DEF OpenString
<1>7. CASE CopyOther BY <1>1, <1>7, CopyOneKeeps DEF CopyOther
<1>8. CASE Terminate BY <1>1, <1>8, TerminateKeeps
<1>9. CASE SkipOnelineComment
    <2>1. pc = "oneline" BY <1>9 DEF SkipOnelineComment
    <2>2. json' \in Nat /\ json' \in Position /\ json' >= json
        <3>1. CASE At("NUL")
            <4>1. json' = json + 0 BY <1>9, <3>1 DEF SkipOnelineComment, Read
            <4>2. QED BY <1>2, <4>1
        <3>2. CASE ~At("NUL")
            <4>1. json + 1 \in Position BY <1>1, <2>1, <3>2, LookAheadInside DEF At
            <4>2. json' = json + 1 BY <1>9, <3>2 DEF SkipOnelineComment, Read
            <4>3. QED BY <1>2, <4>1, <4>2
        <3>3. QED BY <3>1, <3>2
    <2>3. pc' \in {"text", "oneline"} BY <1>9, <2>1 DEF SkipOnelineComment
    <2>4. UNCHANGED <<document, memory, into>> BY <1>9 DEF SkipOnelineComment
    <2>5. QED BY <1>1, <2>1, <2>2, <2>3, <2>4, ReadKeeps
<1>10. CASE SkipMultilineComment
    <2>1. pc = "multiline" BY <1>10 DEF SkipMultilineComment
    <2>2. json' \in Nat /\ json' \in Position /\ json' >= json
        <3>1. CASE At("NUL")
            <4>1. json' = json + 0 BY <1>10, <3>1 DEF SkipMultilineComment, Read
            <4>2. QED BY <1>2, <4>1
        <3>2. CASE ~At("NUL") /\ At("*") /\ NextIs("/")
            <4>1. json + 2 \in Position
                BY <1>1, <2>1, <3>2, LookAheadInside DEF At, NextIs
            <4>2. json' = json + 2 BY <1>10, <3>2 DEF SkipMultilineComment, Read
            <4>3. QED BY <1>2, <4>1, <4>2
        <3>3. CASE ~At("NUL") /\ ~(At("*") /\ NextIs("/"))
            <4>1. json + 1 \in Position BY <1>1, <2>1, <3>3, LookAheadInside DEF At
            <4>2. json' = json + 1 BY <1>10, <3>3 DEF SkipMultilineComment, Read
            <4>3. QED BY <1>2, <4>1, <4>2
        <3>4. QED BY <3>1, <3>2, <3>3
    <2>3. pc' \in {"text", "multiline"} BY <1>10, <2>1 DEF SkipMultilineComment
    <2>4. UNCHANGED <<document, memory, into>> BY <1>10 DEF SkipMultilineComment
    <2>5. QED BY <1>1, <2>1, <2>2, <2>3, <2>4, ReadKeeps
<1>11. CASE CloseString
    <2>1. pc = "string" /\ pc' = "text" /\ document' = document
        BY <1>11 DEF CloseString
    <2>2. CASE At("quote")
        BY <1>1, <1>11, <2>1, <2>2, CopyOneKeeps DEF CloseString, At
    <2>3. CASE ~At("quote")
        <3>1. json' = json /\ UNCHANGED <<memory, into>> BY <1>11, <2>3 DEF CloseString
        <3>2. QED BY <1>1, <1>2, <2>1, <3>1, ReadKeeps
    <2>4. QED BY <2>2, <2>3
<1>12. CASE CopyStringSymbol BY <1>1, <1>12, CopyOneKeeps DEF CopyStringSymbol, At
<1>13. CASE CopyEscapedQuote BY <1>1, <1>13, CopyEscapedQuoteKeeps
<1>14. CASE UNCHANGED vars
    BY <1>1, <1>14 DEF vars, MInv, TypeOK, UnreadIsUntouched, Position
<1>15. QED
    BY <1>1, <1>3, <1>4, <1>5, <1>6, <1>7, <1>8, <1>9, <1>10, <1>11, <1>12, <1>13, <1>14
    DEF Next, MainLoop, InnerLoops

\* Neither pointer of cJSON_Minify leaves the block, whatever the text.
THEOREM MinifyStaysInside == Spec => []TypeOK
<1>1. MInv => TypeOK BY DEF MInv
<1>2. QED BY InitMInv, NextMInv, <1>1, PTL DEF Spec

\* cJSON_Minify never overwrites a symbol it has yet to read, whatever the text.
THEOREM MinifyReadsWhatWasPassed == Spec => []UnreadIsUntouched
<1>1. MInv => UnreadIsUntouched BY DEF MInv
<1>2. QED BY InitMInv, NextMInv, <1>1, PTL DEF Spec

-----------------------------------------------------------------------------
(* What is left *)

Left(k) == Upto(Kept(document), k)

\* The k first lexemes are read, and what is kept of them is written; of the
\* next one the symbols before i are read, and written if it is kept.
Reading(k, i, kept) ==
    /\ json = Len(Upto(document, k)) + i
    /\ into = Len(Left(k)) + IF kept THEN i ELSE 1
    /\ \A j \in 1..Len(Left(k)) : memory[j] = Left(k)[j]
    /\ kept => \A j \in 1..(i - 1) : memory[Len(Left(k)) + j] = document[k + 1][j]

Lexemes == 0..(Len(document) - 1)
InOneline(k, i) ==
    /\ IsOnelineComment(document[k + 1]) /\ i \in 3..Len(document[k + 1])
    /\ Reading(k, i, FALSE)
InMultiline(k, i) ==
    /\ IsMultilineComment(document[k + 1]) /\ i \in 3..(Len(document[k + 1]) - 1)
    /\ Reading(k, i, FALSE)
InString(k, i) ==
    /\ IsString(document[k + 1]) /\ i \in 2..Len(document[k + 1])
    /\ document[k + 1][i] = "quote" => i = Len(document[k + 1])
    /\ Reading(k, i, TRUE)

\* Between two steps the call stands between two lexemes or in one.
Progress ==
    /\ pc = "text" => \E k \in 0..Len(document) : Reading(k, 1, FALSE)
    /\ pc = "oneline" => \E k \in Lexemes : \E i \in 3..Len(document[k + 1]) : InOneline(k, i)
    /\ pc = "multiline" => \E k \in Lexemes : \E i \in 3..Len(document[k + 1]) : InMultiline(k, i)
    /\ pc = "string" => \E k \in Lexemes : \E i \in 2..Len(document[k + 1]) : InString(k, i)
    /\ pc = "done" => AsString(memory) = FlattenSeq(Kept(document))

LexInv == IsWhole(document) => Progress

\* The lexemes of a document and what is kept of them.
LEMMA LexemeTypes ==
    ASSUME MInv
    PROVE  /\ document \in Seq(Seq(Symbol)) /\ Len(document) \in Nat
           /\ Kept(document) \in Seq(Seq(Symbol)) /\ Len(Kept(document)) = Len(document)
           /\ \A k \in Lexemes : /\ document[k + 1] \in Seq(Symbol)
                                 /\ k \in 0..Len(document) /\ k + 1 \in 0..Len(document)
<1>1. document \in Seq(Seq(Symbol)) BY TextAssumption DEF MInv, TypeOK
<1>2. \A k \in 1..Len(document) : document[k] \in Seq(Symbol) /\ <<>> \in Seq(Symbol)
    BY <1>1
<1>3. Kept(document) \in [1..Len(document) -> Seq(Symbol)] BY <1>2 DEF Kept
<1>4. Len(document) \in Nat BY <1>1
<1>5. Kept(document) \in Seq(Seq(Symbol)) /\ Len(Kept(document)) = Len(document)
    BY <1>3, <1>4
<1>6. \A k \in Lexemes : k \in 0..Len(document) /\ k + 1 \in 0..Len(document) /\ k + 1 \in 1..Len(document)
    BY <1>4 DEF Lexemes
<1>7. QED BY <1>1, <1>2, <1>4, <1>5, <1>6

\* What is left grows by the lexemes that are kept.
LEMMA LeftSteps ==
    ASSUME MInv
    PROVE  /\ Left(0) = <<>> /\ Left(Len(document)) = FlattenSeq(Kept(document))
           /\ \A k \in 0..Len(document) : Left(k) \in Seq(Symbol) /\ Len(Left(k)) \in Nat
           /\ \A k \in Lexemes : Left(k + 1) =
                IF IsKept(document[k + 1]) THEN Left(k) \o document[k + 1] ELSE Left(k)
<1>1. Kept(document) \in Seq(Seq(Symbol)) /\ Len(Kept(document)) = Len(document)
    BY LexemeTypes
<1>2. /\ Left(0) = <<>> /\ Left(Len(document)) = FlattenSeq(Kept(document))
      /\ \A k \in 0..Len(document) : Left(k) \in Seq(Symbol) /\ Len(Left(k)) \in Nat
    BY <1>1, UptoSteps DEF Left
<1>3. ASSUME NEW k \in Lexemes
      PROVE  Left(k + 1) = IF IsKept(document[k + 1]) THEN Left(k) \o document[k + 1] ELSE Left(k)
    <2>1. Left(k + 1) = Left(k) \o Kept(document)[k + 1]
        BY <1>1, UptoSteps DEF Left, Lexemes
    <2>2. k + 1 \in 1..Len(document) /\ k \in 0..Len(document) BY LexemeTypes DEF Lexemes
    <2>3. Kept(document)[k + 1] = IF IsKept(document[k + 1]) THEN document[k + 1] ELSE <<>>
        BY <2>2 DEF Kept
    <2>4. Left(k) \o <<>> = Left(k) BY <1>2, <2>2, ConcatEmptySeq
    <2>5. QED BY <2>1, <2>3, <2>4
<1>4. QED BY <1>2, <1>3

LEMMA LexemeLength ==
    ASSUME MInv, NEW k \in Lexemes
    PROVE  /\ Len(Upto(document, k + 1)) = Len(Upto(document, k)) + Len(document[k + 1])
           /\ Len(Upto(document, k)) \in Nat /\ Len(document[k + 1]) \in Nat
<1>1. /\ document \in Seq(Seq(Symbol)) /\ document[k + 1] \in Seq(Symbol)
      /\ k \in 0..Len(document) /\ k \in 0..(Len(document) - 1)
    BY LexemeTypes DEF Lexemes
<1>2. Len(Upto(document, k + 1)) = Len(Upto(document, k)) + Len(document[k + 1])
    BY <1>1, LexemeAt
<1>3. Len(Upto(document, k)) \in Nat BY <1>1, UptoSteps
<1>4. Len(document[k + 1]) \in Nat BY <1>1
<1>5. QED BY <1>2, <1>3, <1>4

\* In a lexeme the call reads its symbols, and behind the last one the NUL.
LEMMA ReadsLexeme ==
    ASSUME MInv, pc # "done", NEW k \in Lexemes, NEW i \in 1..Len(document[k + 1]),
           json = Len(Upto(document, k)) + i
    PROVE  /\ memory[json] = document[k + 1][i] /\ memory[json] \in Symbol
           /\ i + 1 \in 1..Len(document[k + 1]) => memory[json + 1] = document[k + 1][i + 1]
<1> DEFINE t == document[k + 1]
           o == Len(Upto(document, k))
           joined == FlattenSeq(document)
<1>1. /\ document \in Seq(Seq(Symbol)) /\ t \in Seq(Symbol) /\ k \in 0..Len(document)
      /\ k + 1 \in 0..Len(document)
    BY LexemeTypes
<1>2. /\ Len(Upto(document, k + 1)) = o + Len(t) /\ Len(Upto(document, k + 1)) <= Len(joined)
      /\ \A j \in 1..Len(t) : joined[o + j] = t[j]
    BY <1>1, LexemeAt DEF Lexemes
<1>3. o \in Nat /\ joined \in Seq(Symbol) BY <1>1, UptoSteps, FlattenTypes
<1>4. Len(t) \in Nat /\ Len(joined) \in Nat BY <1>1, <1>3
<1> HIDE DEF t, o, joined
<1>5. ASSUME NEW j \in 1..Len(t), j >= i PROVE memory[o + j] = t[j]
    <2>1. o + j \in 1..Len(joined) BY <1>2, <1>3, <1>4
    <2>2. Text(document) = joined \o <<"NUL">> BY DEF Text, joined
    <2>3. Text(document)[o + j] = joined[o + j] /\ o + j \in 1..Len(Text(document))
        BY <1>3, <2>1, <2>2
    <2>4. o + j \in Position /\ o + j >= json BY <1>3, <1>5, <2>3 DEF Position, o
    <2>5. memory[o + j] = Text(document)[o + j] BY <2>4 DEF MInv, UnreadIsUntouched
    <2>6. QED BY <1>2, <2>3, <2>5
<1>6. i \in 1..Len(t) /\ json = o + i /\ i \in Nat BY <1>4 DEF t, o
<1>7. memory[json] = t[i] /\ t[i] \in Symbol BY <1>1, <1>5, <1>6 DEF t
<1>8. ASSUME i + 1 \in 1..Len(t) PROVE memory[json + 1] = t[i + 1]
    <2>1. memory[o + (i + 1)] = t[i + 1] BY <1>5, <1>6, <1>8
    <2>2. QED BY <1>3, <1>6, <2>1
<1>9. QED BY <1>7, <1>8 DEF t

LEMMA ReadsNul ==
    ASSUME MInv, pc # "done", Reading(Len(document), 1, FALSE)
    PROVE  memory[json] = "NUL"
<1> DEFINE joined == FlattenSeq(document)
<1>1. document \in Seq(Seq(Symbol)) BY LexemeTypes
<1>2. Upto(document, Len(document)) = joined /\ joined \in Seq(Symbol)
    BY <1>1, UptoSteps, FlattenTypes
<1>3. json = Len(joined) + 1 BY <1>2 DEF Reading
<1>4. Text(document) = joined \o <<"NUL">> BY DEF Text
<1> HIDE DEF joined
<1>5. Text(document)[json] = "NUL" BY <1>2, <1>3, <1>4
<1>6. json \in Position /\ json >= json BY Pointers
<1>7. QED BY <1>5, <1>6 DEF MInv, UnreadIsUntouched

\* A lexeme that was begun and is not the NUL is one of the document.
LEMMA ReadsSome ==
    ASSUME MInv, pc # "done", NEW k \in 0..Len(document), Reading(k, 1, FALSE),
           memory[json] # "NUL"
    PROVE  k \in Lexemes
<1>1. k # Len(document) BY ReadsNul
<1>2. QED BY <1>1, LexemeTypes DEF Lexemes

-----------------------------------------------------------------------------
(* Reading on *)

\* Reading on in a lexeme that is dropped,
LEMMA ReadsOn ==
    ASSUME MInv, NEW k \in Lexemes, NEW i \in Nat, NEW n \in Nat, Reading(k, i, FALSE), Read(n),
           UNCHANGED <<document, memory, into>>
    PROVE  Reading(k, i + n, FALSE)'
<1>1. Len(Upto(document, k)) \in Nat BY LexemeTypes, UptoSteps
<1>2. json' = Len(Upto(document, k)) + (i + n) BY <1>1 DEF Reading, Read
<1>3. QED BY <1>2 DEF Reading, Left

\* and beyond it.
LEMMA ReadsBeyond ==
    ASSUME MInv, NEW k \in Lexemes, NEW i \in Nat, NEW n \in Nat, Reading(k, i, FALSE), Read(n),
           UNCHANGED <<document, memory, into>>, i + n = Len(document[k + 1]) + 1,
           ~IsKept(document[k + 1])
    PROVE  k + 1 \in 0..Len(document) /\ Reading(k + 1, 1, FALSE)'
<1>1. k + 1 \in 0..Len(document) /\ k \in 0..Len(document) /\ document[k + 1] \in Seq(Symbol)
    BY LexemeTypes
<1>2. /\ Len(Upto(document, k + 1)) = Len(Upto(document, k)) + Len(document[k + 1])
      /\ Len(Upto(document, k)) \in Nat /\ Len(document[k + 1]) \in Nat
    BY <1>1, LexemeLength
<1>3. Left(k + 1) = Left(k) BY LeftSteps
<1>4. json' = Len(Upto(document, k + 1)) + 1 BY <1>2 DEF Reading, Read
<1>5. QED BY <1>1, <1>3, <1>4 DEF Reading, Left

\* Copying a symbol of a lexeme that is kept,
LEMMA CopiesOn ==
    ASSUME MInv, NEW k \in Lexemes, NEW kept \in BOOLEAN, NEW i \in 1..Len(document[k + 1]),
           Reading(k, i, kept), kept \/ i = 1, CopyOne, document' = document,
           memory[json] = document[k + 1][i]
    PROVE  Reading(k, i + 1, TRUE)'
<1> DEFINE w == Len(Left(k))
           t == document[k + 1]
<1>1. Len(Upto(document, k)) \in Nat /\ w \in Nat /\ Len(t) \in Nat
    BY LexemeTypes, LeftSteps, LexemeLength
<1>2. into = w + i /\ into \in Position /\ i \in Nat /\ 1 <= i
    BY <1>1, Pointers DEF Reading, MInv, TypeOK
<1>3. /\ memory' = [memory EXCEPT ![into] = memory[json]] /\ json' = json + 1 /\ into' = into + 1
    BY DEF CopyOne, Write, Read
<1>4. \A j \in Nat : 1 <= j /\ j <= into => j \in Position BY <1>2, Pointers
<1>5. \A j \in 1..w : memory[j] = Left(k)[j] BY DEF Reading
<1>6. \A j \in 1..(i - 1) : memory[w + j] = t[j] BY <1>2 DEF Reading
<1>7. memory[json] = t[i] OBVIOUS
<1>8. json = Len(Upto(document, k)) + i BY DEF Reading
<1> HIDE DEF w, t
<1>9. ASSUME NEW j \in 1..w PROVE memory'[j] = Left(k)[j]
    <2>1. j # into /\ j \in Nat /\ 1 <= j /\ j <= into BY <1>1, <1>2
    <2>2. memory'[j] = memory[j] BY <1>3, <1>4, <2>1 DEF MInv, TypeOK
    <2>3. QED BY <1>5, <2>2
<1>10. ASSUME NEW j \in 1..i PROVE memory'[w + j] = t[j]
    <2>1. CASE j = i
        <3>1. memory'[into] = memory[json] BY <1>2, <1>3 DEF MInv, TypeOK
        <3>2. QED BY <1>2, <1>7, <2>1, <3>1
    <2>2. CASE j # i
        <3>1. w + j # into /\ w + j \in Nat /\ 1 <= w + j /\ w + j <= into /\ j \in 1..(i - 1)
            BY <1>1, <1>2, <2>2
        <3>2. memory'[w + j] = memory[w + j] BY <1>3, <1>4, <3>1 DEF MInv, TypeOK
        <3>3. QED BY <1>6, <3>1, <3>2
    <2>3. QED BY <2>1, <2>2
<1>11. json' = Len(Upto(document, k)) + (i + 1) /\ into' = w + (i + 1) /\ (i + 1) - 1 = i
    BY <1>1, <1>2, <1>3, <1>8
<1>12. QED BY <1>9, <1>10, <1>11 DEF Reading, Left, w, t

\* and beyond it.
LEMMA CopiesBeyond ==
    ASSUME MInv, NEW k \in Lexemes, document' = document, IsKept(document[k + 1]),
           Reading(k, Len(document[k + 1]) + 1, TRUE)'
    PROVE  k + 1 \in 0..Len(document) /\ Reading(k + 1, 1, FALSE)'
<1> DEFINE t == document[k + 1]
           w == Len(Left(k))
<1>1. k + 1 \in 0..Len(document) /\ t \in Seq(Symbol) /\ k \in 0..Len(document) BY LexemeTypes
<1>2. /\ Len(Upto(document, k + 1)) = Len(Upto(document, k)) + Len(t)
      /\ Len(Upto(document, k)) \in Nat /\ Len(t) \in Nat
    BY LexemeLength
<1>3. Left(k + 1) = Left(k) \o t /\ Left(k) \in Seq(Symbol) /\ w \in Nat BY <1>1, LeftSteps
<1>4. Left(k)' = Left(k) /\ Left(k + 1)' = Left(k + 1) BY DEF Left
<1>5. /\ json' = Len(Upto(document, k)) + (Len(t) + 1) /\ into' = w + (Len(t) + 1)
      /\ \A j \in 1..w : memory'[j] = Left(k)[j]
      /\ \A j \in 1..((Len(t) + 1) - 1) : memory'[w + j] = t[j]
    BY <1>4 DEF Reading
<1> HIDE DEF t, w
<1>6. /\ Len(Left(k + 1)) = w + Len(t)
      /\ \A j \in 1..(w + Len(t)) :
            Left(k + 1)[j] = IF j <= w THEN Left(k)[j] ELSE t[j - w]
    BY <1>1, <1>3, ConcatProperties DEF w
<1>7. ASSUME NEW j \in 1..(w + Len(t)) PROVE memory'[j] = Left(k + 1)[j]
    <2>1. CASE j <= w
        <3>1. j \in 1..w BY <1>3, <2>1
        <3>2. QED BY <1>5, <1>6, <2>1, <3>1
    <2>2. CASE ~(j <= w)
        <3>1. j - w \in 1..((Len(t) + 1) - 1) /\ w + (j - w) = j BY <1>2, <1>3, <2>2
        <3>2. memory'[w + (j - w)] = t[j - w] BY <1>5, <3>1
        <3>3. QED BY <1>6, <2>2, <3>1, <3>2
    <2>3. QED BY <2>1, <2>2
<1>8. json' = Len(Upto(document, k + 1)) + 1 /\ into' = Len(Left(k + 1)) + 1
    BY <1>2, <1>3, <1>5, <1>6
<1>9. QED BY <1>1, <1>4, <1>6, <1>7, <1>8 DEF Reading

-----------------------------------------------------------------------------
(* The steps *)

\* What a lexeme begins with tells what it is.
LEMMA FirstSymbol ==
    ASSUME MInv, IsWhole(document), NEW k \in Lexemes
    PROVE  LET t == document[k + 1]
           IN  /\ Len(t) \in Nat /\ 1 \in 1..Len(t)
               /\ t[1] \in Blank => IsBlank(t) /\ ~IsKept(t)
               /\ t[1] = "/" => (IsOnelineComment(t) \/ IsMultilineComment(t)) /\ ~IsKept(t)
               /\ t[1] = "quote" => IsString(t)
               /\ t[1] \notin Blank \cup {"/", "quote"} => IsOther(t)
<1> DEFINE t == document[k + 1]
<1>1. Len(t) \in Nat /\ k + 1 \in 1..Len(document) BY LexemeTypes DEF Lexemes
<1>2. IsKept(t) \/ IsDropped(t) BY <1>1 DEF IsWhole
<1> HIDE DEF t
<1>3. 1 \in 1..Len(t)
    BY <1>1, <1>2
    DEF IsKept, IsDropped, IsOther, IsString, IsBlank, IsOnelineComment, IsMultilineComment
<1>4. t[1] \in Blank => IsBlank(t) /\ ~IsKept(t)
    BY <1>2 DEF IsKept, IsDropped, IsOther, IsString, IsBlank, IsOnelineComment,
                IsMultilineComment, Blank
<1>5. t[1] = "/" => (IsOnelineComment(t) \/ IsMultilineComment(t)) /\ ~IsKept(t)
    BY <1>2 DEF IsKept, IsDropped, IsOther, IsString, IsBlank, Blank
<1>6. t[1] = "quote" => IsString(t)
    BY <1>2 DEF IsKept, IsDropped, IsOther, IsBlank, IsOnelineComment,
                IsMultilineComment, Blank
<1>7. t[1] \notin Blank \cup {"/", "quote"} => IsOther(t)
    BY <1>2 DEF IsKept, IsDropped, IsString, IsBlank, IsOnelineComment, IsMultilineComment
<1>8. QED BY <1>1, <1>3, <1>4, <1>5, <1>6, <1>7 DEF t

\* At a symbol that is not the NUL the main loop stands at the first symbol of
\* a lexeme.
LEMMA AtLexeme ==
    ASSUME MInv, LexInv, IsWhole(document), pc = "text", memory[json] # "NUL"
    PROVE  \E k \in Lexemes : Reading(k, 1, FALSE) /\ memory[json] = document[k + 1][1]
<1>1. PICK k \in 0..Len(document) : Reading(k, 1, FALSE) BY DEF LexInv, Progress
<1>2. k \in Lexemes BY <1>1, ReadsSome
<1>3. 1 \in 1..Len(document[k + 1]) BY <1>2, FirstSymbol
<1>4. json = Len(Upto(document, k)) + 1 BY <1>1 DEF Reading
<1>5. memory[json] = document[k + 1][1] BY <1>2, <1>3, <1>4, ReadsLexeme
<1>6. QED BY <1>1, <1>2, <1>5

\* The main loop is back between two lexemes.
LEMMA BackInText ==
    ASSUME MInv, NEW k \in 0..Len(document), Reading(k, 1, FALSE)', pc' = "text",
           document' = document
    PROVE  Progress'
<1>1. k \in 0..Len(document') OBVIOUS
<1>2. QED BY <1>1 DEF Progress

LEMMA SkipBlankGoesOn ==
    ASSUME MInv, LexInv, IsWhole(document), SkipBlank
    PROVE  Progress'
<1>1. /\ pc = "text" /\ pc' = "text" /\ memory[json] \in Blank /\ memory[json] # "NUL"
      /\ Read(1) /\ UNCHANGED <<document, memory, into>>
    BY DEF SkipBlank, Blank
<1>2. PICK k \in Lexemes : Reading(k, 1, FALSE) /\ memory[json] = document[k + 1][1]
    BY <1>1, AtLexeme
<1>3. Len(document[k + 1]) = 1 /\ ~IsKept(document[k + 1])
    BY <1>1, <1>2, FirstSymbol DEF IsBlank
<1>4. k + 1 \in 0..Len(document) /\ Reading(k + 1, 1, FALSE)'
    BY <1>1, <1>2, <1>3, ReadsBeyond
<1>5. QED BY <1>1, <1>4, BackInText

LEMMA OpenCommentGoesOn ==
    ASSUME MInv, LexInv, IsWhole(document), OpenComment
    PROVE  Progress'
<1>1. /\ pc = "text" /\ memory[json] = "/" /\ Read(2) /\ UNCHANGED <<document, memory, into>>
      /\ \/ memory[json + 1] = "/" /\ pc' = "oneline"
         \/ memory[json + 1] = "*" /\ pc' = "multiline"
    BY DEF OpenComment, At, NextIs
<1>2. PICK k \in Lexemes : Reading(k, 1, FALSE) /\ memory[json] = document[k + 1][1]
    BY <1>1, AtLexeme
<1> DEFINE t == document[k + 1]
<1>3. Len(t) \in Nat /\ 1 \in 1..Len(t) /\ (IsOnelineComment(t) \/ IsMultilineComment(t))
    BY <1>1, <1>2, FirstSymbol
<1>4. Len(t) >= 3 BY <1>3 DEF IsOnelineComment, IsMultilineComment
<1>5. memory[json + 1] = t[2]
    <2>1. 1 + 1 \in 1..Len(t) /\ 1 + 1 = 2 BY <1>3, <1>4
    <2>2. json = Len(Upto(document, k)) + 1 BY <1>2 DEF Reading
    <2>3. QED BY <1>1, <1>3, <2>1, <2>2, ReadsLexeme
<1>6. Reading(k, 3, FALSE)'
    <2>1. Reading(k, 1 + 2, FALSE)' BY <1>1, <1>2, ReadsOn
    <2>2. 1 + 2 = 3 OBVIOUS
    <2>3. QED BY <2>1, <2>2 DEF Reading
<1>7. CASE memory[json + 1] = "/" /\ pc' = "oneline"
    <2>1. IsOnelineComment(t) /\ 3 \in 3..Len(t)
        BY <1>3, <1>4, <1>5, <1>7 DEF IsMultilineComment
    <2>2. InOneline(k, 3)' BY <1>1, <1>6, <2>1 DEF InOneline
    <2>3. k \in Lexemes' /\ 3 \in 3..Len(document'[k + 1]) BY <1>1, <2>1 DEF Lexemes
    <2>4. QED BY <1>7, <2>2, <2>3 DEF Progress
<1>8. CASE memory[json + 1] = "*" /\ pc' = "multiline"
    <2>1. IsMultilineComment(t) BY <1>3, <1>5, <1>8 DEF IsOnelineComment
    <2>2. 3 \in 3..(Len(t) - 1) /\ 3 \in 3..Len(t) BY <1>3, <2>1 DEF IsMultilineComment
    <2>3. InMultiline(k, 3)' BY <1>1, <1>6, <2>1, <2>2 DEF InMultiline
    <2>4. k \in Lexemes' /\ 3 \in 3..Len(document'[k + 1]) BY <1>1, <2>2 DEF Lexemes
    <2>5. QED BY <1>8, <2>3, <2>4 DEF Progress
<1>9. QED BY <1>1, <1>7, <1>8

\* In a text of whole lexemes every slash between two begins a comment.
LEMMA DropSlashNever ==
    ASSUME MInv, LexInv, IsWhole(document), DropSlash
    PROVE  FALSE
<1>1. pc = "text" /\ memory[json] = "/" /\ memory[json + 1] # "/" /\ memory[json + 1] # "*"
    BY DEF DropSlash, At, NextIs
<1>2. PICK k \in Lexemes : Reading(k, 1, FALSE) /\ memory[json] = document[k + 1][1]
    BY <1>1, AtLexeme
<1> DEFINE t == document[k + 1]
<1>3. Len(t) \in Nat /\ 1 \in 1..Len(t) /\ (IsOnelineComment(t) \/ IsMultilineComment(t))
    BY <1>1, <1>2, FirstSymbol
<1>4. Len(t) >= 3 /\ t[2] \in {"/", "*"} BY <1>3 DEF IsOnelineComment, IsMultilineComment
<1>5. 1 + 1 \in 1..Len(t) /\ 1 + 1 = 2 BY <1>3, <1>4
<1>6. json = Len(Upto(document, k)) + 1 BY <1>2 DEF Reading
<1>7. memory[json + 1] = t[2] BY <1>1, <1>3, <1>5, <1>6, ReadsLexeme
<1>8. QED BY <1>1, <1>4, <1>7

LEMMA OpenStringGoesOn ==
    ASSUME MInv, LexInv, IsWhole(document), OpenString
    PROVE  Progress'
<1>1. /\ pc = "text" /\ memory[json] = "quote" /\ CopyOne /\ document' = document
      /\ pc' = "string"
    BY DEF OpenString, At
<1>2. PICK k \in Lexemes : Reading(k, 1, FALSE) /\ memory[json] = document[k + 1][1]
    BY <1>1, AtLexeme
<1> DEFINE t == document[k + 1]
<1>3. Len(t) \in Nat /\ 1 \in 1..Len(t) /\ IsString(t) /\ t[1] = "quote"
    BY <1>1, <1>2, FirstSymbol
<1>4. 2 \in 2..Len(t) /\ (t[2] = "quote" => 2 = Len(t))
    <2>1. 2 \in 2..Len(t) /\ t[2 - 1] = t[1] BY <1>3 DEF IsString
    <2>2. QED BY <1>3, <2>1 DEF IsString
<1>5. Reading(k, 1 + 1, TRUE)' BY <1>1, <1>2, <1>3, CopiesOn
<1>6. InString(k, 2)'
    <2>1. 1 + 1 = 2 OBVIOUS
    <2>2. Reading(k, 2, TRUE)' BY <1>5, <2>1 DEF Reading
    <2>3. QED BY <1>1, <1>3, <1>4, <2>2 DEF InString
<1>7. k \in Lexemes' /\ 2 \in 2..Len(document'[k + 1]) BY <1>1, <1>4 DEF Lexemes
<1>8. QED BY <1>1, <1>6, <1>7 DEF Progress

LEMMA CopyOtherGoesOn ==
    ASSUME MInv, LexInv, IsWhole(document), CopyOther
    PROVE  Progress'
<1>1. /\ pc = "text" /\ memory[json] \notin Blank \cup {"/", "quote"} /\ memory[json] # "NUL"
      /\ CopyOne /\ document' = document /\ pc' = "text"
    BY DEF CopyOther
<1>2. PICK k \in Lexemes : Reading(k, 1, FALSE) /\ memory[json] = document[k + 1][1]
    BY <1>1, AtLexeme
<1>3. IsOther(document[k + 1]) BY <1>1, <1>2, FirstSymbol
<1>4. Len(document[k + 1]) = 1 /\ IsKept(document[k + 1]) BY <1>3 DEF IsOther, IsKept
<1>5. Reading(k, 1 + 1, TRUE)'
    <2>1. 1 \in 1..Len(document[k + 1]) BY <1>2, FirstSymbol
    <2>2. QED BY <1>1, <1>2, <2>1, CopiesOn
<1>6. k + 1 \in 0..Len(document) /\ Reading(k + 1, 1, FALSE)' BY <1>1, <1>4, <1>5, CopiesBeyond
<1>7. QED BY <1>1, <1>6, BackInText

LEMMA TerminateLeaves ==
    ASSUME MInv, LexInv, IsWhole(document), Terminate
    PROVE  Progress'
<1> DEFINE joined == FlattenSeq(Kept(document))
           m == memory'
<1>1. /\ pc = "text" /\ memory[json] = "NUL" /\ pc' = "done" /\ document' = document
      /\ m = [memory EXCEPT ![into] = "NUL"]
    BY DEF Terminate, At, Write
<1>2. PICK k \in 0..Len(document) : Reading(k, 1, FALSE) BY <1>1 DEF LexInv, Progress
<1>3. k = Len(document)
    <2>1. ASSUME k \in Lexemes PROVE FALSE
        <3>1. json = Len(Upto(document, k)) + 1 BY <1>2 DEF Reading
        <3>2. memory[json] \in Symbol BY <1>1, <2>1, <3>1, FirstSymbol, ReadsLexeme
        <3>3. QED BY <1>1, <3>2 DEF Symbol
    <2>2. QED BY <1>2, <2>1, LexemeTypes DEF Lexemes
<1>4. Left(k) = joined /\ joined \in Seq(Symbol) /\ Len(joined) \in Nat BY <1>3, LeftSteps
<1>5. into = Len(joined) + 1 /\ \A j \in 1..Len(joined) : memory[j] = joined[j]
    BY <1>2, <1>4 DEF Reading
<1>6. /\ into \in Position /\ into \in Nat /\ Len(Text(document)) \in Nat
      /\ \A j : j \in Position <=> j \in Nat /\ 1 <= j /\ j <= Len(Text(document))
    BY Pointers DEF MInv, TypeOK
<1>7. memory \in [Position -> Symbol \cup {"NUL"}] BY DEF MInv, TypeOK
<1> HIDE DEF joined, m
<1>8. DOMAIN m = Position /\ m[into] = "NUL" BY <1>1, <1>6, <1>7
<1>9. ASSUME NEW j \in 1..Len(joined)
      PROVE  j \in Position /\ m[j] = joined[j] /\ m[j] # "NUL" /\ m[j] \in Symbol
    <2>1. j \in Position /\ j # into BY <1>4, <1>5, <1>6
    <2>2. m[j] = memory[j] BY <1>1, <1>7, <2>1
    <2>3. joined[j] \in Symbol BY <1>4
    <2>4. QED BY <1>5, <2>1, <2>2, <2>3 DEF Symbol
<1> DEFINE Ends(e) == e \in DOMAIN m /\ m[e] = "NUL" /\ \A j \in 1..(e - 1) : m[j] # "NUL"
<1>10. Ends(into)
    <2>1. into - 1 = Len(joined) BY <1>4, <1>5
    <2>2. QED BY <1>6, <1>8, <1>9, <2>1
<1>11. ASSUME NEW e, Ends(e) PROVE e = into
    <2>1. e \in Nat /\ 1 <= e BY <1>6, <1>8, <1>11
    <2>2. ~(e < into) BY <1>4, <1>5, <1>9, <1>11, <2>1
    <2>3. ~(into < e)
        <3>1. into < e => into \in 1..(e - 1) BY <1>6, <2>1
        <3>2. QED BY <1>8, <1>11, <3>1
    <2>4. QED BY <1>6, <2>1, <2>2, <2>3
<1>12. AsString(m) = SubSeq(m, 1, into - 1)
    <2>1. into = CHOOSE e \in DOMAIN m : m[e] = "NUL" /\ \A j \in 1..(e - 1) : m[j] # "NUL"
        BY <1>10, <1>11
    <2>2. QED BY <2>1 DEF AsString
<1>13. SubSeq(m, 1, into - 1) = joined
    <2>1. into - 1 = Len(joined) /\ into - 1 \in Int BY <1>4, <1>5
    <2>2. \A j \in 1..(into - 1) : m[j] \in Symbol BY <1>9, <2>1
    <2>3. /\ SubSeq(m, 1, into - 1) \in Seq(Symbol)
          /\ Len(SubSeq(m, 1, into - 1)) = IF 1 <= into - 1 THEN (into - 1) - 1 + 1 ELSE 0
          /\ \A j \in 1..((into - 1) - 1 + 1) : SubSeq(m, 1, into - 1)[j] = m[1 + j - 1]
        BY <2>1, <2>2, SubSeqProperties
    <2>4. Len(SubSeq(m, 1, into - 1)) = Len(joined) BY <1>4, <2>1, <2>3
    <2>5. ASSUME NEW j \in 1..Len(joined) PROVE SubSeq(m, 1, into - 1)[j] = joined[j]
        <3>1. j \in 1..((into - 1) - 1 + 1) /\ 1 + j - 1 = j BY <1>4, <2>1
        <3>2. QED BY <1>9, <2>3, <3>1
    <2>6. QED BY <1>4, <2>3, <2>4, <2>5, SeqEqual
<1>14. QED BY <1>1, <1>12, <1>13 DEF Progress, joined, m

LEMMA SkipOnelineCommentGoesOn ==
    ASSUME MInv, LexInv, IsWhole(document), SkipOnelineComment
    PROVE  Progress'
<1>1. /\ pc = "oneline" /\ UNCHANGED <<document, memory, into>>
      /\ IF memory[json] = "NUL" THEN Read(0) ELSE Read(1)
      /\ pc' = IF memory[json] = "NUL" \/ memory[json] = "newline" THEN "text" ELSE pc
    BY DEF SkipOnelineComment, At
<1>2. PICK k \in Lexemes : \E i \in 3..Len(document[k + 1]) : InOneline(k, i)
    BY <1>1 DEF LexInv, Progress
<1>3. PICK i \in 3..Len(document[k + 1]) : InOneline(k, i) BY <1>2
<1> DEFINE t == document[k + 1]
<1>4. /\ Len(t) \in Nat /\ i \in 1..Len(t) /\ i \in Nat /\ IsOnelineComment(t)
      /\ Reading(k, i, FALSE) /\ t[1] = "/"
    <2>1. Len(t) \in Nat BY LexemeLength
    <2>2. IsOnelineComment(t) /\ Reading(k, i, FALSE) BY <1>3 DEF InOneline
    <2>3. t[1] = "/" BY <2>2 DEF IsOnelineComment
    <2>4. i \in 1..Len(t) /\ i \in Nat BY <2>1
    <2>5. QED BY <2>1, <2>2, <2>3, <2>4
<1>5. json = Len(Upto(document, k)) + i BY <1>4 DEF Reading
<1>6. memory[json] = t[i] /\ memory[json] # "NUL"
    BY <1>1, <1>4, <1>5, ReadsLexeme DEF Symbol
<1>7. CASE t[i] = "newline"
    <2>1. i = Len(t) BY <1>3, <1>4, <1>7 DEF IsOnelineComment
    <2>2. i + 1 = Len(t) + 1 /\ ~IsKept(t) BY <1>4, <2>1, FirstSymbol
    <2>3. k + 1 \in 0..Len(document) /\ Reading(k + 1, 1, FALSE)'
        BY <1>1, <1>4, <1>6, <2>2, ReadsBeyond
    <2>4. QED BY <1>1, <1>6, <1>7, <2>3, BackInText
<1>8. CASE t[i] # "newline"
    <2>1. i # Len(t) BY <1>3, <1>4, <1>8 DEF IsOnelineComment
    <2>2. i + 1 \in 3..Len(t) BY <1>3, <1>4, <2>1
    <2>3. Reading(k, i + 1, FALSE)' BY <1>1, <1>4, <1>6, ReadsOn
    <2>4. InOneline(k, i + 1)' BY <1>1, <1>4, <2>2, <2>3 DEF InOneline
    <2>5. k \in Lexemes' /\ i + 1 \in 3..Len(document'[k + 1]) /\ pc' = "oneline"
        BY <1>1, <1>6, <1>8, <2>2 DEF Lexemes
    <2>6. QED BY <2>4, <2>5 DEF Progress
<1>9. QED BY <1>7, <1>8

LEMMA SkipMultilineCommentGoesOn ==
    ASSUME MInv, LexInv, IsWhole(document), SkipMultilineComment
    PROVE  Progress'
<1>1. /\ pc = "multiline" /\ UNCHANGED <<document, memory, into>>
      /\ IF memory[json] = "NUL" THEN Read(0) /\ pc' = "text"
         ELSE IF memory[json] = "*" /\ memory[json + 1] = "/" THEN Read(2) /\ pc' = "text"
         ELSE Read(1) /\ pc' = pc
    BY DEF SkipMultilineComment, At, NextIs
<1>2. PICK k \in Lexemes : \E i \in 3..Len(document[k + 1]) : InMultiline(k, i)
    BY <1>1 DEF LexInv, Progress
<1>3. PICK i \in 3..Len(document[k + 1]) : InMultiline(k, i) BY <1>2
<1> DEFINE t == document[k + 1]
<1>4. /\ Len(t) \in Nat /\ i \in 3..(Len(t) - 1) /\ IsMultilineComment(t)
      /\ Reading(k, i, FALSE) /\ t[1] = "/"
    BY <1>3, LexemeLength DEF InMultiline, IsMultilineComment
<1>5. json = Len(Upto(document, k)) + i BY <1>4 DEF Reading
<1>6. i \in 1..Len(t) /\ i + 1 \in 1..Len(t) /\ i \in Nat BY <1>4
<1>7. memory[json] = t[i] /\ memory[json] # "NUL" /\ memory[json + 1] = t[i + 1]
    BY <1>1, <1>5, <1>6, ReadsLexeme DEF Symbol
<1>8. t[i] = "*" /\ t[i + 1] = "/" <=> i = Len(t) - 1 BY <1>4 DEF IsMultilineComment
<1>9. CASE i = Len(t) - 1
    <2>1. i + 2 = Len(t) + 1 /\ ~IsKept(t) BY <1>4, <1>9, FirstSymbol
    <2>2. k + 1 \in 0..Len(document) /\ Reading(k + 1, 1, FALSE)'
        BY <1>1, <1>4, <1>6, <1>7, <1>8, <1>9, <2>1, ReadsBeyond
    <2>3. QED BY <1>1, <1>7, <1>8, <1>9, <2>2, BackInText
<1>10. CASE i # Len(t) - 1
    <2>1. i + 1 \in 3..(Len(t) - 1) /\ i + 1 \in 3..Len(t) BY <1>4, <1>10
    <2>2. Reading(k, i + 1, FALSE)' BY <1>1, <1>4, <1>6, <1>7, <1>8, <1>10, ReadsOn
    <2>3. InMultiline(k, i + 1)' BY <1>1, <1>4, <2>1, <2>2 DEF InMultiline
    <2>4. k \in Lexemes' /\ i + 1 \in 3..Len(document'[k + 1]) /\ pc' = "multiline"
        BY <1>1, <1>7, <1>8, <1>10, <2>1 DEF Lexemes
    <2>5. QED BY <2>3, <2>4 DEF Progress
<1>11. QED BY <1>9, <1>10

\* In a string the call stands at one of its symbols, a quote only at the end.
LEMMA AtStringSymbol ==
    ASSUME MInv, LexInv, IsWhole(document), pc = "string"
    PROVE  \E k \in Lexemes : \E i \in 2..Len(document[k + 1]) :
             LET t == document[k + 1]
             IN  /\ InString(k, i) /\ Len(t) \in Nat /\ i \in 1..Len(t) /\ Reading(k, i, TRUE)
                 /\ memory[json] = t[i] /\ t[i] # "NUL" /\ (t[i] = "quote" <=> i = Len(t))
                 /\ i # Len(t) => i + 1 \in 2..Len(t) /\ memory[json + 1] = t[i + 1]
<1>1. PICK k \in Lexemes : \E i \in 2..Len(document[k + 1]) : InString(k, i)
    BY DEF LexInv, Progress
<1>2. PICK i \in 2..Len(document[k + 1]) : InString(k, i) BY <1>1
<1> DEFINE t == document[k + 1]
<1>3. Len(t) \in Nat /\ IsString(t) /\ Reading(k, i, TRUE) /\ (t[i] = "quote" => i = Len(t))
    BY <1>2, LexemeLength DEF InString
<1>4. i \in 1..Len(t) /\ (i # Len(t) => i + 1 \in 2..Len(t) /\ i + 1 \in 1..Len(t)) BY <1>3
<1>5. json = Len(Upto(document, k)) + i BY <1>3 DEF Reading
<1>6. /\ memory[json] = t[i] /\ t[i] # "NUL"
      /\ i + 1 \in 1..Len(t) => memory[json + 1] = t[i + 1]
    BY <1>4, <1>5, ReadsLexeme DEF Symbol
<1>7. i = Len(t) => t[i] = "quote" BY <1>3 DEF IsString
<1>8. QED BY <1>2, <1>3, <1>4, <1>6, <1>7

LEMMA CloseStringGoesOn ==
    ASSUME MInv, LexInv, IsWhole(document), CloseString
    PROVE  Progress'
<1>1. /\ pc = "string" /\ pc' = "text" /\ document' = document
      /\ memory[json] = "quote" \/ memory[json] = "NUL"
      /\ memory[json] = "quote" => CopyOne
    BY DEF CloseString, At
<1>2. PICK k \in Lexemes : \E i \in 2..Len(document[k + 1]) :
        LET t == document[k + 1]
        IN  /\ InString(k, i) /\ Len(t) \in Nat /\ i \in 1..Len(t) /\ Reading(k, i, TRUE)
            /\ memory[json] = t[i] /\ t[i] # "NUL" /\ (t[i] = "quote" <=> i = Len(t))
    BY <1>1, AtStringSymbol
<1> DEFINE t == document[k + 1]
<1>3. PICK i \in 2..Len(t) :
            /\ InString(k, i) /\ Len(t) \in Nat /\ i \in 1..Len(t) /\ Reading(k, i, TRUE)
            /\ memory[json] = t[i] /\ t[i] # "NUL" /\ (t[i] = "quote" <=> i = Len(t))
    BY <1>2
<1>4. i = Len(t) /\ CopyOne BY <1>1, <1>3
<1>5. Reading(k, Len(t) + 1, TRUE)' BY <1>1, <1>3, <1>4, CopiesOn
<1>6. IsKept(t) BY <1>3 DEF InString, IsKept
<1>7. k + 1 \in 0..Len(document) /\ Reading(k + 1, 1, FALSE)'
    BY <1>1, <1>5, <1>6, CopiesBeyond
<1>8. QED BY <1>1, <1>7, BackInText

LEMMA CopyStringSymbolGoesOn ==
    ASSUME MInv, LexInv, IsWhole(document), CopyStringSymbol
    PROVE  Progress'
<1>1. /\ pc = "string" /\ pc' = "string" /\ document' = document /\ CopyOne
      /\ memory[json] # "quote"
      /\ ~(memory[json] = "backslash" /\ memory[json + 1] = "quote")
    BY DEF CopyStringSymbol, At, NextIs, IsEscapedQuote
<1>2. PICK k \in Lexemes : \E i \in 2..Len(document[k + 1]) :
        LET t == document[k + 1]
        IN  /\ InString(k, i) /\ Len(t) \in Nat /\ i \in 1..Len(t) /\ Reading(k, i, TRUE)
            /\ memory[json] = t[i] /\ t[i] # "NUL" /\ (t[i] = "quote" <=> i = Len(t))
            /\ i # Len(t) => i + 1 \in 2..Len(t) /\ memory[json + 1] = t[i + 1]
    BY <1>1, AtStringSymbol
<1> DEFINE t == document[k + 1]
<1>3. PICK i \in 2..Len(t) :
            /\ InString(k, i) /\ Len(t) \in Nat /\ i \in 1..Len(t) /\ Reading(k, i, TRUE)
            /\ memory[json] = t[i] /\ t[i] # "NUL" /\ (t[i] = "quote" <=> i = Len(t))
            /\ i # Len(t) => i + 1 \in 2..Len(t) /\ memory[json + 1] = t[i + 1]
    BY <1>2
<1>4. i # Len(t) /\ i + 1 \in 2..Len(t) /\ memory[json + 1] = t[i + 1] BY <1>1, <1>3
<1>5. t[i + 1] = "quote" => i + 1 = Len(t)
    <2>1. (i + 1) - 1 = i /\ IsString(t) BY <1>3 DEF InString
    <2>2. QED BY <1>1, <1>3, <1>4, <2>1 DEF IsString
<1>6. Reading(k, i + 1, TRUE)' BY <1>1, <1>3, CopiesOn
<1>7. InString(k, i + 1)' BY <1>1, <1>3, <1>4, <1>5, <1>6 DEF InString
<1>8. k \in Lexemes' /\ i + 1 \in 2..Len(document'[k + 1]) BY <1>1, <1>4 DEF Lexemes
<1>9. QED BY <1>1, <1>7, <1>8 DEF Progress

LEMMA CopyEscapedQuoteGoesOn ==
    ASSUME MInv, LexInv, IsWhole(document), CopyEscapedQuote
    PROVE  Progress'
<1>1. /\ pc = "string" /\ pc' = "string" /\ document' = document
      /\ memory[json] = "backslash" /\ memory[json + 1] = "quote"
      /\ memory' = [memory EXCEPT ![into] = memory[json], ![into + 1] = memory[json + 1]]
      /\ json' = json + 2 /\ into' = into + 2
    BY DEF CopyEscapedQuote, At, NextIs, IsEscapedQuote, Read
<1>2. PICK k \in Lexemes : \E i \in 2..Len(document[k + 1]) :
        LET t == document[k + 1]
        IN  /\ InString(k, i) /\ Len(t) \in Nat /\ i \in 1..Len(t) /\ Reading(k, i, TRUE)
            /\ memory[json] = t[i] /\ t[i] # "NUL" /\ (t[i] = "quote" <=> i = Len(t))
            /\ i # Len(t) => i + 1 \in 2..Len(t) /\ memory[json + 1] = t[i + 1]
    BY <1>1, AtStringSymbol
<1> DEFINE t == document[k + 1]
           w == Len(Left(k))
<1>3. PICK i \in 2..Len(t) :
            /\ InString(k, i) /\ Len(t) \in Nat /\ i \in 1..Len(t) /\ Reading(k, i, TRUE)
            /\ memory[json] = t[i] /\ t[i] # "NUL" /\ (t[i] = "quote" <=> i = Len(t))
            /\ i # Len(t) => i + 1 \in 2..Len(t) /\ memory[json + 1] = t[i + 1]
    BY <1>2
<1>4. t[i] = "backslash" /\ t[i + 1] = "quote" /\ i + 1 \in 2..Len(t) /\ IsString(t)
    BY <1>1, <1>3 DEF InString
<1>5. i + 1 # Len(t)
    <2>1. (i + 1) - 1 = i BY <1>3
    <2>2. QED BY <1>4, <2>1 DEF IsString
<1>6. i + 2 \in 2..Len(t) /\ (t[i + 2] = "quote" => i + 2 = Len(t))
    <2>1. i + 2 \in 2..Len(t) /\ (i + 2) - 1 = i + 1 BY <1>3, <1>4, <1>5
    <2>2. QED BY <1>4, <2>1 DEF IsString
<1>7. /\ w \in Nat /\ Len(Upto(document, k)) \in Nat /\ i \in Nat
      /\ json = Len(Upto(document, k)) + i /\ into = w + i
      /\ \A j \in 1..w : memory[j] = Left(k)[j]
      /\ \A j \in 1..(i - 1) : memory[w + j] = t[j]
    BY <1>3, LeftSteps, LexemeTypes, LexemeLength DEF Reading
<1>8. \A j \in Nat : 1 <= j /\ j <= into + 1 => j \in Position
    <2>1. json + 1 \in Position BY <1>1, LookAheadInside
    <2>2. /\ Len(Text(document)) \in Nat /\ into \in Nat /\ json \in Nat /\ into <= json
          /\ \A p : p \in Position <=> p \in Nat /\ 1 <= p /\ p <= Len(Text(document))
        BY Pointers
    <2>3. json + 1 <= Len(Text(document)) BY <2>1, <2>2
    <2>4. QED BY <2>2, <2>3
<1>9. memory \in [Position -> Symbol \cup {"NUL"}] BY DEF MInv, TypeOK
<1> HIDE DEF t, w
<1>10. ASSUME NEW j \in Nat, 1 <= j, j <= w + i + 1
       PROVE  memory'[j] = IF j = w + i THEN "backslash" ELSE IF j = w + i + 1 THEN "quote"
                           ELSE memory[j]
    <2>1. j \in Position /\ into \in Position /\ into + 1 \in Position
        BY <1>3, <1>7, <1>8, <1>10
    <2>2. QED BY SMTT(30), <1>1, <1>7, <1>9, <2>1
<1>11. ASSUME NEW j \in 1..w PROVE memory'[j] = Left(k)[j]
    <2>1. j \in Nat /\ 1 <= j /\ j <= w + i + 1 /\ j # w + i /\ j # w + i + 1 BY <1>3, <1>7
    <2>2. QED BY <1>7, <1>10, <2>1
<1>12. ASSUME NEW j \in 1..((i + 2) - 1) PROVE memory'[w + j] = t[j]
    <2>1. w + j \in Nat /\ 1 <= w + j /\ w + j <= w + i + 1 BY <1>7
    <2>2. CASE j = i BY <1>4, <1>7, <1>10, <2>1, <2>2
    <2>3. CASE j = i + 1 BY <1>4, <1>7, <1>10, <2>1, <2>3
    <2>4. CASE j # i /\ j # i + 1
        <3>1. j \in 1..(i - 1) /\ w + j # w + i /\ w + j # w + i + 1 BY <1>7, <2>4
        <3>2. QED BY <1>7, <1>10, <2>1, <3>1
    <2>5. QED BY <2>2, <2>3, <2>4
<1>13. json' = Len(Upto(document, k)) + (i + 2) /\ into' = w + (i + 2) BY <1>1, <1>7
<1>14. Reading(k, i + 2, TRUE)'
    BY <1>1, <1>11, <1>12, <1>13 DEF Reading, Left, w, t
<1>15. InString(k, i + 2)' BY <1>1, <1>4, <1>6, <1>14 DEF InString, t
<1>16. k \in Lexemes' /\ i + 2 \in 2..Len(document'[k + 1]) BY <1>1, <1>6 DEF Lexemes, t
<1>17. QED BY <1>1, <1>15, <1>16 DEF Progress

-----------------------------------------------------------------------------

\* The first step has nothing behind it.
LEMMA InitProgress == MInv /\ Init => Progress
<1>1. SUFFICES ASSUME MInv, Init PROVE Progress OBVIOUS
<1>2. pc = "text" /\ json = 1 /\ into = 1 BY <1>1 DEF Init
<1>3. document \in Seq(Seq(Symbol)) /\ 0 \in 0..Len(document) BY <1>1, LexemeTypes
<1>4. Upto(document, 0) = <<>> /\ Left(0) = <<>> BY <1>1, <1>3, UptoSteps, LeftSteps
<1>5. Reading(0, 1, FALSE) BY <1>2, <1>4 DEF Reading
<1>6. QED BY <1>2, <1>3, <1>5 DEF Progress

\* Every step keeps to the lexemes.
LEMMA NextLexInv == MInv /\ LexInv /\ [Next]_vars => LexInv'
<1>1. SUFFICES ASSUME MInv, LexInv, [Next]_vars, IsWhole(document)' PROVE Progress'
    BY DEF LexInv
<1>2. document' = document
    BY <1>1 DEF Next, MainLoop, InnerLoops, vars, SkipBlank, OpenComment, DropSlash,
                OpenString, CopyOther, Terminate, SkipOnelineComment, SkipMultilineComment,
                CloseString, CopyStringSymbol, CopyEscapedQuote
<1>3. IsWhole(document) BY <1>1, <1>2
<1>4. CASE SkipBlank BY <1>1, <1>3, <1>4, SkipBlankGoesOn
<1>5. CASE OpenComment BY <1>1, <1>3, <1>5, OpenCommentGoesOn
<1>6. CASE DropSlash BY <1>1, <1>3, <1>6, DropSlashNever
<1>7. CASE OpenString BY <1>1, <1>3, <1>7, OpenStringGoesOn
<1>8. CASE CopyOther BY <1>1, <1>3, <1>8, CopyOtherGoesOn
<1>9. CASE Terminate BY <1>1, <1>3, <1>9, TerminateLeaves
<1>10. CASE SkipOnelineComment BY <1>1, <1>3, <1>10, SkipOnelineCommentGoesOn
<1>11. CASE SkipMultilineComment BY <1>1, <1>3, <1>11, SkipMultilineCommentGoesOn
<1>12. CASE CloseString BY <1>1, <1>3, <1>12, CloseStringGoesOn
<1>13. CASE CopyStringSymbol BY <1>1, <1>3, <1>13, CopyStringSymbolGoesOn
<1>14. CASE CopyEscapedQuote BY <1>1, <1>3, <1>14, CopyEscapedQuoteGoesOn
<1>15. CASE UNCHANGED vars
    BY <1>1, <1>3, <1>15 DEF LexInv, Progress, InOneline, InMultiline, InString, Reading,
                             Left, Lexemes, vars
<1>16. QED
    BY <1>1, <1>4, <1>5, <1>6, <1>7, <1>8, <1>9, <1>10, <1>11, <1>12, <1>13, <1>14, <1>15
    DEF Next, MainLoop, InnerLoops

\* cJSON_Minify takes out exactly the blanks and comments of every text of
\* whole lexemes, of any length.
THEOREM MinifyLeavesTheRest == Spec => []OnlyBlanksAndCommentsGo
<1>1. Init => MInv /\ LexInv BY InitMInv, InitProgress DEF LexInv
<1>2. MInv /\ LexInv /\ [Next]_vars => (MInv /\ LexInv)' BY NextMInv, NextLexInv
<1>3. MInv /\ LexInv => OnlyBlanksAndCommentsGo
    BY DEF LexInv, Progress, OnlyBlanksAndCommentsGo
<1>4. QED BY <1>1, <1>2, <1>3, PTL DEF Spec
=============================================================================
