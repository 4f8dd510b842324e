----------------------------- MODULE LeastNumber -----------------------------
(***************************************************************************)
(* Induction and recursion on the natural numbers for the other proofs.    *)
(* The library's theorems take a predicate or a definition as a parameter; *)
(* here the predicate is a set, and the principle comes from the theorem   *)
(* that strict inclusion of finite sets is well-founded.                   *)
(***************************************************************************)
EXTENDS Integers, FiniteSetTheorems, TLAPS

\* A set of naturals that is not empty has a least element: the shortest of
\* the intervals 0..k that its elements k bound.
LEMMA LeastElement ==
    ASSUME NEW S \in SUBSET Nat, S # {}
    PROVE  \E k \in S : \A j \in S : k <= j
<1> DEFINE F == {0..k : k \in S}
<1>1. ASSUME NEW k \in S PROVE 0..k \in FiniteSubsetsOf(Nat)
  <2>1. IsFiniteSet(0..k)
    BY FS_Interval
  <2> QED BY <2>1 DEF FiniteSubsetsOf
<1>2. F \subseteq FiniteSubsetsOf(Nat) /\ F # {}
  BY <1>1
<1>3. IsWellFoundedOn(StrictSubsetOrdering(Nat), FiniteSubsetsOf(Nat))
  BY FS_StrictSubsetOrderingWellFounded
<1> HIDE DEF F
<1>4. PICK x \in F : \A y \in F : ~ (<<y, x>> \in StrictSubsetOrdering(Nat))
  BY <1>2, <1>3, WFMin
<1>5. PICK k \in S : x = 0..k
  BY DEF F
<1>6. ASSUME NEW j \in S, j < k PROVE FALSE
  <2>1. 0..j \in F
    BY DEF F
  <2>2. <<0..j, x>> \in (SUBSET Nat) \X (SUBSET Nat)
    BY <1>5
  <2>3. <<0..j, x>>[1] = 0..j /\ <<0..j, x>>[2] = x
    OBVIOUS
  <2>4. ~ (<<0..j, x>> \in StrictSubsetOrdering(Nat))
    BY <2>1, <1>4
  <2>5. ~ (0..j \subseteq x /\ 0..j # x)
    BY <2>2, <2>3, <2>4, Zenon DEF StrictSubsetOrdering
  <2>6. 0..j \subseteq 0..k /\ k \in 0..k /\ k \notin 0..j
    BY <1>6
  <2> QED BY <2>5, <2>6, <1>5
<1> QED BY <1>6

\* A set that contains 0 and the successor of every number in it contains
\* every number.
LEMMA SetInduction ==
    ASSUME NEW S, 0 \in S, \A n \in Nat : n \in S => n + 1 \in S
    PROVE  \A n \in Nat : n \in S
<1> DEFINE C == Nat \ S
<1> SUFFICES ASSUME C # {} PROVE FALSE
  OBVIOUS
<1>1. C \in SUBSET Nat
  OBVIOUS
<1> HIDE DEF C
<1>2. PICK k \in C : \A j \in C : k <= j
  BY <1>1, LeastElement
<1>3. k \in Nat /\ k \notin S /\ k # 0
  BY DEF C
<1>4. k - 1 \in Nat /\ ~ (k <= k - 1)
  BY <1>3
<1>5. k - 1 \in S
  BY <1>2, <1>4 DEF C
<1> QED BY <1>3, <1>4, <1>5

-----------------------------------------------------------------------------
(* Recursion.  A recursive definition of a function f[k \in 0..n] from f[k - 1]  *)
(* is a CHOOSE, which says something only once there is such a function.  The    *)
(* steps are functions too, since a lemma cannot have an operator as parameter.  *)

Iterates(f, b, step, n) ==
    f[0] = b /\ \A k \in 1..n : f[k] = step[k][f[k - 1]]

LEMMA IterateExists ==
    ASSUME NEW S, NEW n \in Nat, NEW b \in S, NEW step \in [1..n -> [S -> S]]
    PROVE  \E f \in [0..n -> S] : Iterates(f, b, step, n)
<1> DEFINE G == {m \in Nat : m <= n => \E f \in [0..m -> S] : Iterates(f, b, step, m)}
<1>1. 0 \in G
  <2>1. [k \in 0..0 |-> b] \in [0..0 -> S] /\ Iterates([k \in 0..0 |-> b], b, step, 0)
    BY DEF Iterates
  <2> QED BY <2>1
<1>2. ASSUME NEW m \in Nat, m \in G PROVE m + 1 \in G
  <2> SUFFICES ASSUME m + 1 <= n
               PROVE  \E g \in [0..(m + 1) -> S] : Iterates(g, b, step, m + 1)
    OBVIOUS
  <2>1. PICK f \in [0..m -> S] : Iterates(f, b, step, m)
    BY <1>2
  <2> DEFINE g == [k \in 0..(m + 1) |-> IF k <= m THEN f[k] ELSE step[m + 1][f[m]]]
  <2>2. m \in 0..m /\ m + 1 \in 1..n /\ f[m] \in S
    OBVIOUS
  <2>3. step[m + 1] \in [S -> S]
    BY <2>2
  <2>4. step[m + 1][f[m]] \in S
    BY <2>2, <2>3
  <2>5. g \in [0..(m + 1) -> S]
    BY <2>4
  <2>6. \A k \in 1..(m + 1) : g[k] = step[k][g[k - 1]]
    <3> SUFFICES ASSUME NEW k \in 1..(m + 1) PROVE g[k] = step[k][g[k - 1]]
      OBVIOUS
    <3>1. k - 1 \in 0..m /\ k - 1 \in 0..(m + 1) /\ k \in 0..(m + 1)
      OBVIOUS
    <3>2. g[k - 1] = f[k - 1]
      BY <3>1
    <3>3. CASE k <= m
      <4>1. g[k] = f[k] /\ k \in 1..m
        BY <3>1, <3>3
      <4> QED BY <2>1, <3>2, <4>1 DEF Iterates
    <3>4. CASE k = m + 1
      <4>1. g[k] = step[m + 1][f[m]] /\ k - 1 = m
        BY <3>1, <3>4
      <4> QED BY <3>2, <3>4, <4>1
    <3> QED BY <3>3, <3>4
  <2>7. g[0] = b
    BY <2>1 DEF Iterates
  <2> QED BY <2>5, <2>6, <2>7 DEF Iterates
<1> HIDE DEF G
<1>3. \A m \in Nat : m \in G
  BY <1>1, <1>2, SetInduction
<1>4. n \in G /\ n <= n
  BY <1>3
<1> QED BY <1>4 DEF G

\* What holds at first and after a step when it held before holds always.
LEMMA LoopInvariant ==
    ASSUME NEW S, NEW n \in Nat, NEW g, g[0] \in S,
           \A k \in 1..n : g[k - 1] \in S => g[k] \in S
    PROVE  \A k \in 0..n : g[k] \in S
<1> DEFINE G == {m \in Nat : m <= n => g[m] \in S}
<1>1. 0 \in G
  OBVIOUS
<1>2. ASSUME NEW m \in Nat, m \in G PROVE m + 1 \in G
  <2>1. m + 1 <= n => m + 1 \in 1..n /\ (m + 1) - 1 = m /\ m <= n
    OBVIOUS
  <2> QED BY <1>2, <2>1
<1> HIDE DEF G
<1>3. \A m \in Nat : m \in G
  BY <1>1, <1>2, SetInduction
<1> QED BY <1>3 DEF G
=============================================================================
