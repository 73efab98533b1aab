--------------------------- MODULE DataInduction ---------------------------
(***************************************************************************)
(* Induction over data for provers that do not instantiate the operator    *)
(* parameter of NatInduction: a predicate becomes the set of the numbers   *)
(* it holds for, and the step of a recursive definition a function.        *)
(***************************************************************************)
EXTENDS Integers, WellFoundedInduction, TLAPS

LEMMA LessThanRelation ==
    \E R : IsWellFoundedOn(R, Nat) /\ \A x, y \in Nat : x < y => <<x, y>> \in R
<1> DEFINE R == OpToRel(<, Nat)
<1>1. IsWellFoundedOn(R, Nat)
  BY NatLessThanWellFounded
<1>2. \A x, y \in Nat : x < y => <<x, y>> \in R
  BY DEF OpToRel
<1>3. QED
  BY <1>1, <1>2

\* A set of numbers has a least one.
LEMMA LeastNumber ==
    ASSUME NEW T \in SUBSET Nat, T # {}
    PROVE  \E m \in T : \A k \in T : m <= k
<1>1. PICK R : IsWellFoundedOn(R, Nat) /\ \A x, y \in Nat : x < y => <<x, y>> \in R
  BY LessThanRelation
<1>2. \E m \in T : \A k \in T : <<k, m>> \notin R
  <2>1. IsWellFoundedOn(R, Nat) /\ T \subseteq Nat
    BY <1>1
  <2>2. QED
    BY <2>1, WFMin, Zenon
<1>3. \E m \in T : \A k \in T : ~ (k < m)
  BY <1>1, <1>2
<1>4. QED
  BY <1>3

\* A set of numbers up to a bound has a greatest one.
LEMMA GreatestNumber ==
    ASSUME NEW N \in Nat, NEW T \in SUBSET (0..N), T # {}
    PROVE  \E m \in T : \A k \in T : k <= m
<1> DEFINE U == {n \in Nat : n <= N /\ N - n \in T}
<1>1. U \in SUBSET Nat /\ U # {}
  <2>1. PICK k \in T : TRUE
    OBVIOUS
  <2>2. N - k \in U
    BY <2>1
  <2>3. QED
    BY <2>2
<1>2. PICK u \in U : \A n \in U : u <= n
  <2> HIDE DEF U
  <2>1. QED
    BY <1>1, LeastNumber
<1>3. ASSUME NEW k \in T PROVE k <= N - u
  <2>1. N - k \in U
    OBVIOUS
  <2>2. QED
    BY <1>2, <2>1
<1>4. QED
  BY <1>3

\* A set that contains 0 and the successor of each of its numbers has them all.
LEMMA InductiveSet ==
    ASSUME NEW S, 0 \in S, \A n \in S \cap Nat : n + 1 \in S
    PROVE  Nat \subseteq S
<1> SUFFICES ASSUME Nat \ S # {} PROVE FALSE
  OBVIOUS
<1>1. PICK m \in Nat \ S : \A k \in Nat \ S : m <= k
  BY LeastNumber
<1>2. m - 1 \in Nat /\ m - 1 \in S
  BY <1>1
<1>3. QED
  BY <1>1, <1>2

\* The same for the numbers up to a bound.
LEMMA InductiveRange ==
    ASSUME NEW N \in Nat, NEW S, 0 \in S, \A n \in S : n \in 0..(N - 1) => n + 1 \in S
    PROVE  0..N \subseteq S /\ N \in S
<1> DEFINE T == {n \in Nat : n <= N => n \in S}
<1>1. 0 \in T /\ \A n \in T \cap Nat : n + 1 \in T
  OBVIOUS
<1>2. Nat \subseteq T
  <2> HIDE DEF T
  <2>1. QED
    BY <1>1, InductiveSet
<1>3. QED
  BY <1>2

\* f begins with init, and step makes each value out of the one before.
Iterates(f, n, init, step) == f[0] = init /\ \A k \in 1..n : f[k] = step[k][f[k - 1]]

\* There is such a function: what a recursive definition needs to mean anything.
LEMMA IterationExists ==
    ASSUME NEW N \in Nat, NEW V, NEW init \in V, NEW step \in [1..N -> [V -> V]]
    PROVE  \E f \in [0..N -> V] : Iterates(f, N, init, step)
<1> DEFINE S == {n \in 0..N : \E f \in [0..n -> V] : Iterates(f, n, init, step)}
<1>1. 0 \in S
  <2>1. /\ [k \in 0..0 |-> init] \in [0..0 -> V]
        /\ Iterates([k \in 0..0 |-> init], 0, init, step)
    BY DEF Iterates
  <2>2. QED
    BY <2>1
<1>2. ASSUME NEW n \in S, n \in 0..(N - 1) PROVE n + 1 \in S
  <2>1. PICK f \in [0..n -> V] : Iterates(f, n, init, step)
    BY <1>2
  <2> DEFINE g == [k \in 0..(n + 1) |-> IF k = n + 1 THEN step[n + 1][f[n]] ELSE f[k]]
  <2>2. g \in [0..(n + 1) -> V]
    <3>1. f[n] \in V /\ step[n + 1] \in [V -> V]
      BY <1>2
    <3>2. step[n + 1][f[n]] \in V
      BY <3>1
    <3>3. QED
      BY <1>2, <3>2
  <2>3. Iterates(g, n + 1, init, step)
    <3>1. g[0] = init
      BY <1>2, <2>1 DEF Iterates
    <3>2. ASSUME NEW k \in 1..(n + 1) PROVE g[k] = step[k][g[k - 1]]
      <4>1. CASE k = n + 1
        <5>1. n \in 0..(n + 1) /\ n # n + 1 /\ k - 1 = n /\ k \in 0..(n + 1)
          BY <1>2, <4>1
        <5>2. g[k - 1] = f[n] /\ g[k] = step[n + 1][f[n]]
          BY <5>1
        <5>3. QED
          BY <4>1, <5>2
      <4>2. CASE k \in 1..n
        BY <1>2, <2>1, <4>2 DEF Iterates
      <4>3. QED
        BY <1>2, <4>1, <4>2
    <3>3. QED
      BY <3>1, <3>2 DEF Iterates
  <2> HIDE DEF g
  <2>4. \E h \in [0..(n + 1) -> V] : Iterates(h, n + 1, init, step)
    BY <2>2, <2>3
  <2>5. QED
    BY <1>2, <2>4
<1>3. N \in S
  <2> HIDE DEF S
  <2>1. 0..N \subseteq S
    BY <1>1, <1>2, InductiveRange
  <2>2. QED
    BY <2>1
<1>4. QED
  BY <1>3

=============================================================================
