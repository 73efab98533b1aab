----------------------------- MODULE TextProofs -----------------------------
(***************************************************************************)
(* Theorems about the routines of TextRoutines that walk along a string,   *)
(* for inputs of any length over any characters.                           *)
(***************************************************************************)
EXTENDS TextRoutines, DataInduction, SequenceTheorems

-----------------------------------------------------------------------------
(* FlattenSeq. *)

\* ConcatAssociative, quantified.
LEMMA Regrouped ==
    ASSUME NEW V PROVE \A s, t, u \in Seq(V) : (s \o t) \o u = s \o (t \o u)
  BY ConcatAssociative

\* f holds what the first n sequences of seqs are together.
Joins(f, seqs) ==
    f[0] = <<>> /\ \A n \in 0..(Len(seqs) - 1) : f[n + 1] = f[n] \o seqs[n + 1]

\* The recursive definition of FlattenSeq means what it says.
LEMMA FlattenDefined ==
    ASSUME NEW V, NEW seqs \in Seq(Seq(V))
    PROVE  \E f \in [0..Len(seqs) -> Seq(V)] : Joins(f, seqs) /\ FlattenSeq(seqs) = f[Len(seqs)]
<1> DEFINE step == [k \in 1..Len(seqs) |-> [v \in Seq(V) |-> v \o seqs[k]]]
           Is(f) == f = [k \in 1..Len(seqs) |-> IF k = 1 THEN seqs[k] ELSE f[k - 1] \o seqs[k]]
<1>1. Len(seqs) \in Nat /\ \A k \in 1..Len(seqs) : seqs[k] \in Seq(V)
  OBVIOUS
<1>2. step \in [1..Len(seqs) -> [Seq(V) -> Seq(V)]] /\ <<>> \in Seq(V)
  <2>1. \A k \in 1..Len(seqs), v \in Seq(V) : v \o seqs[k] \in Seq(V)
    BY <1>1, ConcatProperties
  <2>2. QED
    BY <2>1
<1>3. PICK f \in [0..Len(seqs) -> Seq(V)] : Iterates(f, Len(seqs), <<>>, step)
  <2> HIDE DEF step
  <2>1. QED
    BY <1>1, <1>2, IterationExists
<1>4. Joins(f, seqs)
  <2>1. f[0] = <<>>
    BY <1>3 DEF Iterates
  <2>2. ASSUME NEW n \in 0..(Len(seqs) - 1) PROVE f[n + 1] = f[n] \o seqs[n + 1]
    <3>1. PICK k \in 1..Len(seqs) : k = n + 1 /\ k - 1 = n
      BY <1>1
    <3>2. f[k] = step[k][f[n]]
      BY <1>3, <3>1 DEF Iterates
    <3>3. step[k][f[n]] = f[n] \o seqs[k]
      <4>1. n \in 0..Len(seqs)
        BY <1>1
      <4>2. f[n] \in Seq(V)
        BY <4>1, Zenon
      <4>3. QED
        BY <4>2
    <3>4. QED
      BY <3>1, <3>2, <3>3
  <2>3. QED
    BY <2>1, <2>2 DEF Joins
<1>5. CASE Len(seqs) = 0
  <2>1. FlattenSeq(seqs) = <<>>
    BY <1>5 DEF FlattenSeq
  <2>2. QED
    BY <1>4, <1>5, <2>1 DEF Joins
<1>6. CASE Len(seqs) # 0
  <2>1. f[1] = seqs[1]
    <3>1. 0 \in 0..(Len(seqs) - 1) /\ 0 + 1 = 1 /\ 1 \in 1..Len(seqs)
      BY <1>1, <1>6
    <3>2. f[1] = <<>> \o seqs[1]
      BY <1>4, <3>1 DEF Joins
    <3>3. QED
      BY <1>1, <3>1, <3>2, ConcatEmptySeq
  <2>2. ASSUME NEW g, g = [k \in 1..Len(seqs) |-> f[k]] PROVE Is(g)
    <3>1. ASSUME NEW k \in 1..Len(seqs), k # 1 PROVE f[k] = g[k - 1] \o seqs[k]
      <4>1. PICK n \in 0..(Len(seqs) - 1) : k = n + 1 /\ k - 1 = n /\ n \in 1..Len(seqs)
        BY <1>1, <3>1
      <4>2. f[n + 1] = f[n] \o seqs[n + 1] /\ g[n] = f[n]
        BY <1>4, <2>2, <4>1 DEF Joins
      <4>3. QED
        BY <4>1, <4>2
    <3>2. QED
      BY <2>1, <2>2, <3>1
  <2>3. PICK g : Is(g) /\ FlattenSeq(seqs) = g[Len(seqs)]
    <3>1. FlattenSeq(seqs) = (CHOOSE g : Is(g))[Len(seqs)]
      BY <1>6 DEF FlattenSeq
    <3>2. \E g : Is(g)
      <4> HIDE DEF Is
      <4>1. QED
        BY <2>2
    <3> HIDE DEF Is
    <3>3. QED
      BY <3>1, <3>2, Zenon
  <2> DEFINE S == {k \in 0..Len(seqs) : k = 0 \/ g[k] = f[k]}
  <2>4. ASSUME NEW n \in S, n \in 0..(Len(seqs) - 1) PROVE n + 1 \in S
    <3>1. PICK k \in 1..Len(seqs) : k = n + 1 /\ k - 1 = n
      BY <1>1, <2>4
    <3>2. g[k] = IF k = 1 THEN seqs[k] ELSE g[k - 1] \o seqs[k]
      BY <2>3
    <3>3. f[n + 1] = f[n] \o seqs[n + 1]
      BY <1>4, <2>4 DEF Joins
    <3>4. g[k] = f[k]
      <4>1. CASE k = 1
        BY <2>1, <3>2, <4>1
      <4>2. CASE k # 1
        <5>1. g[n] = f[n]
          BY <2>4, <3>1, <4>2
        <5>2. QED
          BY <3>1, <3>2, <3>3, <4>2, <5>1
      <4>3. QED
        BY <4>1, <4>2
    <3>5. QED
      BY <3>1, <3>4
  <2>5. Len(seqs) \in S
    <3>1. 0 \in S
      BY <1>1
    <3> HIDE DEF S
    <3>2. QED
      BY <1>1, <2>4, <3>1, InductiveRange
  <2>6. QED
    BY <1>4, <1>6, <2>3, <2>5
<1>7. QED
  BY <1>5, <1>6

LEMMA FlattenNone == FlattenSeq(<<>>) = <<>>
  BY DEF FlattenSeq

LEMMA FlattenType ==
    ASSUME NEW V, NEW seqs \in Seq(Seq(V)) PROVE FlattenSeq(seqs) \in Seq(V)
<1>1. Len(seqs) \in 0..Len(seqs)
  OBVIOUS
<1>2. QED
  BY <1>1, FlattenDefined

\* What is true of each part, and of two strings together when it is of both, is
\* true of the whole.
LEMMA FlattenClosed ==
    ASSUME NEW V, NEW Q \in SUBSET Seq(V), NEW seqs \in Seq(Q), <<>> \in Q,
           \A a, b \in Q : a \o b \in Q
    PROVE  FlattenSeq(seqs) \in Q
<1>1. seqs \in Seq(Seq(V)) /\ Len(seqs) \in Nat /\ \A k \in 1..Len(seqs) : seqs[k] \in Q
  OBVIOUS
<1>2. PICK f \in [0..Len(seqs) -> Seq(V)] : Joins(f, seqs) /\ FlattenSeq(seqs) = f[Len(seqs)]
  BY <1>1, FlattenDefined
<1> DEFINE S == {k \in 0..Len(seqs) : f[k] \in Q}
<1>3. 0 \in S
  BY <1>1, <1>2 DEF Joins
<1>4. ASSUME NEW n \in S, n \in 0..(Len(seqs) - 1) PROVE n + 1 \in S
  <2>1. n + 1 \in 1..Len(seqs) /\ n + 1 \in 0..Len(seqs)
    BY <1>1, <1>4
  <2>2. f[n + 1] = f[n] \o seqs[n + 1]
    BY <1>2, <1>4 DEF Joins
  <2>3. f[n] \in Q /\ seqs[n + 1] \in Q
    BY <1>1, <1>4, <2>1
  <2>4. QED
    BY <2>1, <2>2, <2>3
<1>5. Len(seqs) \in S
  <2> HIDE DEF S
  <2>1. QED
    BY <1>1, <1>3, <1>4, InductiveRange
<1>6. QED
  BY <1>2, <1>5

\* One part more behind, and one part more in front.
LEMMA FlattenAppend ==
    ASSUME NEW V, NEW seqs \in Seq(Seq(V)), NEW s \in Seq(V)
    PROVE  FlattenSeq(Append(seqs, s)) = FlattenSeq(seqs) \o s
<1> DEFINE longer == Append(seqs, s)
<1>1. /\ longer \in Seq(Seq(V)) /\ Len(longer) = Len(seqs) + 1 /\ Len(seqs) \in Nat
      /\ longer[Len(seqs) + 1] = s /\ \A n \in 1..Len(seqs) : longer[n] = seqs[n]
  BY AppendProperties
<1> HIDE DEF longer
<1>2. PICK f \in [0..Len(seqs) -> Seq(V)] : Joins(f, seqs) /\ FlattenSeq(seqs) = f[Len(seqs)]
  BY FlattenDefined
<1>3. PICK g \in [0..Len(longer) -> Seq(V)] : Joins(g, longer) /\ FlattenSeq(longer) = g[Len(longer)]
  BY <1>1, FlattenDefined
<1> DEFINE S == {k \in 0..Len(seqs) : g[k] = f[k]}
<1>4. 0 \in S
  BY <1>1, <1>2, <1>3 DEF Joins
<1>5. ASSUME NEW n \in S, n \in 0..(Len(seqs) - 1) PROVE n + 1 \in S
  <2>1. n + 1 \in 1..Len(seqs) /\ n \in 0..(Len(longer) - 1) /\ longer[n + 1] = seqs[n + 1]
    BY <1>1, <1>5
  <2>2. f[n + 1] = f[n] \o seqs[n + 1]
    BY <1>2, <1>5 DEF Joins
  <2>3. g[n + 1] = g[n] \o longer[n + 1]
    BY <1>3, <2>1 DEF Joins
  <2>4. g[n] = f[n] /\ n + 1 \in 0..Len(seqs)
    BY <1>1, <1>5
  <2>5. g[n + 1] = f[n + 1]
    BY <2>1, <2>2, <2>3, <2>4
  <2>6. QED
    BY <2>4, <2>5
<1>6. Len(seqs) \in S
  <2> HIDE DEF S
  <2>1. QED
    BY <1>1, <1>4, <1>5, InductiveRange
<1>7. Len(seqs) \in 0..(Len(longer) - 1)
  BY <1>1
<1>8. g[Len(seqs) + 1] = g[Len(seqs)] \o longer[Len(seqs) + 1]
  BY <1>3, <1>7 DEF Joins
<1>9. QED
  BY <1>1, <1>2, <1>3, <1>6, <1>8 DEF longer

LEMMA FlattenCons ==
    ASSUME NEW V, NEW seqs \in Seq(Seq(V)), NEW s \in Seq(V)
    PROVE  FlattenSeq(<<s>> \o seqs) = s \o FlattenSeq(seqs)
<1> DEFINE longer == <<s>> \o seqs
<1>1. <<s>> \in Seq(Seq(V)) /\ Len(<<s>>) = 1 /\ <<s>>[1] = s
  OBVIOUS
<1>2. /\ longer \in Seq(Seq(V)) /\ Len(longer) = Len(seqs) + 1 /\ Len(seqs) \in Nat
      /\ longer[1] = s
  <2>1. /\ longer \in Seq(Seq(V)) /\ Len(longer) = 1 + Len(seqs)
        /\ \A k \in 1..(1 + Len(seqs)) : longer[k] = IF k <= 1 THEN <<s>>[k] ELSE seqs[k - 1]
    BY <1>1, ConcatProperties
  <2>2. QED
    BY <1>1, <2>1
<1>3. ASSUME NEW n \in 1..Len(seqs) PROVE longer[n + 1] = seqs[n]
  <2>1. PICK k \in 1..(1 + Len(seqs)) : k = n + 1 /\ k - 1 = n /\ ~ (k <= 1)
    BY <1>2
  <2>2. longer[k] = IF k <= 1 THEN <<s>>[k] ELSE seqs[k - 1]
    BY <1>1, ConcatProperties
  <2>3. QED
    BY <2>1, <2>2
<1> HIDE DEF longer
<1>4. PICK f \in [0..Len(seqs) -> Seq(V)] : Joins(f, seqs) /\ FlattenSeq(seqs) = f[Len(seqs)]
  BY FlattenDefined
<1>5. PICK g \in [0..Len(longer) -> Seq(V)] : Joins(g, longer) /\ FlattenSeq(longer) = g[Len(longer)]
  BY <1>2, FlattenDefined
<1> DEFINE S == {k \in 0..Len(seqs) : g[k + 1] = s \o f[k]}
<1>6. 0 \in S
  <2>1. 0 \in 0..(Len(longer) - 1) /\ 0 + 1 = 1
    BY <1>2
  <2>2. g[0 + 1] = g[0] \o longer[0 + 1]
    BY <1>5, <2>1 DEF Joins
  <2>3. g[0] = <<>> /\ f[0] = <<>>
    BY <1>4, <1>5 DEF Joins
  <2>4. <<>> \o s = s /\ s \o <<>> = s
    BY ConcatEmptySeq
  <2>5. QED
    BY <1>2, <2>1, <2>2, <2>3, <2>4
<1>7. ASSUME NEW n \in S, n \in 0..(Len(seqs) - 1) PROVE n + 1 \in S
  <2>1. /\ n + 1 \in 1..Len(seqs) /\ n + 1 \in 0..(Len(longer) - 1) /\ n + 1 \in 0..Len(seqs)
        /\ n \in 0..Len(seqs)
    BY <1>2, <1>7
  <2>2. f[n + 1] = f[n] \o seqs[n + 1]
    BY <1>4, <1>7 DEF Joins
  <2>3. g[(n + 1) + 1] = g[n + 1] \o longer[(n + 1) + 1]
    BY <1>5, <2>1 DEF Joins
  <2>4. longer[(n + 1) + 1] = seqs[n + 1]
    BY <1>3, <2>1
  <2>5. f[n] \in Seq(V) /\ seqs[n + 1] \in Seq(V)
    <3>1. f[n] \in Seq(V)
      BY <2>1, Zenon
    <3>2. seqs[n + 1] \in Seq(V)
      BY <2>1, ElementOfSeq
    <3>3. QED
      BY <3>1, <3>2
  <2>6. (s \o f[n]) \o seqs[n + 1] = s \o (f[n] \o seqs[n + 1])
    <3>1. \A x, y \in Seq(V) : (s \o x) \o y = s \o (x \o y)
      <4> HIDE DEF S
      <4>1. QED
        BY Regrouped
    <3>2. QED
      BY <2>5, <3>1
  <2>7. QED
    BY <1>7, <2>1, <2>2, <2>3, <2>4, <2>6
<1>8. Len(seqs) \in S
  <2> HIDE DEF S
  <2>1. QED
    BY <1>2, <1>6, <1>7, InductiveRange
<1>9. QED
  BY <1>2, <1>4, <1>5, <1>8 DEF longer

\* The same for the parts up to a place and from a place on.
LEMMA FlattenUpTo ==
    ASSUME NEW V, NEW seqs \in Seq(Seq(V)), NEW n \in 0..(Len(seqs) - 1)
    PROVE  FlattenSeq(SubSeq(seqs, 1, n + 1)) = FlattenSeq(SubSeq(seqs, 1, n)) \o seqs[n + 1]
<1>1. PICK k \in 1..Len(seqs) : k = n + 1 /\ k - 1 = n
  OBVIOUS
<1>2. SubSeq(seqs, 1, n) \in Seq(Seq(V)) /\ seqs[k] \in Seq(V)
  <2>1. \A j \in 1..n : seqs[j] \in Seq(V)
    OBVIOUS
  <2>2. QED
    BY <1>1, <2>1, SubSeqProperties
<1>3. SubSeq(seqs, 1, k) = SubSeq(seqs, 1, n) \o <<seqs[k]>>
  <2>1. 1 \in 1..Len(seqs)
    BY <1>1
  <2>2. SubSeq(seqs, 1, k) = SubSeq(seqs, 1, k - 1) \o <<seqs[k]>>
    BY <1>1, <2>1, SubSeqRecursiveSecond
  <2>3. QED
    BY <1>1, <2>2
<1>4. SubSeq(seqs, 1, n) \o <<seqs[k]>> = Append(SubSeq(seqs, 1, n), seqs[k])
  BY <1>2, AppendIsConcat
<1>5. QED
  BY <1>1, <1>2, <1>3, <1>4, FlattenAppend

LEMMA FlattenFrom ==
    ASSUME NEW V, NEW seqs \in Seq(Seq(V)), NEW n \in 1..Len(seqs)
    PROVE  FlattenSeq(SubSeq(seqs, n, Len(seqs)))
               = seqs[n] \o FlattenSeq(SubSeq(seqs, n + 1, Len(seqs)))
<1>1. Len(seqs) \in n..Len(seqs) /\ n + 1 \in Int /\ Len(seqs) \in Int
  OBVIOUS
<1>2. SubSeq(seqs, n, Len(seqs)) = <<seqs[n]>> \o SubSeq(seqs, n + 1, Len(seqs))
  BY <1>1, SubSeqRecursiveFirst
<1>3. SubSeq(seqs, n + 1, Len(seqs)) \in Seq(Seq(V)) /\ seqs[n] \in Seq(V)
  <2>1. \A j \in (n + 1)..Len(seqs) : seqs[j] \in Seq(V)
    OBVIOUS
  <2>2. QED
    BY <1>1, <2>1, SubSeqProperties
<1>4. QED
  BY <1>2, <1>3, FlattenCons

\* The places of a \o b around the first of b.
LEMMA Around ==
    ASSUME NEW V, NEW a \in Seq(V), NEW b \in Seq(V), b # <<>>
    PROVE  /\ Len(a) + 1 \in 1..Len(a \o b)
           /\ (a \o b)[Len(a) + 1] = b[1]
           /\ SubSeq(a \o b, 1, Len(a)) = a
           /\ SubSeq(a \o b, Len(a) + 2, Len(a \o b)) = SubSeq(b, 2, Len(b))
<1>0. Len(a) \in Nat /\ Len(b) \in Nat /\ Len(b) >= 1
  OBVIOUS
<1>1. /\ a \o b \in Seq(V) /\ Len(a \o b) = Len(a) + Len(b)
      /\ Len(a) \in Nat /\ Len(b) \in Nat /\ Len(b) >= 1
  BY <1>0, ConcatProperties
<1>2. (a \o b)[Len(a) + 1] = b[1]
  <2>1. PICK k \in 1..(Len(a) + Len(b)) : k = Len(a) + 1 /\ ~ (k <= Len(a)) /\ k - Len(a) = 1
    BY <1>1
  <2>2. (a \o b)[k] = IF k <= Len(a) THEN a[k] ELSE b[k - Len(a)]
    BY ConcatProperties
  <2>3. QED
    BY <2>1, <2>2
<1>3. SubSeq(a \o b, 1, Len(a)) = a
  <2>1. CASE Len(a) = 0
    <3>1. SubSeq(a \o b, 1, Len(a)) = <<>> /\ a = <<>>
      BY <2>1, <1>1, SubSeqEmpty
    <3>2. QED
      BY <3>1
  <2>2. CASE Len(a) # 0
    <3>1. 1 \in 1..Len(a) /\ Len(a) \in 1..Len(a)
      BY <1>1, <2>2
    <3>2. QED
      BY <3>1, SubSeqOfConcat1, SubSeqFull
  <2>3. QED
    BY <2>1, <2>2
<1>4. SubSeq(a \o b, Len(a) + 2, Len(a \o b)) = SubSeq(b, 2, Len(b))
  <2>1. CASE Len(b) = 1
    <3>1. Len(a \o b) < Len(a) + 2 /\ Len(b) < 2
      BY <1>1, <2>1
    <3>2. QED
      BY <1>1, <3>1, SubSeqEmpty
  <2>2. CASE Len(b) >= 2
    <3>1. /\ Len(a) + 2 \in (Len(a) + 1)..(Len(a) + Len(b))
          /\ Len(a) + Len(b) \in (Len(a) + 1)..(Len(a) + Len(b))
          /\ (Len(a) + 2) - Len(a) = 2 /\ (Len(a) + Len(b)) - Len(a) = Len(b)
      <4>1. \A x, y \in Nat : y >= 2 =>
                /\ x + 2 \in (x + 1)..(x + y) /\ x + y \in (x + 1)..(x + y)
                /\ (x + 2) - x = 2 /\ (x + y) - x = y
        OBVIOUS
      <4>2. Len(a) \in Nat /\ Len(b) \in Nat /\ Len(b) >= 2
        BY <1>0, <2>2
      <4>3. QED
        BY <4>1, <4>2, Zenon
    <3>2. SubSeq(a \o b, Len(a) + 2, Len(a) + Len(b))
              = SubSeq(b, (Len(a) + 2) - Len(a), (Len(a) + Len(b)) - Len(a))
      BY <3>1, SubSeqOfConcat2
    <3>3. QED
      BY <1>1, <3>1, <3>2
  <2>3. \A n \in Nat : n >= 1 => n = 1 \/ n >= 2
    OBVIOUS
  <2>4. QED
    BY <1>0, <2>1, <2>2, <2>3
<1>5. QED
  BY <1>1, <1>2, <1>3, <1>4

\* The parts up to a place, as one string.
Upto(seqs, k) == FlattenSeq(SubSeq(seqs, 1, k))

LEMMA UptoFacts ==
    ASSUME NEW V, NEW seqs \in Seq(Seq(V))
    PROVE  /\ \A k \in 0..Len(seqs) : Upto(seqs, k) \in Seq(V)
           /\ Upto(seqs, 0) = <<>>
           /\ Upto(seqs, Len(seqs)) = FlattenSeq(seqs)
           /\ \A k \in 0..(Len(seqs) - 1) : Upto(seqs, k + 1) = Upto(seqs, k) \o seqs[k + 1]
<1>1. ASSUME NEW k \in 0..Len(seqs) PROVE Upto(seqs, k) \in Seq(V)
  <2>1. \A j \in 1..k : seqs[j] \in Seq(V)
    OBVIOUS
  <2>2. SubSeq(seqs, 1, k) \in Seq(Seq(V))
    BY <2>1, SubSeqProperties
  <2>3. QED
    BY <2>2, FlattenType DEF Upto
<1>2. Upto(seqs, 0) = <<>>
  <2>1. SubSeq(seqs, 1, 0) = <<>>
    BY SubSeqEmpty
  <2>2. QED
    BY <2>1, FlattenNone DEF Upto
<1>3. Upto(seqs, Len(seqs)) = FlattenSeq(seqs)
  BY SubSeqFull DEF Upto
<1>4. ASSUME NEW k \in 0..(Len(seqs) - 1) PROVE Upto(seqs, k + 1) = Upto(seqs, k) \o seqs[k + 1]
  BY FlattenUpTo DEF Upto
<1>5. QED
  BY <1>1, <1>2, <1>3, <1>4

\* What is left of a string from a place on.
Rest(s, k) == SubSeq(s, k + 1, Len(s))

LEMMA RestFacts ==
    ASSUME NEW V, NEW s \in Seq(V)
    PROVE  /\ \A k \in 0..Len(s) : Rest(s, k) \in Seq(V)
           /\ Rest(s, 0) = s
           /\ Rest(s, Len(s)) = <<>>
           /\ \A k \in 0..(Len(s) - 1) :
                  /\ Rest(s, k) # <<>> /\ Rest(s, k)[1] = s[k + 1]
                  /\ SubSeq(Rest(s, k), 2, Len(Rest(s, k))) = Rest(s, k + 1)
                  /\ Rest(s, k) = <<s[k + 1]>> \o Rest(s, k + 1)
<1>1. ASSUME NEW k \in 0..Len(s) PROVE Rest(s, k) \in Seq(V)
  <2>1. \A j \in (k + 1)..Len(s) : s[j] \in V
    OBVIOUS
  <2>2. QED
    BY <2>1, SubSeqProperties DEF Rest
<1>2. Rest(s, 0) = s
  <2>1. 0 + 1 = 1
    OBVIOUS
  <2>2. QED
    BY <2>1, SubSeqFull DEF Rest
<1>3. Rest(s, Len(s)) = <<>>
  <2>1. Len(s) + 1 \in Int /\ Len(s) \in Int /\ Len(s) < Len(s) + 1
    OBVIOUS
  <2>2. QED
    BY <2>1, SubSeqEmpty DEF Rest
<1>4. ASSUME NEW k \in 0..(Len(s) - 1)
      PROVE  /\ Rest(s, k) # <<>> /\ Rest(s, k)[1] = s[k + 1]
             /\ SubSeq(Rest(s, k), 2, Len(Rest(s, k))) = Rest(s, k + 1)
             /\ Rest(s, k) = <<s[k + 1]>> \o Rest(s, k + 1)
  <2>1. PICK m \in 1..Len(s) : m = k + 1
    OBVIOUS
  <2>2. Len(s) \in m..Len(s) /\ k \in 0..Len(s)
    BY <2>1
  <2>3. Rest(s, k) = <<s[m]>> \o Rest(s, m)
    BY <2>1, <2>2, SubSeqRecursiveFirst DEF Rest
  <2>4. Head(Rest(s, k)) = s[m] /\ Tail(Rest(s, k)) = Rest(s, m)
    BY <2>1, <2>2, HeadTailOfSubSeq DEF Rest
  <2>5. Rest(s, k) \in Seq(V) /\ Rest(s, k) # <<>>
    <3>1. Rest(s, k) \in Seq(V) /\ Rest(s, m) \in Seq(V) /\ <<s[m]>> \in Seq(V) /\ <<s[m]>> # <<>>
      BY <1>1, <2>1, <2>2
    <3>2. QED
      BY <2>3, <3>1, ConcatEqualIffEmpty
  <2>6. Tail(Rest(s, k)) = SubSeq(Rest(s, k), 2, Len(Rest(s, k)))
    BY <2>5, TailIsSubSeq
  <2>7. Head(Rest(s, k)) = Rest(s, k)[1]
    BY <2>5
  <2>8. QED
    BY <2>1, <2>3, <2>4, <2>5, <2>6, <2>7
<1>5. QED
  BY <1>1, <1>2, <1>3, <1>4

\* The string of a routine whose first part has been changed, seen at the place
\* where that part ends.
LEMMA UrlAtPlace ==
    ASSUME NEW V, NEW s \in Seq(V), NEW p \in Seq(V), NEW k \in 0..(Len(s) - 1),
           url = p \o Rest(s, k), i = Len(p) + 1
    PROVE  /\ url \in Seq(V) /\ i \in 1..Len(url) /\ url[i] = s[k + 1]
           /\ SubSeq(url, 1, i - 1) = p
           /\ SubSeq(url, i + 1, Len(url)) = Rest(s, k + 1)
           /\ url = (p \o <<s[k + 1]>>) \o Rest(s, k + 1)
<1>1. /\ Rest(s, k) \in Seq(V) /\ Rest(s, k) # <<>> /\ Rest(s, k)[1] = s[k + 1]
      /\ SubSeq(Rest(s, k), 2, Len(Rest(s, k))) = Rest(s, k + 1)
      /\ Rest(s, k) = <<s[k + 1]>> \o Rest(s, k + 1)
      /\ Rest(s, k + 1) \in Seq(V)
  <2>1. k \in 0..Len(s) /\ k + 1 \in 0..Len(s)
    OBVIOUS
  <2>2. QED
    BY <2>1, RestFacts
<1>2. /\ Len(p) + 1 \in 1..Len(url)
      /\ url[Len(p) + 1] = Rest(s, k)[1]
      /\ SubSeq(url, 1, Len(p)) = p
      /\ SubSeq(url, Len(p) + 2, Len(url)) = SubSeq(Rest(s, k), 2, Len(Rest(s, k)))
  BY <1>1, Around
<1>3. url \in Seq(V)
  BY <1>1, ConcatProperties
<1>4. i - 1 = Len(p) /\ i + 1 = Len(p) + 2
  OBVIOUS
<1>5. url = (p \o <<s[k + 1]>>) \o Rest(s, k + 1)
  <2>1. <<s[k + 1]>> \in Seq(V)
    OBVIOUS
  <2>2. (p \o <<s[k + 1]>>) \o Rest(s, k + 1) = p \o (<<s[k + 1]>> \o Rest(s, k + 1))
    BY <1>1, <2>1, Regrouped
  <2>3. QED
    BY <1>1, <2>2
<1>6. QED
  BY <1>1, <1>2, <1>3, <1>4, <1>5

LEMMA MapIsSeq ==
    ASSUME NEW V, NEW n \in Nat, NEW g \in [1..n -> V]
    PROVE  g \in Seq(V) /\ Len(g) = n
  BY SeqDef

-----------------------------------------------------------------------------
(* The input does not change. *)

InputKept == routine \in Routines /\ units \in Inputs[routine]

\* The routine and its input are those of the beginning throughout.
LEMMA InputStays == TextSpec => []InputKept
<1>1. TextInit => InputKept
  BY DEF TextInit, InputKept
<1>2. InputKept /\ [TextNext]_textVars => InputKept'
  <2> SUFFICES ASSUME [TextNext]_textVars PROVE UNCHANGED <<routine, units>>
    BY DEF InputKept
  <2>1. CASE TextNext
    BY <2>1 DEF TextNext, urldecode, Next, finish, plus, other, escaped, beyond, Goes,
       escape_html_specials, escape_quotes, get_content_type, parse_host_header,
       parse_request_line, parse_header, Runs
  <2>2. CASE UNCHANGED textVars
    BY <2>2 DEF textVars, vars
  <2>3. QED
    BY <2>1, <2>2
<1>3. QED
  BY <1>1, <1>2, PTL DEF TextSpec

\* What strings are made of.  (The provers do not know that a literal is a STRING.)
Chars == STRING \cup {"&", "l", "t", "g", "a", "m", "p", ";", Quote, Backslash}

LEMMA InputIsText == InputKept => input \in Seq(Chars)
<1> SUFFICES ASSUME InputKept PROVE input \in Seq(Chars)
  OBVIOUS
<1>1. units \in Seq(Seq(STRING))
  BY InputsAssumption DEF InputKept
<1>2. input \in Seq(STRING)
  BY <1>1, FlattenType DEF input
<1>3. QED
  BY <1>2, SeqMonotonic DEF Chars

\* One routine runs in a behaviour.
LEMMA RoutineActs ==
    ASSUME TextNext
    PROVE  /\ routine = "escape_html_specials" => escape_html_specials
           /\ routine = "escape_quotes" => escape_quotes
           /\ routine = "get_content_type" => get_content_type
           /\ routine = "urldecode" => urldecode
  BY DEF TextNext, urldecode, escape_html_specials, escape_quotes, get_content_type,
     parse_host_header, parse_request_line, parse_header, Runs

-----------------------------------------------------------------------------
(* escape_html_specials. *)

HtmlPieces == [k \in DOMAIN input |->
                  IF input[k] \in DOMAIN Entities THEN Entities[input[k]] ELSE <<input[k]>>]

\* Before pos the string is what its characters up to some place stand for, from
\* pos on it is as it was; in the last round pos passes the terminating NUL.
HtmlInv ==
    routine = "escape_html_specials" =>
        /\ status = "running" =>
               \/ \E k \in 0..Len(input) :
                      /\ url = Upto(HtmlPieces, k) \o Rest(input, k)
                      /\ i = Len(Upto(HtmlPieces, k)) + 1
               \/ url = FlattenSeq(HtmlPieces) /\ i = Len(url) + 2
        /\ status = "done" => result = FlattenSeq(HtmlPieces)

LEMMA HtmlPiecesAreText ==
    ASSUME input \in Seq(Chars)
    PROVE  /\ HtmlPieces \in Seq(Seq(Chars)) /\ Len(HtmlPieces) = Len(input)
           /\ \A k \in 1..Len(input) : HtmlPieces[k] =
                  IF input[k] \in DOMAIN Entities THEN Entities[input[k]] ELSE <<input[k]>>
<1>1. \A c \in DOMAIN Entities : Entities[c] \in Seq(Chars)
  <2>1. /\ DOMAIN Entities = {"<", ">", "&"} /\ Entities["<"] = <<"&", "l", "t", ";">>
        /\ Entities[">"] = <<"&", "g", "t", ";">> /\ Entities["&"] = <<"&", "a", "m", "p", ";">>
    BY DEF Entities
  <2>2. /\ <<"&", "l", "t", ";">> \in Seq(Chars) /\ <<"&", "g", "t", ";">> \in Seq(Chars)
        /\ <<"&", "a", "m", "p", ";">> \in Seq(Chars)
    <3>1. /\ "&" \in Chars /\ "l" \in Chars /\ "t" \in Chars /\ ";" \in Chars
          /\ "g" \in Chars /\ "a" \in Chars /\ "m" \in Chars /\ "p" \in Chars
      BY Zenon DEF Chars
    <3>2. /\ \A a, b, c, d \in Chars : <<a, b, c, d>> \in Seq(Chars)
          /\ \A a, b, c, d, e \in Chars : <<a, b, c, d, e>> \in Seq(Chars)
      OBVIOUS
    <3>3. QED
      BY <3>1, <3>2, Zenon
  <2>3. QED
    BY <2>1, <2>2
<1>2. Len(input) \in Nat /\ DOMAIN input = 1..Len(input)
  OBVIOUS
<1>3. HtmlPieces \in [1..Len(input) -> Seq(Chars)]
  <2>1. \A k \in 1..Len(input) : <<input[k]>> \in Seq(Chars)
    OBVIOUS
  <2>2. QED
    BY <1>1, <1>2, <2>1 DEF HtmlPieces
<1>4. HtmlPieces \in Seq(Seq(Chars)) /\ Len(HtmlPieces) = Len(input)
  BY <1>2, <1>3, MapIsSeq
<1>5. QED
  BY <1>2, <1>4 DEF HtmlPieces

LEMMA HtmlStarts ==
    ASSUME InputKept, TextInit PROVE HtmlInv
<1> SUFFICES ASSUME routine = "escape_html_specials"
             PROVE  \E k \in 0..Len(input) :
                        /\ url = Upto(HtmlPieces, k) \o Rest(input, k)
                        /\ i = Len(Upto(HtmlPieces, k)) + 1
  BY DEF HtmlInv, TextInit
<1>1. input \in Seq(Chars) /\ Len(input) \in Nat
  BY InputIsText
<1>2. Upto(HtmlPieces, 0) = <<>> /\ Rest(input, 0) = input
  BY <1>1, HtmlPiecesAreText, UptoFacts, RestFacts
<1>3. url = input /\ i = 1
  BY DEF TextInit, builds
<1>4. <<>> \o input = input /\ Len(<<>>) + 1 = 1
  BY <1>1, ConcatEmptySeq
<1>5. url = Upto(HtmlPieces, 0) \o Rest(input, 0) /\ i = Len(Upto(HtmlPieces, 0)) + 1
  BY <1>2, <1>3, <1>4
<1>6. 0 \in 0..Len(input)
  BY <1>1
<1>7. QED
  BY <1>5, <1>6, Zenon

LEMMA HtmlGoesOn ==
    ASSUME InputKept, HtmlInv, routine = "escape_html_specials", escape_html_specials
    PROVE  HtmlInv'
<1>1. input \in Seq(Chars) /\ Len(input) \in Nat
  BY InputIsText
<1>2. /\ HtmlPieces \in Seq(Seq(Chars)) /\ Len(HtmlPieces) = Len(input)
      /\ \A k \in 1..Len(input) : HtmlPieces[k] =
             IF input[k] \in DOMAIN Entities THEN Entities[input[k]] ELSE <<input[k]>>
  BY <1>1, HtmlPiecesAreText
<1>3. /\ status = "running" /\ UNCHANGED <<units, routine>>
      /\ \/ i <= Len(url) + 1 /\ html_step /\ UNCHANGED <<status, last_dot, result>>
         \/ i > Len(url) + 1 /\ Returns(url)
  BY DEF escape_html_specials, Runs
<1>4. input' = input /\ HtmlPieces' = HtmlPieces
  BY <1>3 DEF input, HtmlPieces
<1>5. ASSUME NEW k \in 0..(Len(input) - 1), url = Upto(HtmlPieces, k) \o Rest(input, k),
             i = Len(Upto(HtmlPieces, k)) + 1
      PROVE  /\ UNCHANGED status
             /\ url' = Upto(HtmlPieces, k + 1) \o Rest(input, k + 1)
             /\ i' = Len(Upto(HtmlPieces, k + 1)) + 1
  <2> DEFINE p == Upto(HtmlPieces, k)
             c == input[k + 1]
  <2>1. /\ p \in Seq(Chars) /\ Upto(HtmlPieces, k + 1) = p \o HtmlPieces[k + 1]
        /\ HtmlPieces[k + 1] = IF c \in DOMAIN Entities THEN Entities[c] ELSE <<c>>
    <3>1. k \in 0..Len(input) /\ k + 1 \in 1..Len(input)
      BY <1>1
    <3>2. QED
      BY <1>2, <3>1, UptoFacts
  <2>2. Len(p) \in Nat /\ HtmlPieces[k + 1] \in Seq(Chars)
    BY <1>1, <1>2, <2>1
  <2>3. Len(p \o HtmlPieces[k + 1]) = Len(p) + Len(HtmlPieces[k + 1])
    BY <2>1, <2>2, ConcatProperties
  <2> HIDE DEF p
  <2>4. /\ url \in Seq(Chars) /\ i \in 1..Len(url) /\ url[i] = c
        /\ SubSeq(url, 1, i - 1) = p
        /\ SubSeq(url, i + 1, Len(url)) = Rest(input, k + 1)
        /\ url = (p \o <<c>>) \o Rest(input, k + 1)
    <3>1. url = p \o Rest(input, k) /\ i = Len(p) + 1
      BY <1>5 DEF p
    <3>2. p \in Seq(Chars) /\ input \in Seq(Chars)
      BY <1>1, <2>1
    <3>3. QED
      BY <3>1, <3>2, UrlAtPlace
  <2>5. html_step /\ UNCHANGED status
    <3>1. ~ (i > Len(url) + 1)
      BY <2>4
    <3>2. QED
      BY <1>3, <3>1
  <2>6. i = Len(p) + 1
    BY <1>5 DEF p
  <2>7. CASE c \in DOMAIN Entities
    <3>1. special
      BY <2>4, <2>7 DEF special
    <3>2. url' = (p \o Entities[c]) \o Rest(input, k + 1) /\ i' = i + Len(Entities[c])
      BY <2>4, <2>5, <3>1 DEF html_step
    <3>3. Entities[c] = HtmlPieces[k + 1]
      BY <2>1, <2>7
    <3>4. i' = (Len(p) + 1) + Len(HtmlPieces[k + 1]) /\ Len(HtmlPieces[k + 1]) \in Nat
      BY <2>2, <2>6, <3>2, <3>3
    <3>5. i' = (Len(p) + Len(HtmlPieces[k + 1])) + 1
      <4>1. \A x, y \in Nat : (x + 1) + y = (x + y) + 1
        OBVIOUS
      <4>2. QED
        BY <2>2, <3>4, <4>1, Zenon
    <3>6. QED
      BY <2>1, <2>3, <2>5, <3>2, <3>3, <3>5
  <2>8. CASE c \notin DOMAIN Entities
    <3>1. ~ special
      BY <2>4, <2>8 DEF special
    <3>2. url' = url /\ i' = i + 1
      BY <2>5, <3>1 DEF html_step
    <3>3. HtmlPieces[k + 1] = <<c>> /\ Len(<<c>>) = 1
      BY <2>1, <2>8
    <3>4. i' = (Len(p) + Len(HtmlPieces[k + 1])) + 1
      BY <2>2, <2>6, <3>2, <3>3
    <3>5. QED
      BY <2>1, <2>3, <2>4, <2>5, <3>2, <3>3, <3>4
  <2>9. QED
    BY <2>7, <2>8
<1>6. ASSUME url = Upto(HtmlPieces, Len(input)) \o Rest(input, Len(input)),
             i = Len(Upto(HtmlPieces, Len(input))) + 1
      PROVE  UNCHANGED status /\ url' = FlattenSeq(HtmlPieces) /\ i' = Len(url') + 2
  <2>1. Upto(HtmlPieces, Len(input)) = FlattenSeq(HtmlPieces) /\ Rest(input, Len(input)) = <<>>
    BY <1>1, <1>2, UptoFacts, RestFacts
  <2>2. FlattenSeq(HtmlPieces) \in Seq(Chars)
    BY <1>2, FlattenType
  <2>3. url = FlattenSeq(HtmlPieces) /\ i = Len(url) + 1 /\ Len(url) \in Nat
    BY <1>6, <2>1, <2>2, ConcatEmptySeq
  <2>4. ~ (i <= Len(url)) /\ ~ (i > Len(url) + 1)
    BY <2>3
  <2>5. html_step /\ UNCHANGED status /\ ~ special
    BY <1>3, <2>4 DEF special
  <2>6. url' = url /\ i' = i + 1
    BY <2>5 DEF html_step
  <2>7. QED
    BY <2>3, <2>5, <2>6
<1>7. ASSUME url = FlattenSeq(HtmlPieces), i = Len(url) + 2
      PROVE  status' = "done" /\ result' = FlattenSeq(HtmlPieces)
  <2>1. Len(url) \in Nat
    BY <1>2, <1>7, FlattenType
  <2>2. ~ (i <= Len(url) + 1)
    BY <1>7, <2>1
  <2>3. QED
    BY <1>3, <1>7, <2>2 DEF Returns
<1>8. CASE \E k \in 0..Len(input) : /\ url = Upto(HtmlPieces, k) \o Rest(input, k)
                                    /\ i = Len(Upto(HtmlPieces, k)) + 1
  <2>1. PICK k \in 0..Len(input) : /\ url = Upto(HtmlPieces, k) \o Rest(input, k)
                                   /\ i = Len(Upto(HtmlPieces, k)) + 1
    BY <1>8
  <2>2. CASE k = Len(input)
    BY <1>3, <1>4, <1>6, <2>1, <2>2 DEF HtmlInv
  <2>3. CASE k # Len(input)
    <3>1. k \in 0..(Len(input) - 1) /\ k + 1 \in 0..Len(input)
      BY <1>1, <2>3
    <3>2. /\ UNCHANGED status
          /\ url' = Upto(HtmlPieces, k + 1) \o Rest(input, k + 1)
          /\ i' = Len(Upto(HtmlPieces, k + 1)) + 1
      BY <1>5, <2>1, <3>1
    <3>3. QED
      BY <1>3, <1>4, <3>1, <3>2 DEF HtmlInv
  <2>4. QED
    BY <2>2, <2>3
<1>9. CASE url = FlattenSeq(HtmlPieces) /\ i = Len(url) + 2
  BY <1>3, <1>4, <1>7, <1>9 DEF HtmlInv
<1>10. QED
  BY <1>3, <1>8, <1>9 DEF HtmlInv

\* escape_html_specials turns every special character into its entity and changes
\* nothing else, in a string of any length: HtmlEscaped.
THEOREM HtmlCorrect == TextSpec => []HtmlEscaped
<1>1. InputKept /\ TextInit => HtmlInv
  BY HtmlStarts
<1>2. InputKept /\ HtmlInv /\ [TextNext]_textVars => HtmlInv'
  <2> SUFFICES ASSUME InputKept, HtmlInv, [TextNext]_textVars PROVE HtmlInv'
    OBVIOUS
  <2>1. CASE UNCHANGED textVars
    BY <2>1 DEF textVars, vars, HtmlInv, HtmlPieces, input
  <2>2. CASE TextNext /\ routine # "escape_html_specials"
    <3>1. routine' = routine
      BY <2>2 DEF TextNext, urldecode, escape_html_specials, escape_quotes, get_content_type,
         parse_host_header, parse_request_line, parse_header, Runs
    <3>2. QED
      BY <2>2, <3>1 DEF HtmlInv
  <2>3. CASE TextNext /\ routine = "escape_html_specials"
    <3>1. escape_html_specials
      BY <2>3, RoutineActs
    <3>2. QED
      BY <2>3, <3>1, HtmlGoesOn
  <2>4. QED
    BY <2>1, <2>2, <2>3
<1>3. HtmlInv => HtmlEscaped
  BY DEF HtmlInv, HtmlEscaped, Returned, HtmlPieces
<1>4. QED
  BY <1>1, <1>2, <1>3, InputStays, PTL DEF TextSpec

-----------------------------------------------------------------------------
(* escape_quotes. *)

\* The whole is the parts up to a place and the parts from there on.
LEMMA FlattenSplit ==
    ASSUME NEW V, NEW seqs \in Seq(Seq(V))
    PROVE  \A k \in 0..Len(seqs) : /\ FlattenSeq(Rest(seqs, k)) \in Seq(V)
                                   /\ FlattenSeq(seqs) = Upto(seqs, k) \o FlattenSeq(Rest(seqs, k))
<1>1. Len(seqs) \in Nat
  OBVIOUS
<1>2. \A k \in 0..Len(seqs) : FlattenSeq(Rest(seqs, k)) \in Seq(V) /\ Upto(seqs, k) \in Seq(V)
  BY RestFacts, UptoFacts, FlattenType
<1> DEFINE S == {k \in 0..Len(seqs) : FlattenSeq(seqs) = Upto(seqs, k) \o FlattenSeq(Rest(seqs, k))}
<1>3. 0 \in S
  <2>1. Upto(seqs, 0) = <<>> /\ Rest(seqs, 0) = seqs /\ FlattenSeq(seqs) \in Seq(V)
    BY RestFacts, UptoFacts, FlattenType
  <2>2. <<>> \o FlattenSeq(seqs) = FlattenSeq(seqs)
    BY <2>1, ConcatEmptySeq
  <2>3. QED
    BY <1>1, <2>1, <2>2
<1>4. ASSUME NEW n \in S, n \in 0..(Len(seqs) - 1) PROVE n + 1 \in S
  <2>1. n + 1 \in 1..Len(seqs) /\ n + 1 \in 0..Len(seqs)
    BY <1>1, <1>4
  <2>2. FlattenSeq(Rest(seqs, n)) = seqs[n + 1] \o FlattenSeq(Rest(seqs, n + 1))
    BY <2>1, FlattenFrom DEF Rest
  <2>3. Upto(seqs, n + 1) = Upto(seqs, n) \o seqs[n + 1]
    BY <1>4, UptoFacts
  <2>4. seqs[n + 1] \in Seq(V) /\ FlattenSeq(Rest(seqs, n + 1)) \in Seq(V) /\ Upto(seqs, n) \in Seq(V)
    BY <1>2, <1>4, <2>1
  <2>5. Upto(seqs, n) \o (seqs[n + 1] \o FlattenSeq(Rest(seqs, n + 1)))
            = (Upto(seqs, n) \o seqs[n + 1]) \o FlattenSeq(Rest(seqs, n + 1))
    <3>1. \A x, y, z \in Seq(V) : x \o (y \o z) = (x \o y) \o z
      <4> HIDE DEF S
      <4>1. QED
        BY Regrouped
    <3>2. QED
      BY <2>4, <3>1
  <2>6. FlattenSeq(seqs) = Upto(seqs, n) \o FlattenSeq(Rest(seqs, n))
    BY <1>4
  <2>7. QED
    BY <2>1, <2>2, <2>3, <2>5, <2>6
<1>5. 0..Len(seqs) \subseteq S
  <2> HIDE DEF S
  <2>1. QED
    BY <1>1, <1>3, <1>4, InductiveRange
<1>6. QED
  BY <1>2, <1>5

\* Where a part lies in the whole.
LEMMA FlattenPlace ==
    ASSUME NEW V, NEW seqs \in Seq(Seq(V)), NEW k \in 0..(Len(seqs) - 1),
           NEW j \in 1..Len(seqs[k + 1])
    PROVE  /\ Len(Upto(seqs, k)) + j \in 1..Len(FlattenSeq(seqs))
           /\ FlattenSeq(seqs)[Len(Upto(seqs, k)) + j] = seqs[k + 1][j]
<1> DEFINE a == Upto(seqs, k)
           b == seqs[k + 1]
           c == FlattenSeq(Rest(seqs, k + 1))
<1>1. a \in Seq(V) /\ b \in Seq(V) /\ c \in Seq(V)
  <2>1. k \in 0..Len(seqs) /\ k + 1 \in 0..Len(seqs) /\ k + 1 \in 1..Len(seqs)
    OBVIOUS
  <2>2. QED
    BY <2>1, UptoFacts, FlattenSplit
<1>2. FlattenSeq(seqs) = (a \o b) \o c
  <2>1. k + 1 \in 0..Len(seqs)
    OBVIOUS
  <2>2. QED
    BY <2>1, UptoFacts, FlattenSplit
<1>3. j \in 1..Len(b)
  OBVIOUS
<1> HIDE DEF a, b, c
<1>4. /\ a \o b \in Seq(V) /\ Len(a \o b) = Len(a) + Len(b)
      /\ \A n \in 1..(Len(a) + Len(b)) : (a \o b)[n] = IF n <= Len(a) THEN a[n] ELSE b[n - Len(a)]
  BY <1>1, ConcatProperties
<1>5. /\ Len((a \o b) \o c) = Len(a \o b) + Len(c)
      /\ \A n \in 1..(Len(a \o b) + Len(c)) :
             ((a \o b) \o c)[n] = IF n <= Len(a \o b) THEN (a \o b)[n] ELSE c[n - Len(a \o b)]
  BY <1>1, <1>4, ConcatProperties
<1>6. Len(a) \in Nat /\ Len(b) \in Nat /\ Len(c) \in Nat
  BY <1>1
<1>7. PICK n \in 1..(Len(a) + Len(b)) : n = Len(a) + j /\ ~ (n <= Len(a)) /\ n - Len(a) = j
  <2>1. \A x, y \in Nat : \A m \in 1..y :
            \E n \in 1..(x + y) : n = x + m /\ ~ (n <= x) /\ n - x = m
    OBVIOUS
  <2>2. QED
    BY <1>3, <1>6, <2>1, Zenon
<1>8. (a \o b)[n] = b[j]
  BY <1>4, <1>7
<1>9. n \in 1..(Len(a \o b) + Len(c)) /\ n <= Len(a \o b)
  BY <1>4, <1>6, <1>7
<1>10. ((a \o b) \o c)[n] = b[j]
  BY <1>5, <1>8, <1>9
<1>11. QED
  BY <1>2, <1>5, <1>7, <1>9, <1>10 DEF a, b

\* What ReadField reads of s from j on, if a and b are what it reads from the next
\* character and from the one after that.
ReadAt(s, j, a, b) ==
    IF j > Len(s) \/ s[j] = Quote THEN <<>>
    ELSE IF s[j] = Backslash /\ j < Len(s) THEN <<s[j + 1]>> \o b
    ELSE <<s[j]>> \o a

\* The recursive definition in ReadField means what it says.
LEMMA ReadDefined ==
    ASSUME NEW V, NEW s \in Seq(V)
    PROVE  \E g : /\ ReadField(s) = g[1]
                  /\ \A j \in 1..(Len(s) + 1) : g[j] = ReadAt(s, j, g[j + 1], g[j + 2])
<1> DEFINE N == Len(s)
           Both == Seq(V) \X Seq(V)
           step == [m \in 1..N |-> [v \in Both |->
                       <<ReadAt(s, N + 1 - m, v[1], v[2]), v[1]>>]]
           Is(g) == g = [j \in 1..(N + 1) |->
                       IF j > Len(s) \/ s[j] = Quote THEN <<>>
                       ELSE IF s[j] = Backslash /\ j < Len(s) THEN <<s[j + 1]>> \o g[j + 2]
                       ELSE <<s[j]>> \o g[j + 1]]
<1>1. N \in Nat /\ <<>> \in Seq(V) /\ <<<<>>, <<>>>> \in Both
  <2>1. N \in Nat /\ <<>> \in Seq(V)
    OBVIOUS
  <2>2. QED
    BY <2>1
<1>2. ASSUME NEW j \in 1..N, NEW a \in Seq(V), NEW b \in Seq(V)
      PROVE  ReadAt(s, j, a, b) \in Seq(V)
  <2>1. j <= N /\ <<s[j]>> \in Seq(V)
    OBVIOUS
  <2>2. CASE s[j] = Quote
    BY <1>1, <2>2 DEF ReadAt
  <2>3. CASE s[j] # Quote /\ s[j] = Backslash /\ j < N
    <3>1. <<s[j + 1]>> \in Seq(V)
      BY <2>3
    <3>2. <<s[j + 1]>> \o b \in Seq(V)
      BY <3>1, ConcatProperties
    <3>3. QED
      BY <2>1, <2>3, <3>2 DEF ReadAt
  <2>4. CASE s[j] # Quote /\ ~ (s[j] = Backslash /\ j < N)
    <3>1. <<s[j]>> \o a \in Seq(V)
      BY <2>1, ConcatProperties
    <3>2. QED
      BY <2>1, <2>4, <3>1 DEF ReadAt
  <2>5. QED
    BY <2>2, <2>3, <2>4
<1>3. step \in [1..N -> [Both -> Both]]
  <2>1. ASSUME NEW m \in 1..N, NEW v \in Both
        PROVE  <<ReadAt(s, N + 1 - m, v[1], v[2]), v[1]>> \in Both
    <3>1. N + 1 - m \in 1..N /\ v[1] \in Seq(V) /\ v[2] \in Seq(V)
      BY <1>1
    <3>2. ReadAt(s, N + 1 - m, v[1], v[2]) \in Seq(V)
      BY <1>2, <3>1
    <3>3. QED
      BY <3>1, <3>2
  <2>2. QED
    BY <2>1
<1>4. PICK h \in [0..N -> Both] : Iterates(h, N, <<<<>>, <<>>>>, step)
  <2> HIDE DEF step, Both, N
  <2>1. QED
    BY <1>1, <1>3, IterationExists
<1>5. ASSUME NEW m \in 1..N
      PROVE  /\ h[m][1] = ReadAt(s, N + 1 - m, h[m - 1][1], h[m - 1][2])
             /\ h[m][2] = h[m - 1][1]
  <2>1. h[m] = step[m][h[m - 1]]
    BY <1>4 DEF Iterates
  <2>2. m - 1 \in 0..N
    BY <1>1
  <2>3. h[m - 1] \in Both
    BY <2>2, Zenon
  <2>4. h[m] = <<ReadAt(s, N + 1 - m, h[m - 1][1], h[m - 1][2]), h[m - 1][1]>>
    BY <2>1, <2>3
  <2>5. QED
    BY <2>4
<1> DEFINE g == [j \in 1..(N + 1) |-> h[N + 1 - j][1]]
<1>6. \A j \in 1..(N + 1) : g[j] = ReadAt(s, j, g[j + 1], g[j + 2])
  <2> SUFFICES ASSUME NEW j \in 1..(N + 1) PROVE g[j] = ReadAt(s, j, g[j + 1], g[j + 2])
    OBVIOUS
  <2>1. CASE j = N + 1
    <3>1. N + 1 - j = 0 /\ j > Len(s)
      BY <1>1, <2>1
    <3>2. h[0] = <<<<>>, <<>>>>
      BY <1>4 DEF Iterates
    <3>3. QED
      BY <3>1, <3>2 DEF ReadAt
  <2>2. CASE j \in 1..N
    <3>1. PICK m \in 1..N : m = N + 1 - j /\ N + 1 - m = j /\ m - 1 = N + 1 - (j + 1)
      BY <1>1, <2>2
    <3>2. g[j] = ReadAt(s, j, h[m - 1][1], h[m - 1][2])
      BY <1>5, <3>1
    <3>3. j + 1 \in 1..(N + 1) /\ g[j + 1] = h[m - 1][1]
      BY <1>1, <2>2, <3>1
    <3>4. CASE j < N
      <4>1. PICK l \in 1..N : l = m - 1 /\ l - 1 = N + 1 - (j + 2)
        <5>1. \A x, y \in Nat : y < x => x + 1 - y - 1 \in 1..x
                                         /\ (x + 1 - y - 1) - 1 = x + 1 - (y + 2)
          OBVIOUS
        <5>2. N \in Nat /\ j \in Nat /\ j < N /\ m = N + 1 - j
          BY <1>1, <2>2, <3>1, <3>4
        <5> HIDE DEF N
        <5>3. QED
          BY <5>1, <5>2
      <4>2. j + 2 \in 1..(N + 1) /\ h[m - 1][2] = h[l - 1][1]
        <5>1. j + 2 \in 1..(N + 1)
          BY <1>1, <2>2, <3>4
        <5>2. h[l][2] = h[l - 1][1]
          BY <1>5
        <5>3. QED
          BY <4>1, <5>1, <5>2
      <4>3. g[j + 2] = h[m - 1][2]
        BY <4>1, <4>2
      <4>4. QED
        BY <3>2, <3>3, <4>3
    <3>5. CASE ~ (j < N)
      BY <3>2, <3>3, <3>5 DEF ReadAt
    <3>6. QED
      BY <3>4, <3>5
  <2>3. QED
    BY <1>1, <2>1, <2>2
<1>7. Is(g)
  BY <1>6 DEF ReadAt
<1>8. ReadField(s) = (CHOOSE f : Is(f))[1]
  BY DEF ReadField
<1>9. \E f : Is(f)
  <2> HIDE DEF Is, g
  <2>1. QED
    BY <1>7
<1>10. PICK f : Is(f) /\ ReadField(s) = f[1]
  <2> HIDE DEF Is
  <2>1. QED
    BY <1>8, <1>9, Zenon
<1>11. \A j \in 1..(N + 1) : f[j] = ReadAt(s, j, f[j + 1], f[j + 2])
  BY <1>10 DEF ReadAt
<1>12. QED
  BY <1>10, <1>11

QuotePieces == [k \in DOMAIN input |->
                   IF input[k] = Quote THEN <<Backslash, Quote>> ELSE <<input[k]>>]

\* The new string is what the characters before the position stand for.
QuoteInv ==
    routine = "escape_quotes" =>
        /\ status = "running" =>
               \E k \in 0..Len(input) : url = Upto(QuotePieces, k) /\ i = k + 1
        /\ status = "done" => result = FlattenSeq(QuotePieces)

LEMMA QuotePiecesAreText ==
    ASSUME input \in Seq(Chars)
    PROVE  /\ QuotePieces \in Seq(Seq(Chars)) /\ Len(QuotePieces) = Len(input)
           /\ \A k \in 1..Len(input) : QuotePieces[k] =
                  IF input[k] = Quote THEN <<Backslash, Quote>> ELSE <<input[k]>>
<1>1. Len(input) \in Nat /\ DOMAIN input = 1..Len(input)
  OBVIOUS
<1>2. QuotePieces \in [1..Len(input) -> Seq(Chars)]
  <2>1. \A k \in 1..Len(input) : <<input[k]>> \in Seq(Chars)
    OBVIOUS
  <2>2. <<Backslash, Quote>> \in Seq(Chars)
    <3>1. Backslash \in Chars /\ Quote \in Chars
      BY Zenon DEF Chars
    <3>2. QED
      BY <3>1
  <2>3. QED
    BY <1>1, <2>1, <2>2 DEF QuotePieces
<1>3. QuotePieces \in Seq(Seq(Chars)) /\ Len(QuotePieces) = Len(input)
  BY <1>1, <1>2, MapIsSeq
<1>4. QED
  BY <1>1, <1>3 DEF QuotePieces

LEMMA FirstOf ==
    ASSUME NEW V, NEW t \in Seq(V), 1 \in 1..Len(t)
    PROVE  SubSeq(t, 1, 1) = <<t[1]>>
<1>1. 1 \in 1..Len(t)
  OBVIOUS
<1>2. SubSeq(t, 1, 1) = <<t[1]>> \o SubSeq(t, 1 + 1, 1)
  BY <1>1, SubSeqRecursiveFirst
<1>3. SubSeq(t, 1 + 1, 1) = <<>>
  BY SubSeqEmpty
<1>4. <<t[1]>> \in Seq(V)
  BY <1>1
<1>5. QED
  BY <1>2, <1>3, <1>4, ConcatEmptySeq

\* A search string of one character is found where that character is.
LEMMA FoundAt ==
    ASSUME NEW V, NEW s \in Seq(V), NEW n \in 1..Len(s), NEW c \in V
    PROVE  IsPrefix(<<c>>, SubSeq(s, n, Len(s))) <=> s[n] = c
<1> DEFINE t == SubSeq(s, n, Len(s))
<1>1. t \in Seq(V) /\ Len(t) >= 1 /\ Len(t) \in Nat /\ t[1] = s[n]
  <2>1. \A j \in n..Len(s) : s[j] \in V
    OBVIOUS
  <2>2. /\ t \in Seq(V) /\ Len(t) = IF n <= Len(s) THEN Len(s) - n + 1 ELSE 0
        /\ \A j \in 1..(Len(s) - n + 1) : t[j] = s[n + j - 1]
    BY <2>1, SubSeqProperties
  <2>3. 1 \in 1..(Len(s) - n + 1) /\ n + 1 - 1 = n
    OBVIOUS
  <2>4. QED
    BY <2>2, <2>3
<1> HIDE DEF t
<1>2. SubSeq(t, 1, 1) = <<t[1]>>
  <2>1. 1 \in 1..Len(t)
    BY <1>1
  <2>2. QED
    BY <1>1, <2>1, FirstOf
<1>3. SubSeq(<<c>>, 1, 1) = <<c>> /\ Len(<<c>>) = 1
  <2>1. <<c>> \in Seq(V) /\ Len(<<c>>) = 1 /\ <<c>>[1] = c /\ 1 \in 1..Len(<<c>>)
    OBVIOUS
  <2>2. QED
    BY <2>1, FirstOf
<1>4. IsPrefix(<<c>>, t) <=> <<c>> = <<t[1]>>
  BY <1>1, <1>2, <1>3 DEF IsPrefix
<1>5. QED
  BY <1>1, <1>4 DEF t

LEMMA QuoteGoesOn ==
    ASSUME InputKept, QuoteInv, routine = "escape_quotes", escape_quotes
    PROVE  QuoteInv'
<1>1. input \in Seq(Chars) /\ Len(input) \in Nat
  BY InputIsText
<1>2. /\ QuotePieces \in Seq(Seq(Chars)) /\ Len(QuotePieces) = Len(input)
      /\ \A k \in 1..Len(input) : QuotePieces[k] =
             IF input[k] = Quote THEN <<Backslash, Quote>> ELSE <<input[k]>>
  BY <1>1, QuotePiecesAreText
<1>3. /\ status = "running" /\ UNCHANGED <<units, routine>>
      /\ \/ /\ i <= Len(input) /\ replace_step(<<Quote>>, <<Backslash, Quote>>)
            /\ UNCHANGED <<status, last_dot, result>>
         \/ i > Len(input) /\ Returns(url)
  BY DEF escape_quotes, search_and_replace, Runs
<1>4. input' = input /\ QuotePieces' = QuotePieces
  BY <1>3 DEF input, QuotePieces
<1>5. PICK k \in 0..Len(input) : url = Upto(QuotePieces, k) /\ i = k + 1
  BY <1>3 DEF QuoteInv
<1>6. CASE k = Len(input)
  <2>1. url = FlattenSeq(QuotePieces) /\ ~ (i <= Len(input))
    BY <1>1, <1>2, <1>5, <1>6, UptoFacts
  <2>2. status' = "done" /\ result' = FlattenSeq(QuotePieces)
    BY <1>3, <2>1 DEF Returns
  <2>3. QED
    BY <1>3, <1>4, <2>2 DEF QuoteInv
<1>7. CASE k # Len(input)
  <2>1. k \in 0..(Len(input) - 1) /\ i \in 1..Len(input) /\ ~ (i > Len(input)) /\ k + 1 \in 0..Len(input)
    BY <1>1, <1>5, <1>7
  <2>2. replace_step(<<Quote>>, <<Backslash, Quote>>) /\ UNCHANGED status
    BY <1>3, <2>1
  <2>3. Upto(QuotePieces, k + 1) = url \o QuotePieces[i] /\ url \in Seq(Chars) /\ i = k + 1
    BY <1>2, <1>5, <2>1, UptoFacts
  <2>4. QuotePieces[i] = IF input[i] = Quote THEN <<Backslash, Quote>> ELSE <<input[i]>>
    BY <1>2, <2>1
  <2>5. IsPrefix(<<Quote>>, SubSeq(input, i, Len(input))) <=> input[i] = Quote
    <3>1. Quote \in Chars
      BY Zenon DEF Chars
    <3>2. QED
      BY <1>1, <2>1, <3>1, FoundAt
  <2>6. Len(<<Quote>>) = 1
    OBVIOUS
  <2>7. url' = url \o QuotePieces[i] /\ i' = i + 1
    <3>1. CASE input[i] = Quote
      BY <2>2, <2>4, <2>5, <2>6, <3>1 DEF replace_step
    <3>2. CASE input[i] # Quote
      <4>1. url' = Append(url, input[i]) /\ i' = i + 1
        BY <2>2, <2>5, <3>2 DEF replace_step
      <4>2. input[i] \in Chars
        BY <1>1, <2>1
      <4>3. Append(url, input[i]) = url \o <<input[i]>>
        BY <2>3, <4>2, AppendIsConcat
      <4>4. QED
        BY <2>4, <3>2, <4>1, <4>3
    <3>3. QED
      BY <3>1, <3>2
  <2>8. url' = Upto(QuotePieces, k + 1) /\ i' = (k + 1) + 1
    BY <2>3, <2>7
  <2>9. QED
    BY <1>3, <1>4, <2>1, <2>2, <2>8 DEF QuoteInv
<1>8. QED
  BY <1>6, <1>7

LEMMA QuoteStarts ==
    ASSUME InputKept, TextInit PROVE QuoteInv
<1> SUFFICES ASSUME routine = "escape_quotes"
             PROVE  \E k \in 0..Len(input) : url = Upto(QuotePieces, k) /\ i = k + 1
  BY DEF QuoteInv, TextInit
<1>1. input \in Seq(Chars) /\ Len(input) \in Nat
  BY InputIsText
<1>2. Upto(QuotePieces, 0) = <<>>
  BY <1>1, QuotePiecesAreText, UptoFacts
<1>3. url = <<>> /\ i = 1
  BY DEF TextInit, builds
<1>4. url = Upto(QuotePieces, 0) /\ i = 0 + 1
  BY <1>2, <1>3
<1>5. 0 \in 0..Len(input)
  BY <1>1
<1>6. QED
  BY <1>4, <1>5, Zenon

\* What has been escaped is read back as it was.
LEMMA QuotedReadsBack ==
    ASSUME InputKept, ~ Contains(input, Backslash)
    PROVE  ReadField(Append(FlattenSeq(QuotePieces), Quote)) = input
<1> DEFINE o == FlattenSeq(QuotePieces)
           s == Append(o, Quote)
           N == Len(input)
<1>1. input \in Seq(Chars) /\ N \in Nat
  BY InputIsText
<1>2. /\ QuotePieces \in Seq(Seq(Chars)) /\ Len(QuotePieces) = Len(input)
      /\ \A k \in 1..N : QuotePieces[k] =
             IF input[k] = Quote THEN <<Backslash, Quote>> ELSE <<input[k]>>
  BY <1>1, QuotePiecesAreText
<1>3. Quote \in Chars /\ o \in Seq(Chars)
  <2>1. Quote \in Chars
    BY Zenon DEF Chars
  <2>2. QED
    BY <1>2, <2>1, FlattenType
<1>4. /\ s \in Seq(Chars) /\ Len(s) = Len(o) + 1 /\ Len(o) \in Nat
      /\ \A j \in 1..Len(o) : s[j] = o[j]
      /\ s[Len(o) + 1] = Quote
  BY <1>3, AppendProperties
<1>5. PICK g : /\ ReadField(s) = g[1]
               /\ \A j \in 1..(Len(s) + 1) : g[j] = ReadAt(s, j, g[j + 1], g[j + 2])
  <2> HIDE DEF s
  <2>1. QED
    BY <1>4, ReadDefined
<1> DEFINE P(k) == Len(Upto(QuotePieces, k)) + 1
           S == {n \in 0..N : g[P(N - n)] = Rest(input, N - n)}
<1>6. 0 \in S
  <2>1. N - 0 = N /\ P(N) = Len(o) + 1
    <3>1. Upto(QuotePieces, Len(QuotePieces)) = o
      BY <1>2, UptoFacts
    <3>2. P(N) = Len(o) + 1
      BY <1>2, <3>1
    <3>3. QED
      BY <1>1, <3>2
  <2>2. Len(o) + 1 \in 1..(Len(s) + 1)
    BY <1>4
  <2>3. g[Len(o) + 1] = <<>>
    BY <1>4, <1>5, <2>2 DEF ReadAt
  <2>4. Rest(input, N) = <<>>
    BY <1>1, RestFacts
  <2>5. QED
    BY <1>1, <2>1, <2>3, <2>4
<1>7. ASSUME NEW n \in S, n \in 0..(N - 1) PROVE n + 1 \in S
  <2>1. PICK k \in 0..(N - 1) : N - (n + 1) = k /\ N - n = k + 1
    <3>1. \A x \in Nat : \A m \in 0..(x - 1) :
              x - (m + 1) \in 0..(x - 1) /\ x - m = (x - (m + 1)) + 1
      OBVIOUS
    <3>2. N - (n + 1) \in 0..(N - 1) /\ N - n = (N - (n + 1)) + 1
      BY <1>1, <1>7, <3>1
    <3> HIDE DEF N
    <3>3. QED
      BY <3>2
  <2>2. g[P(k + 1)] = Rest(input, k + 1)
    BY <1>7, <2>1
  <2>3. k + 1 \in 1..N /\ k + 1 \in 0..N /\ k \in 0..N
    BY <1>1
  <2>4. input[k + 1] # Backslash /\ Rest(input, k) = <<input[k + 1]>> \o Rest(input, k + 1)
    BY <1>1, <2>3, RestFacts DEF Contains
  <2> DEFINE u == Len(Upto(QuotePieces, k))
             b == QuotePieces[k + 1]
  <2>5. b \in Seq(Chars) /\ u \in Nat /\ P(k + 1) = (u + Len(b)) + 1
    <3>1. /\ Upto(QuotePieces, k) \in Seq(Chars) /\ b \in Seq(Chars)
          /\ Upto(QuotePieces, k + 1) = Upto(QuotePieces, k) \o b
      <4>1. k \in 0..(Len(QuotePieces) - 1) /\ k \in 0..Len(QuotePieces)
        BY <1>2, <2>3
      <4>2. b \in Seq(Chars)
        BY <1>2, <2>3
      <4>3. QED
        BY <1>2, <4>1, <4>2, UptoFacts
    <3>2. QED
      BY <3>1, ConcatProperties
  <2>6. \A j \in 1..Len(b) : u + j \in 1..Len(o) /\ s[u + j] = b[j]
    <3>1. \A j \in 1..Len(b) : u + j \in 1..Len(o) /\ o[u + j] = b[j]
      <4>1. k \in 0..(Len(QuotePieces) - 1)
        BY <1>2
      <4>2. QED
        BY <1>2, <4>1, FlattenPlace
    <3>2. QED
      BY <1>4, <3>1
  <2>7. b = IF input[k + 1] = Quote THEN <<Backslash, Quote>> ELSE <<input[k + 1]>>
    BY <1>2, <2>3
  <2> HIDE DEF u, b, o, s
  <2>8. CASE input[k + 1] = Quote
    <3>1. Len(b) = 2 /\ b[1] = Backslash /\ b[2] = Quote
      BY <2>7, <2>8
    <3>2. /\ u + 1 \in 1..Len(o) /\ u + 2 \in 1..Len(o)
          /\ s[u + 1] = Backslash /\ s[u + 2] = Quote
      BY <2>6, <3>1
    <3>3. /\ u + 1 \in 1..(Len(s) + 1) /\ ~ (u + 1 > Len(s)) /\ u + 1 < Len(s)
          /\ (u + 1) + 1 = u + 2 /\ (u + 1) + 2 = P(k + 1)
      BY <1>4, <2>5, <3>1, <3>2
    <3>4. g[u + 1] = <<Quote>> \o g[P(k + 1)]
      <4>1. Backslash # Quote
        BY DEF Backslash, Quote
      <4>2. g[u + 1] = ReadAt(s, u + 1, g[(u + 1) + 1], g[(u + 1) + 2])
        BY <1>5, <3>3
      <4>3. QED
        BY <3>2, <3>3, <4>1, <4>2 DEF ReadAt
    <3>5. g[P(k)] = Rest(input, k)
      BY <2>2, <2>4, <2>8, <3>4 DEF u
    <3>6. QED
      BY <1>1, <1>7, <2>1, <3>5
  <2>9. CASE input[k + 1] # Quote
    <3>1. Len(b) = 1 /\ b[1] = input[k + 1]
      BY <2>7, <2>9
    <3>2. u + 1 \in 1..Len(o) /\ s[u + 1] = input[k + 1]
      BY <2>6, <3>1
    <3>3. /\ u + 1 \in 1..(Len(s) + 1) /\ ~ (u + 1 > Len(s))
          /\ (u + 1) + 1 = P(k + 1)
      BY <1>4, <2>5, <3>1, <3>2
    <3>4. g[u + 1] = <<input[k + 1]>> \o g[P(k + 1)]
      <4>1. g[u + 1] = ReadAt(s, u + 1, g[(u + 1) + 1], g[(u + 1) + 2])
        BY <1>5, <3>3
      <4>2. QED
        BY <2>4, <2>9, <3>2, <3>3, <4>1 DEF ReadAt
    <3>5. g[P(k)] = Rest(input, k)
      BY <2>2, <2>4, <3>4 DEF u
    <3>6. QED
      BY <1>1, <1>7, <2>1, <3>5
  <2>10. QED
    BY <2>8, <2>9
<1>8. N \in S
  <2> HIDE DEF S, N
  <2>1. QED
    BY <1>1, <1>6, <1>7, InductiveRange
<1>9. N - N = 0 /\ P(0) = 1 /\ Rest(input, 0) = input
  <2>1. Upto(QuotePieces, 0) = <<>> /\ Rest(input, 0) = input
    BY <1>1, <1>2, UptoFacts, RestFacts
  <2>2. QED
    BY <1>1, <2>1
<1>10. QED
  BY <1>5, <1>8, <1>9

\* A field of any length without a backslash is read back from the log as it was
\* sent: QuotedFieldReadsBack.
THEOREM QuoteCorrect == TextSpec => []QuotedFieldReadsBack
<1>1. InputKept /\ TextInit => QuoteInv
  BY QuoteStarts
<1>2. InputKept /\ QuoteInv /\ [TextNext]_textVars => QuoteInv'
  <2> SUFFICES ASSUME InputKept, QuoteInv, [TextNext]_textVars PROVE QuoteInv'
    OBVIOUS
  <2>1. CASE UNCHANGED textVars
    BY <2>1 DEF textVars, vars, QuoteInv, QuotePieces, input
  <2>2. CASE TextNext /\ routine # "escape_quotes"
    <3>1. routine' = routine
      BY <2>2 DEF TextNext, urldecode, escape_html_specials, escape_quotes, get_content_type,
         parse_host_header, parse_request_line, parse_header, Runs
    <3>2. QED
      BY <2>2, <3>1 DEF QuoteInv
  <2>3. CASE TextNext /\ routine = "escape_quotes"
    <3>1. escape_quotes
      BY <2>3, RoutineActs
    <3>2. QED
      BY <2>3, <3>1, QuoteGoesOn
  <2>4. QED
    BY <2>1, <2>2, <2>3
<1>3. InputKept /\ QuoteInv => QuotedFieldReadsBack
  BY QuotedReadsBack DEF QuoteInv, QuotedFieldReadsBack, Returned
<1>4. QED
  BY <1>1, <1>2, <1>3, InputStays, PTL DEF TextSpec

-----------------------------------------------------------------------------
(* get_content_type. *)

\* d is the place of the last dot among the first n characters, or 0.
DottedAt(d, n) ==
    /\ d \in 0..n /\ (d # 0 => input[d] = ".")
    /\ \A k \in (d + 1)..n : input[k] # "."

TypeAfter(d) == IF d = 0 THEN DefaultContentType ELSE find_type(Rest(input, d))

\* last_dot is the last dot before the position.
TypeInv ==
    routine = "get_content_type" =>
        /\ url = input
        /\ status = "running" =>
               \E k \in 0..Len(input) : i = k + 1 /\ DottedAt(last_dot, k)
        /\ status = "done" =>
               \E d \in 0..Len(input) : DottedAt(d, Len(input)) /\ result = TypeAfter(d)

LEMMA TypeStarts ==
    ASSUME InputKept, TextInit PROVE TypeInv
<1> SUFFICES ASSUME routine = "get_content_type"
             PROVE  url = input /\ \E k \in 0..Len(input) : i = k + 1 /\ DottedAt(last_dot, k)
  BY DEF TypeInv, TextInit
<1>1. Len(input) \in Nat
  BY InputIsText
<1>2. url = input /\ i = 0 + 1 /\ last_dot = 0
  BY DEF TextInit, builds
<1>3. DottedAt(0, 0) /\ 0 \in 0..Len(input)
  BY <1>1 DEF DottedAt
<1>4. QED
  BY <1>2, <1>3

LEMMA TypeGoesOn ==
    ASSUME InputKept, TypeInv, routine = "get_content_type", get_content_type
    PROVE  TypeInv'
<1>1. input \in Seq(Chars) /\ Len(input) \in Nat
  BY InputIsText
<1>2. /\ status = "running" /\ UNCHANGED <<units, routine>>
      /\ \/ /\ i <= Len(url)
            /\ last_dot' = IF url[i] = "." THEN i ELSE last_dot
            /\ i' = i + 1
            /\ UNCHANGED <<url, status, result>>
         \/ i > Len(url) /\ last_dot = 0 /\ Returns(DefaultContentType)
         \/ i > Len(url) /\ last_dot # 0 /\ Returns(find_type(extension_found))
  BY DEF get_content_type, Runs
<1>3. input' = input
  BY <1>2 DEF input
<1>4. PICK k \in 0..Len(input) : i = k + 1 /\ DottedAt(last_dot, k)
  BY <1>2 DEF TypeInv
<1>5. url = input
  BY DEF TypeInv
<1>6. CASE k = Len(input)
  <2>1. ~ (i <= Len(url)) /\ UNCHANGED url /\ status' = "done"
    BY <1>1, <1>2, <1>4, <1>5, <1>6 DEF Returns
  <2>2. result' = TypeAfter(last_dot)
    BY <1>2, <1>5, <2>1 DEF Returns, TypeAfter, extension_found, Rest
  <2>3. last_dot \in 0..Len(input) /\ DottedAt(last_dot, Len(input))
    BY <1>4, <1>6 DEF DottedAt
  <2>4. \E d \in 0..Len(input) : DottedAt(d, Len(input)) /\ result' = TypeAfter(d)
    BY <2>2, <2>3
  <2>5. QED
    BY <1>2, <1>3, <1>5, <2>1, <2>4 DEF TypeInv, DottedAt, TypeAfter
<1>7. CASE k # Len(input)
  <2>1. k \in 0..(Len(input) - 1) /\ i \in 1..Len(input) /\ ~ (i > Len(url)) /\ k + 1 \in 0..Len(input)
    BY <1>1, <1>4, <1>5, <1>7
  <2>2. /\ last_dot' = IF input[i] = "." THEN i ELSE last_dot
        /\ i' = i + 1 /\ UNCHANGED <<url, status>>
    BY <1>2, <1>5, <2>1
  <2>3. ASSUME NEW d, d = last_dot' PROVE DottedAt(d, k + 1)
    <3>1. CASE input[i] = "."
      BY <1>4, <2>1, <2>2, <2>3, <3>1 DEF DottedAt
    <3>2. CASE input[i] # "."
      BY <1>4, <2>1, <2>2, <2>3, <3>2 DEF DottedAt
    <3>3. QED
      BY <3>1, <3>2
  <2>4. i' = (k + 1) + 1
    BY <1>4, <2>2
  <2>5. \E n \in 0..Len(input) : i' = n + 1 /\ DottedAt(last_dot', n)
    BY <2>1, <2>3, <2>4
  <2>6. QED
    BY <1>2, <1>3, <1>5, <2>2, <2>5 DEF TypeInv, DottedAt
<1>8. QED
  BY <1>6, <1>7

LEMMA RestPlaces ==
    ASSUME NEW V, NEW s \in Seq(V), NEW n \in 0..Len(s)
    PROVE  /\ Rest(s, n) \in Seq(V) /\ Len(Rest(s, n)) = Len(s) - n
           /\ DOMAIN Rest(s, n) = 1..(Len(s) - n)
           /\ \A k \in 1..(Len(s) - n) : Rest(s, n)[k] = s[n + k]
<1>1. n + 1 \in Int /\ Len(s) \in Int /\ \A j \in (n + 1)..Len(s) : s[j] \in V
  OBVIOUS
<1>2. /\ Rest(s, n) \in Seq(V)
      /\ Len(Rest(s, n)) = IF n + 1 <= Len(s) THEN Len(s) - (n + 1) + 1 ELSE 0
      /\ \A k \in 1..(Len(s) - (n + 1) + 1) : Rest(s, n)[k] = s[(n + 1) + k - 1]
  BY <1>1, SubSeqProperties DEF Rest
<1>3. /\ Len(s) - (n + 1) + 1 = Len(s) - n
      /\ \A k \in 1..(Len(s) - n) : (n + 1) + k - 1 = n + k
  OBVIOUS
<1>4. Len(Rest(s, n)) = Len(s) - n
  BY <1>2
<1>5. QED
  BY <1>2, <1>3, <1>4

LEMMA RestOfRest ==
    ASSUME NEW V, NEW s \in Seq(V), NEW m \in 0..Len(s), NEW n \in 0..(Len(s) - m)
    PROVE  Rest(Rest(s, m), n) = Rest(s, m + n)
<1>1. /\ Rest(s, m) \in Seq(V) /\ Len(Rest(s, m)) = Len(s) - m
      /\ \A k \in 1..(Len(s) - m) : Rest(s, m)[k] = s[m + k]
  BY RestPlaces
<1>2. m + n \in 0..Len(s)
  OBVIOUS
<1>3. /\ Rest(s, m + n) \in Seq(V) /\ Len(Rest(s, m + n)) = Len(s) - (m + n)
      /\ \A k \in 1..(Len(s) - (m + n)) : Rest(s, m + n)[k] = s[(m + n) + k]
  BY <1>2, RestPlaces
<1>4. /\ Rest(Rest(s, m), n) \in Seq(V) /\ Len(Rest(Rest(s, m), n)) = (Len(s) - m) - n
      /\ \A k \in 1..((Len(s) - m) - n) : Rest(Rest(s, m), n)[k] = Rest(s, m)[n + k]
  BY <1>1, RestPlaces
<1>5. Len(Rest(s, m + n)) = Len(Rest(Rest(s, m), n)) /\ (Len(s) - m) - n = Len(s) - (m + n)
  BY <1>3, <1>4
<1>6. ASSUME NEW k \in 1..(Len(s) - (m + n)) PROVE Rest(Rest(s, m), n)[k] = Rest(s, m + n)[k]
  <2>1. n + k \in 1..(Len(s) - m) /\ m + (n + k) = (m + n) + k
    OBVIOUS
  <2>2. Rest(Rest(s, m), n)[k] = Rest(s, m)[n + k]
    BY <1>4, <1>5
  <2>3. Rest(s, m)[n + k] = s[m + (n + k)]
    BY <1>1, <2>1
  <2>4. Rest(s, m + n)[k] = s[(m + n) + k]
    BY <1>3
  <2>5. QED
    BY <2>1, <2>2, <2>3, <2>4
<1>7. QED
  BY <1>3, <1>4, <1>5, <1>6, SeqEqual

\* No type is known for what contains a slash.
LEMMA NoTypeForPaths ==
    ASSUME NEW e \in Seq(Chars), NEW k \in 1..Len(e), e[k] = "/"
    PROVE  find_type(e) = DefaultContentType
<1> DEFINE key == [n \in DOMAIN e |-> IF e[n] = "T" THEN "t" ELSE e[n]]
<1>1. k \in DOMAIN key /\ key[k] = "/"
  BY SMT
<1>2. DOMAIN content_types = {<<"r", "a">>, <<"t">>, <<"t", "a", "r">>, <<"t", "r">>}
  BY DEF content_types
<1>3. \A t \in {<<"r", "a">>, <<"t">>, <<"t", "a", "r">>, <<"t", "r">>} :
          \A n \in DOMAIN t : t[n] # "/"
  OBVIOUS
<1>4. key \notin DOMAIN content_types
  BY <1>1, <1>2, <1>3
<1>5. QED
  BY <1>4 DEF find_type

\* The greatest of a set that has one.
LEMMA MaxIs ==
    ASSUME NEW T \in SUBSET Nat, NEW m \in T, \A k \in T : k <= m
    PROVE  Max(T) = m
<1>1. \A y \in T : m >= y
  OBVIOUS
<1>2. PICK x \in T : x = Max(T) /\ \A y \in T : x >= y
  BY <1>1, Zenon DEF Max
<1>3. QED
  BY <1>2

LEMMA TypeIsOfFile ==
    ASSUME InputKept, NEW d \in 0..Len(input), DottedAt(d, Len(input))
    PROVE  LET After(c) == {k \in 0..Len(input) : k = 0 \/ input[k] = c}
               base == SubSeq(input, Max(After("/")) + 1, Len(input))
               dots == {k \in DOMAIN base : base[k] = "."}
           IN  TypeAfter(d) = IF dots = {} THEN DefaultContentType
                              ELSE find_type(SubSeq(base, Max(dots) + 1, Len(base)))
<1> DEFINE N == Len(input)
           Slashes == {k \in 0..N : k = 0 \/ input[k] = "/"}
<1>1. input \in Seq(Chars) /\ N \in Nat
  BY InputIsText
<1>2. PICK m \in Slashes : \A k \in Slashes : k <= m
  <2>1. 0 \in Slashes
    BY <1>1
  <2> HIDE DEF N
  <2>2. Slashes \in SUBSET (0..N) /\ Slashes # {}
    BY <2>1
  <2> HIDE DEF Slashes
  <2>3. QED
    BY <1>1, <2>2, GreatestNumber
<1>3. Max(Slashes) = m
  <2>1. Slashes \in SUBSET Nat
    BY <1>1
  <2> HIDE DEF Slashes
  <2>2. QED
    BY <1>2, <2>1, MaxIs
<1>4. m \in 0..N /\ (m # 0 => input[m] = "/")
  BY <1>1
<1> DEFINE base == Rest(input, m)
           dots == {k \in DOMAIN base : base[k] = "."}
<1>5. /\ base \in Seq(Chars) /\ Len(base) = N - m /\ DOMAIN base = 1..(N - m)
      /\ \A k \in 1..(N - m) : base[k] = input[m + k]
  BY <1>1, <1>4, RestPlaces
<1>6. TypeAfter(d) = IF dots = {} THEN DefaultContentType ELSE find_type(Rest(base, Max(dots)))
  <2>1. CASE d > m
    <3>1. d - m \in 1..(N - m) /\ m + (d - m) = d /\ input[d] = "."
      BY <1>1, <1>4, <2>1 DEF DottedAt
    <3>2. d - m \in dots
      BY <1>5, <3>1
    <3>3. ASSUME NEW k \in dots PROVE k <= d - m
      <4>1. k \in 1..(N - m) /\ input[m + k] = "."
        BY <1>5
      <4>2. CASE k > d - m
        <5>1. m + k \in (d + 1)..N
          BY <1>1, <1>4, <4>1, <4>2
        <5>2. QED
          BY <4>1, <5>1 DEF DottedAt
      <4>3. QED
        BY <1>1, <1>4, <4>1, <4>2
    <3>4. Max(dots) = d - m
      <4>1. dots \in SUBSET Nat
        BY <1>5
      <4> HIDE DEF dots
      <4>2. QED
        BY <3>2, <3>3, <4>1, MaxIs
    <3>5. Rest(base, d - m) = Rest(input, d)
      <4>1. d - m \in 0..(Len(input) - m) /\ m \in 0..Len(input)
        BY <1>1, <1>4, <3>1
      <4>2. QED
        BY <1>1, <3>1, <4>1, RestOfRest
    <3>6. d # 0
      BY <1>1, <1>4, <2>1
    <3>7. QED
      BY <3>2, <3>4, <3>5, <3>6 DEF TypeAfter
  <2>2. CASE ~ (d > m)
    <3>1. dots = {}
      <4> SUFFICES ASSUME NEW k \in dots PROVE FALSE
        OBVIOUS
      <4>1. k \in 1..(N - m) /\ input[m + k] = "."
        BY <1>5
      <4>2. m + k \in (d + 1)..N
        BY <1>1, <1>4, <2>2, <4>1
      <4>3. QED
        BY <4>1, <4>2 DEF DottedAt
    <3>2. TypeAfter(d) = DefaultContentType
      <4>1. CASE d = 0
        BY <4>1 DEF TypeAfter
      <4>2. CASE d # 0
        <5>1. m # 0 /\ input[m] = "/" /\ input[d] = "." /\ m # d
          BY <1>1, <1>4, <2>2, <4>2 DEF DottedAt
        <5>2. m - d \in 1..(N - d) /\ d + (m - d) = m
          BY <1>1, <1>4, <2>2, <5>1
        <5>3. /\ Rest(input, d) \in Seq(Chars) /\ Len(Rest(input, d)) = N - d
              /\ Rest(input, d)[m - d] = input[d + (m - d)]
          BY <1>1, <5>2, RestPlaces
        <5>4. find_type(Rest(input, d)) = DefaultContentType
          BY <5>1, <5>2, <5>3, NoTypeForPaths
        <5>5. QED
          BY <4>2, <5>4 DEF TypeAfter
      <4>3. QED
        BY <4>1, <4>2
    <3>3. QED
      BY <3>1, <3>2
  <2>3. QED
    BY <2>1, <2>2
<1> HIDE DEF TypeAfter
<1>7. QED
  BY <1>3, <1>6 DEF Rest

\* The type of a file is that of the extension of its own name, in a path of any
\* length: ContentTypeOfFile.
THEOREM TypeCorrect == TextSpec => []ContentTypeOfFile
<1>1. InputKept /\ TextInit => TypeInv
  BY TypeStarts
<1>2. InputKept /\ TypeInv /\ [TextNext]_textVars => TypeInv'
  <2> SUFFICES ASSUME InputKept, TypeInv, [TextNext]_textVars PROVE TypeInv'
    OBVIOUS
  <2>1. CASE UNCHANGED textVars
    BY <2>1 DEF textVars, vars, TypeInv, DottedAt, TypeAfter, input
  <2>2. CASE TextNext /\ routine # "get_content_type"
    <3>1. routine' = routine
      BY <2>2 DEF TextNext, urldecode, escape_html_specials, escape_quotes, get_content_type,
         parse_host_header, parse_request_line, parse_header, Runs
    <3>2. QED
      BY <2>2, <3>1 DEF TypeInv
  <2>3. CASE TextNext /\ routine = "get_content_type"
    <3>1. get_content_type
      BY <2>3, RoutineActs
    <3>2. QED
      BY <2>3, <3>1, TypeGoesOn
  <2>4. QED
    BY <2>1, <2>2, <2>3
<1>3. InputKept /\ TypeInv => ContentTypeOfFile
  <2> SUFFICES ASSUME InputKept, TypeInv, Returned("get_content_type") PROVE ContentTypeOfFile
    BY DEF ContentTypeOfFile
  <2>1. PICK d \in 0..Len(input) : DottedAt(d, Len(input)) /\ result = TypeAfter(d)
    BY DEF TypeInv, Returned
  <2>2. QED
    BY <2>1, TypeIsOfFile DEF ContentTypeOfFile
<1>4. QED
  BY <1>1, <1>2, <1>3, InputStays, PTL DEF TextSpec

-----------------------------------------------------------------------------
(* urldecode. *)

UrlChars == Plain \cup Hex \cup {"+", "%", " "} \cup UNION {{decoded(h, l) : l \in Hex} : h \in Hex}

LEMMA UrlCharsAre ==
    /\ \A c \in Plain : c \in UrlChars
    /\ \A c \in Hex : c \in UrlChars
    /\ "+" \in UrlChars /\ "%" \in UrlChars /\ " " \in UrlChars
    /\ \A h, l \in Hex : decoded(h, l) \in UrlChars
<1>1. \A h, l \in Hex : decoded(h, l) \in UrlChars
  <2>1. ASSUME NEW h \in Hex, NEW l \in Hex
        PROVE  decoded(h, l) \in UNION {{decoded(g, m) : m \in Hex} : g \in Hex}
    <3>1. decoded(h, l) \in {decoded(h, m) : m \in Hex}
      OBVIOUS
    <3>2. {decoded(h, m) : m \in Hex} \in {{decoded(g, m) : m \in Hex} : g \in Hex}
      OBVIOUS
    <3>3. QED
      BY <3>1, <3>2
  <2>2. QED
    BY <2>1, Zenon DEF UrlChars
<1>2. "+" \in UrlChars /\ "%" \in UrlChars /\ " " \in UrlChars
  BY DEF UrlChars
<1>3. (\A c \in Plain : c \in UrlChars) /\ (\A c \in Hex : c \in UrlChars)
  BY Zenon DEF UrlChars
<1>4. QED
  BY <1>1, <1>2, <1>3

\* At position p of s begins an escape.
Complete(s, p) == p + 2 <= Len(s) /\ s[p + 1] \in Hex /\ s[p + 2] \in Hex

\* Every percent sign from n on begins an escape.
CompleteFrom(s, n) == \A p \in n..Len(s) : s[p] = "%" => Complete(s, p)

EscapesInv ==
    routine = "urldecode" =>
        url \in Seq(UrlChars) /\ i \in Nat \ {0} /\ CompleteFrom(url, i)

\* A string with one character between two others, character by character.
LEMMA Between ==
    ASSUME NEW V, NEW a \in Seq(V), NEW x \in V, NEW c \in Seq(V)
    PROVE  /\ (a \o <<x>>) \o c \in Seq(V) /\ Len((a \o <<x>>) \o c) = Len(a) + 1 + Len(c)
           /\ \A j \in 1..Len(a) : ((a \o <<x>>) \o c)[j] = a[j]
           /\ ((a \o <<x>>) \o c)[Len(a) + 1] = x
           /\ \A j \in 1..Len(c) : ((a \o <<x>>) \o c)[Len(a) + 1 + j] = c[j]
<1>1. <<x>> \in Seq(V) /\ Len(<<x>>) = 1 /\ <<x>>[1] = x
  OBVIOUS
<1>2. Len(a) \in Nat /\ Len(c) \in Nat
  OBVIOUS
<1> DEFINE b == a \o <<x>>
<1>3. /\ b \in Seq(V) /\ Len(b) = Len(a) + 1
      /\ \A n \in 1..(Len(a) + 1) : b[n] = IF n <= Len(a) THEN a[n] ELSE <<x>>[n - Len(a)]
  BY <1>1, ConcatProperties
<1>4. b[Len(a) + 1] = x /\ \A n \in 1..Len(a) : b[n] = a[n]
  <2>1. PICK n \in 1..(Len(a) + 1) : n = Len(a) + 1 /\ ~ (n <= Len(a)) /\ n - Len(a) = 1
    BY <1>2
  <2>2. b[n] = <<x>>[1]
    BY <1>3, <2>1
  <2>3. \A m \in 1..Len(a) : m \in 1..(Len(a) + 1) /\ m <= Len(a)
    BY <1>2
  <2>4. QED
    BY <1>1, <1>3, <2>1, <2>2, <2>3
<1> HIDE DEF b
<1>5. /\ b \o c \in Seq(V) /\ Len(b \o c) = Len(b) + Len(c)
      /\ \A n \in 1..(Len(b) + Len(c)) : (b \o c)[n] = IF n <= Len(b) THEN b[n] ELSE c[n - Len(b)]
  BY <1>3, ConcatProperties
<1>6. \A n \in 1..(Len(a) + 1) : n \in 1..(Len(b) + Len(c)) /\ n <= Len(b)
  BY <1>2, <1>3
<1>7. \A n \in 1..(Len(a) + 1) : (b \o c)[n] = b[n]
  BY <1>5, <1>6
<1>8. ASSUME NEW j \in 1..Len(c) PROVE (b \o c)[Len(a) + 1 + j] = c[j]
  <2>1. PICK n \in 1..(Len(b) + Len(c)) : n = Len(a) + 1 + j /\ ~ (n <= Len(b)) /\ n - Len(b) = j
    <3>1. \A y, z \in Nat : \A m \in 1..z :
              y + 1 + m \in 1..(y + 1 + z) /\ ~ (y + 1 + m <= y + 1) /\ (y + 1 + m) - (y + 1) = m
      OBVIOUS
    <3>2. QED
      BY <1>2, <1>3, <3>1
  <2>2. QED
    BY <1>5, <2>1
<1>9. /\ Len(a) + 1 \in 1..(Len(a) + 1)
      /\ \A n \in 1..Len(a) : n \in 1..(Len(a) + 1)
  BY <1>2
<1>10. QED
  BY <1>3, <1>4, <1>5, <1>7, <1>8, <1>9 DEF b

LEMMA UnitsAreComplete ==
    ASSUME NEW u \in Units PROVE u \in Seq(UrlChars) /\ CompleteFrom(u, 1)
<1>1. Plain \subseteq UrlChars /\ Hex \subseteq UrlChars /\ "+" \in UrlChars /\ "%" \in UrlChars
  BY UrlCharsAre
<1>2. CASE u \in PlainUnits
  <2>1. PICK c \in Plain : u = <<c>>
    BY <1>2 DEF PlainUnits
  <2>2. c # "%"
    BY TokensAssumption
  <2>3. u \in Seq(UrlChars) /\ Len(u) = 1 /\ u[1] = c
    BY <1>1, <2>1
  <2>4. QED
    BY <2>2, <2>3 DEF CompleteFrom
<1>3. CASE u \in EscapeUnits
  <2>1. PICK h, l \in Hex : u = <<"%", h, l>>
    BY <1>3 DEF EscapeUnits, escape
  <2>2. h # "%" /\ l # "%"
    BY TokensAssumption
  <2>3. u \in Seq(UrlChars) /\ Len(u) = 3 /\ u[2] = h /\ u[3] = l
    BY <1>1, <2>1
  <2>4. \A p \in 1..3 : u[p] = "%" => p = 1
    BY <2>2, <2>3
  <2>5. Complete(u, 1)
    BY <2>3 DEF Complete
  <2>6. QED
    BY <2>3, <2>4, <2>5 DEF CompleteFrom
<1>4. CASE u = <<"+">>
  <2>1. u \in Seq(UrlChars) /\ Len(u) = 1 /\ u[1] # "%"
    BY <1>1, <1>4
  <2>2. QED
    BY <2>1 DEF CompleteFrom
<1>5. QED
  BY <1>2, <1>3, <1>4 DEF Units

LEMMA CompleteTogether ==
    ASSUME NEW V, NEW a \in Seq(V), NEW b \in Seq(V), CompleteFrom(a, 1), CompleteFrom(b, 1)
    PROVE  CompleteFrom(a \o b, 1)
<1>1. /\ a \o b \in Seq(V) /\ Len(a \o b) = Len(a) + Len(b)
      /\ \A n \in 1..(Len(a) + Len(b)) : (a \o b)[n] = IF n <= Len(a) THEN a[n] ELSE b[n - Len(a)]
  BY ConcatProperties
<1>2. Len(a) \in Nat /\ Len(b) \in Nat
  OBVIOUS
<1>3. ASSUME NEW p \in 1..(Len(a) + Len(b)), (a \o b)[p] = "%" PROVE Complete(a \o b, p)
  <2>1. CASE p <= Len(a)
    <3>1. p \in 1..Len(a) /\ a[p] = "%"
      BY <1>1, <1>2, <1>3, <2>1
    <3>2. p + 2 <= Len(a) /\ a[p + 1] \in Hex /\ a[p + 2] \in Hex
      BY <3>1 DEF CompleteFrom, Complete
    <3>3. /\ p + 1 \in 1..(Len(a) + Len(b)) /\ p + 1 <= Len(a)
          /\ p + 2 \in 1..(Len(a) + Len(b)) /\ p + 2 <= Len(a) /\ p + 2 <= Len(a) + Len(b)
      BY <1>2, <3>1, <3>2
    <3>4. (a \o b)[p + 1] = a[p + 1] /\ (a \o b)[p + 2] = a[p + 2]
      BY <1>1, <3>3
    <3>5. QED
      BY <1>1, <3>2, <3>3, <3>4 DEF Complete
  <2>2. CASE ~ (p <= Len(a))
    <3>1. PICK q \in 1..Len(b) : q = p - Len(a)
      BY <1>2, <2>2
    <3>2. b[q] = "%"
      BY <1>1, <1>3, <2>2, <3>1
    <3>3. q + 2 <= Len(b) /\ b[q + 1] \in Hex /\ b[q + 2] \in Hex
      BY <3>2 DEF CompleteFrom, Complete
    <3>4. /\ p + 1 \in 1..(Len(a) + Len(b)) /\ ~ (p + 1 <= Len(a)) /\ (p + 1) - Len(a) = q + 1
          /\ p + 2 \in 1..(Len(a) + Len(b)) /\ ~ (p + 2 <= Len(a)) /\ (p + 2) - Len(a) = q + 2
          /\ p + 2 <= Len(a) + Len(b)
      BY <1>2, <2>2, <3>1, <3>3
    <3>5. (a \o b)[p + 1] = b[q + 1] /\ (a \o b)[p + 2] = b[q + 2]
      BY <1>1, <3>4
    <3>6. QED
      BY <1>1, <3>3, <3>4, <3>5 DEF Complete
  <2>3. QED
    BY <2>1, <2>2
<1>4. QED
  BY <1>1, <1>3 DEF CompleteFrom

LEMMA EscapesStart ==
    ASSUME InputKept, TextInit PROVE EscapesInv
<1> SUFFICES ASSUME routine = "urldecode"
             PROVE  url \in Seq(UrlChars) /\ i \in Nat \ {0} /\ CompleteFrom(url, i)
  BY DEF EscapesInv
<1> DEFINE Q == {s \in Seq(UrlChars) : CompleteFrom(s, 1)}
<1>1. units \in Seq(Units)
  BY InputsAssumption DEF InputKept
<1>2. units \in Seq(Q)
  <2>1. Units \subseteq Q
    BY UnitsAreComplete
  <2> HIDE DEF Q
  <2>2. QED
    BY <1>1, <2>1, SeqMonotonic
<1>3. <<>> \in Q
  BY DEF CompleteFrom
<1>4. \A a, b \in Q : a \o b \in Q
  <2>1. ASSUME NEW a \in Q, NEW b \in Q PROVE a \o b \in Q
    <3>1. a \o b \in Seq(UrlChars)
      BY ConcatProperties
    <3>2. CompleteFrom(a \o b, 1)
      BY CompleteTogether
    <3>3. QED
      BY <3>1, <3>2
  <2>2. QED
    BY <2>1
<1>5. input \in Q
  <2>1. Q \in SUBSET Seq(UrlChars)
    OBVIOUS
  <2> HIDE DEF Q
  <2>2. QED
    BY <1>2, <1>3, <1>4, <2>1, FlattenClosed DEF input
<1>6. url = input /\ i = 1
  BY DEF TextInit, builds
<1>7. QED
  BY <1>5, <1>6

LEMMA EscapesGoOn ==
    ASSUME EscapesInv, routine = "urldecode", urldecode
    PROVE  EscapesInv'
<1>1. url \in Seq(UrlChars) /\ i \in Nat \ {0} /\ CompleteFrom(url, i) /\ Len(url) \in Nat
  BY DEF EscapesInv
<1>2. Next /\ routine' = routine
  BY DEF urldecode
<1>3. SUFFICES url' \in Seq(UrlChars) /\ i' \in Nat \ {0} /\ CompleteFrom(url', i')
  BY DEF EscapesInv, CompleteFrom, Complete
<1>4. CASE url' = url /\ i' \in Nat /\ i' >= i
  BY <1>1, <1>4 DEF CompleteFrom
<1>5. CASE plus
  <2>1. i \in 1..Len(url) /\ url' = [url EXCEPT ![i] = " "] /\ i' = i + 1
    <3>1. i <= Len(url) /\ url' = [url EXCEPT ![i] = " "] /\ i' = i + 1
      BY <1>5, Zenon DEF plus, Goes
    <3>2. \A n \in Nat \ {0} : \A m \in Nat : n <= m => n \in 1..m
      OBVIOUS
    <3>3. QED
      BY <1>1, <3>1, <3>2, Zenon
  <2>2. " " \in UrlChars
    BY UrlCharsAre
  <2>3. /\ url' \in Seq(UrlChars) /\ Len(url') = Len(url)
        /\ \A j \in 1..Len(url) : url'[j] = IF j = i THEN " " ELSE url[j]
    <3>1. DOMAIN url = 1..Len(url) /\ \A j \in 1..Len(url) : url[j] \in UrlChars
      BY <1>1
    <3>2. /\ url' \in [1..Len(url) -> UrlChars]
          /\ \A j \in 1..Len(url) : url'[j] = IF j = i THEN " " ELSE url[j]
      BY <2>1, <2>2, <3>1
    <3>3. QED
      BY <1>1, <3>2, MapIsSeq
  <2>4. ASSUME NEW p \in (i + 1)..Len(url), url'[p] = "%" PROVE Complete(url', p)
    <3>1. p \in i..Len(url) /\ p \in 1..Len(url) /\ p # i
      BY <1>1
    <3>2. Complete(url, p)
      BY <1>1, <2>3, <2>4, <3>1 DEF CompleteFrom
    <3>3. /\ p + 1 \in 1..Len(url) /\ p + 1 # i /\ p + 2 \in 1..Len(url) /\ p + 2 # i
          /\ p + 2 <= Len(url)
      BY <1>1, <3>1, <3>2 DEF Complete
    <3>4. QED
      BY <2>3, <3>2, <3>3 DEF Complete
  <2>5. CompleteFrom(url', i + 1)
    <3>1. \A p \in (i + 1)..Len(url') : url'[p] = "%" => Complete(url', p)
      BY <2>3, <2>4, Zenon
    <3>2. QED
      BY <3>1, Zenon DEF CompleteFrom
  <2>6. i' \in Nat \ {0}
    <3>1. \A n \in Nat \ {0} : n + 1 \in Nat \ {0}
      OBVIOUS
    <3>2. QED
      BY <1>1, <2>1, <3>1, Zenon
  <2>7. QED
    BY <2>1, <2>3, <2>5, <2>6
<1>6. CASE escaped
  <2> DEFINE a == SubSeq(url, 1, i - 1)
             d == decoded(url[i + 1], url[i + 2])
             c == SubSeq(url, i + 3, Len(url))
  <2>1. /\ i \in 1..Len(url) /\ i + 2 <= Len(url) /\ url[i + 1] \in Hex /\ url[i + 2] \in Hex
        /\ url' = (a \o <<d>>) \o c /\ i' = i + 3
    BY <1>1, <1>6 DEF escaped, Goes, two_digits, replaced
  <2>2. d \in UrlChars
    BY <2>1, UrlCharsAre, Zenon
  <2>3. a \in Seq(UrlChars) /\ Len(a) = i - 1
    <3>1. i - 1 \in Int /\ \A j \in 1..(i - 1) : url[j] \in UrlChars
      BY <1>1, <2>1
    <3>2. /\ a \in Seq(UrlChars)
          /\ Len(a) = IF 1 <= i - 1 THEN (i - 1) - 1 + 1 ELSE 0
      BY <3>1, SubSeqProperties
    <3>3. QED
      BY <1>1, <3>2
  <2>4. /\ c \in Seq(UrlChars) /\ Len(c) = Len(url) - (i + 2)
        /\ \A j \in 1..(Len(url) - (i + 2)) : c[j] = url[(i + 2) + j]
    <3>1. i + 2 \in 0..Len(url) /\ (i + 2) + 1 = i + 3
      BY <1>1, <2>1
    <3>2. c = Rest(url, i + 2)
      BY <3>1 DEF Rest
    <3> HIDE DEF c
    <3>3. QED
      BY <1>1, <3>1, <3>2, RestPlaces
  <2> HIDE DEF a, c, d
  <2>5. /\ url' \in Seq(UrlChars) /\ Len(url') = Len(a) + 1 + Len(c)
        /\ \A j \in 1..Len(c) : url'[Len(a) + 1 + j] = c[j]
    <3>1. a \in Seq(UrlChars) /\ c \in Seq(UrlChars)
      BY <2>3, <2>4
    <3>2. /\ (a \o <<d>>) \o c \in Seq(UrlChars)
          /\ Len((a \o <<d>>) \o c) = Len(a) + 1 + Len(c)
          /\ \A j \in 1..Len(c) : ((a \o <<d>>) \o c)[Len(a) + 1 + j] = c[j]
      BY <2>2, <3>1, Between
    <3>3. url' = (a \o <<d>>) \o c
      BY <2>1
    <3>4. QED
      BY <3>2, <3>3
  <2>6. Len(a) + 1 = i /\ Len(url') = Len(url) - 2
    <3>1. Len(a) = i - 1 /\ Len(c) = Len(url) - (i + 2) /\ Len(url') = Len(a) + 1 + Len(c)
      BY <2>3, <2>4, <2>5
    <3>2. \A x, y \in Nat : (x - 1) + 1 = x /\ (x - 1) + 1 + (y - (x + 2)) = y - 2
      OBVIOUS
    <3>3. QED
      BY <1>1, <3>1, <3>2
  <2>7. ASSUME NEW q \in (i + 1)..(Len(url) - 2) PROVE url'[q] = url[q + 2]
    <3>1. PICK j \in 1..(Len(url) - (i + 2)) : q = i + j /\ q + 2 = (i + 2) + j
      <4>1. \A x, y \in Nat : \A m \in (x + 1)..(y - 2) :
                m - x \in 1..(y - (x + 2)) /\ m = x + (m - x) /\ m + 2 = (x + 2) + (m - x)
        OBVIOUS
      <4>2. QED
        BY <1>1, <4>1
    <3>2. url'[i + j] = c[j]
      BY <2>4, <2>5, <2>6
    <3>3. QED
      BY <2>4, <3>1, <3>2
  <2>8. ASSUME NEW p \in (i + 3)..(Len(url) - 2), url'[p] = "%" PROVE Complete(url', p)
    <3>1. /\ p \in (i + 1)..(Len(url) - 2) /\ p + 2 \in i..Len(url)
          /\ (p + 2) + 2 = (p + 2) + 2 /\ (p + 1) + 2 = (p + 2) + 1
      BY <1>1
    <3>2. Complete(url, p + 2)
      BY <1>1, <2>7, <2>8, <3>1 DEF CompleteFrom
    <3>3. /\ (p + 2) + 2 <= Len(url)
          /\ p + 1 \in (i + 1)..(Len(url) - 2) /\ p + 2 \in (i + 1)..(Len(url) - 2)
      BY <1>1, <3>1, <3>2 DEF Complete
    <3>4. url'[p + 1] = url[(p + 2) + 1] /\ url'[p + 2] = url[(p + 2) + 2]
      BY <2>7, <3>1, <3>3
    <3>5. p + 2 <= Len(url')
      BY <1>1, <2>6, <3>3
    <3>6. QED
      BY <3>2, <3>4, <3>5 DEF Complete
  <2>9. QED
    BY <1>1, <2>1, <2>5, <2>6, <2>8 DEF CompleteFrom
<1>7. QED
  BY <1>1, <1>2, <1>4, <1>5, <1>6 DEF Next, finish, other, beyond, Goes

\* Characters a, b and c in a row: where b lies, and what is behind it.
LEMMA InARow ==
    ASSUME NEW V, NEW a \in Seq(V), NEW b \in Seq(V), NEW c \in Seq(V), b # <<>>
    PROVE  /\ a \o (b \o c) \in Seq(V) /\ Len(a \o (b \o c)) = Len(a) + Len(b) + Len(c)
           /\ \A j \in 1..Len(b) : (a \o (b \o c))[Len(a) + j] = b[j]
           /\ SubSeq(a \o (b \o c), 1, Len(a)) = a
           /\ Rest(a \o (b \o c), Len(a) + Len(b)) = c
<1> DEFINE w == a \o (b \o c)
<1>1. /\ b \o c \in Seq(V) /\ Len(b \o c) = Len(b) + Len(c)
      /\ \A n \in 1..(Len(b) + Len(c)) : (b \o c)[n] = IF n <= Len(b) THEN b[n] ELSE c[n - Len(b)]
  BY ConcatProperties
<1>2. Len(a) \in Nat /\ Len(b) \in Nat /\ Len(c) \in Nat
  OBVIOUS
<1>3. b \o c # <<>>
  BY ConcatEqualIffEmpty
<1>4. SubSeq(w, 1, Len(a)) = a
  BY <1>1, <1>3, Around
<1>5. /\ w \in Seq(V) /\ Len(w) = Len(a) + (Len(b) + Len(c))
      /\ \A n \in 1..(Len(a) + (Len(b) + Len(c))) :
             w[n] = IF n <= Len(a) THEN a[n] ELSE (b \o c)[n - Len(a)]
  <2>1. /\ w \in Seq(V) /\ Len(w) = Len(a) + Len(b \o c)
        /\ \A n \in 1..(Len(a) + Len(b \o c)) :
               w[n] = IF n <= Len(a) THEN a[n] ELSE (b \o c)[n - Len(a)]
    BY <1>1, ConcatProperties
  <2>2. QED
    BY <1>1, <2>1
<1> HIDE DEF w
<1>6. ASSUME NEW m \in 1..(Len(b) + Len(c)) PROVE w[Len(a) + m] = (b \o c)[m]
  <2>1. \A x, y \in Nat : \A k \in 1..y :
            x + k \in 1..(x + y) /\ ~ (x + k <= x) /\ (x + k) - x = k
    OBVIOUS
  <2>2. Len(b) + Len(c) \in Nat
    BY <1>2
  <2>3. PICK n \in 1..(Len(a) + (Len(b) + Len(c))) :
            n = Len(a) + m /\ ~ (n <= Len(a)) /\ n - Len(a) = m
    BY <1>2, <2>1, <2>2, Zenon
  <2>4. QED
    BY <1>5, <2>3
<1>7. ASSUME NEW j \in 1..Len(b) PROVE w[Len(a) + j] = b[j]
  <2>1. j \in 1..(Len(b) + Len(c)) /\ j <= Len(b)
    BY <1>2
  <2>2. QED
    BY <1>1, <1>6, <2>1
<1>8. Rest(w, Len(a) + Len(b)) = c
  <2>1. /\ Len(a) + Len(b) \in 0..Len(w) /\ Len(w) - (Len(a) + Len(b)) = Len(c)
        /\ Len(w) = Len(a) + Len(b) + Len(c)
    <3>1. \A x, y, z \in Nat : /\ x + y \in 0..(x + (y + z)) /\ (x + (y + z)) - (x + y) = z
                               /\ x + (y + z) = x + y + z
      OBVIOUS
    <3>2. Len(w) = Len(a) + (Len(b) + Len(c))
      BY <1>5
    <3>3. QED
      BY <1>2, <3>1, <3>2
  <2>2. /\ Rest(w, Len(a) + Len(b)) \in Seq(V) /\ Len(Rest(w, Len(a) + Len(b))) = Len(c)
        /\ \A k \in 1..Len(c) : Rest(w, Len(a) + Len(b))[k] = w[(Len(a) + Len(b)) + k]
    <3>1. /\ Rest(w, Len(a) + Len(b)) \in Seq(V)
          /\ Len(Rest(w, Len(a) + Len(b))) = Len(w) - (Len(a) + Len(b))
          /\ \A k \in 1..(Len(w) - (Len(a) + Len(b))) :
                 Rest(w, Len(a) + Len(b))[k] = w[(Len(a) + Len(b)) + k]
      BY <1>5, <2>1, RestPlaces
    <3>2. QED
      BY <2>1, <3>1
  <2>3. ASSUME NEW k \in 1..Len(c) PROVE Rest(w, Len(a) + Len(b))[k] = c[k]
    <3>1. PICK m \in 1..(Len(b) + Len(c)) :
              /\ m = Len(b) + k /\ ~ (m <= Len(b)) /\ m - Len(b) = k
              /\ (Len(a) + Len(b)) + k = Len(a) + m
      <4>1. \A x, y, z \in Nat : \A n \in 1..z :
                /\ y + n \in 1..(y + z) /\ ~ (y + n <= y) /\ (y + n) - y = n
                /\ (x + y) + n = x + (y + n)
        OBVIOUS
      <4>2. /\ Len(b) + k \in 1..(Len(b) + Len(c)) /\ ~ (Len(b) + k <= Len(b))
            /\ (Len(b) + k) - Len(b) = k /\ (Len(a) + Len(b)) + k = Len(a) + (Len(b) + k)
        BY <1>2, <4>1
      <4>3. QED
        BY <4>2, Zenon
    <3>2. w[Len(a) + m] = (b \o c)[m] /\ (b \o c)[m] = c[k]
      BY <1>1, <1>6, <3>1
    <3>3. QED
      BY <2>2, <3>1, <3>2
  <2>4. QED
    BY <2>2, <2>3, SeqEqual
<1>9. Len(w) = Len(a) + Len(b) + Len(c)
  BY <1>2, <1>5
<1>10. QED
  BY <1>4, <1>5, <1>7, <1>8, <1>9 DEF w

\* What the first k units stand for, and what the string is when they are decoded.
DecodedUpto(k) == SubSeq(Reference, 1, k)
Halfway(k)     == DecodedUpto(k) \o FlattenSeq(Rest(units, k))

LEMMA ReferenceFacts ==
    ASSUME units \in Seq(Units)
    PROVE  /\ units \in Seq(Seq(UrlChars)) /\ Len(units) \in Nat
           /\ \A k \in 1..Len(units) : units[k] \in Units
           /\ Reference \in Seq(UrlChars) /\ Len(Reference) = Len(units)
           /\ \A k \in 1..Len(units) : Reference[k] = Meaning(units[k])
<1>1. /\ Len(units) \in Nat /\ DOMAIN units = 1..Len(units)
      /\ \A k \in 1..Len(units) : units[k] \in Units
  OBVIOUS
<1>2. units \in Seq(Seq(UrlChars))
  <2>1. Units \subseteq Seq(UrlChars)
    BY UnitsAreComplete
  <2>2. QED
    BY <2>1, SeqMonotonic
<1>3. \A u \in Units : Meaning(u) \in UrlChars
  <2> SUFFICES ASSUME NEW u \in Units PROVE Meaning(u) \in UrlChars
    OBVIOUS
  <2>1. CASE u = <<"+">>
    BY <2>1, UrlCharsAre DEF Meaning
  <2>2. CASE u # <<"+">> /\ u \in EscapeUnits
    <3>1. PICK h, l \in Hex : u = <<"%", h, l>>
      BY <2>2 DEF EscapeUnits, escape
    <3>2. u[2] = h /\ u[3] = l
      BY <3>1
    <3>3. Meaning(u) = decoded(h, l)
      BY <2>2, <3>2 DEF Meaning
    <3>4. QED
      BY <3>3, UrlCharsAre
  <2>3. CASE u # <<"+">> /\ u \notin EscapeUnits
    <3>1. PICK c \in Plain : u = <<c>>
      BY <2>3 DEF Units, PlainUnits
    <3>2. Meaning(u) = c
      BY <2>3, <3>1 DEF Meaning
    <3>3. QED
      BY <3>2, UrlCharsAre
  <2>4. QED
    BY <2>1, <2>2, <2>3
<1>4. Reference \in [1..Len(units) -> UrlChars]
  BY <1>1, <1>3 DEF Reference
<1>5. Reference \in Seq(UrlChars) /\ Len(Reference) = Len(units)
  BY <1>1, <1>4, MapIsSeq
<1>6. QED
  BY <1>1, <1>2, <1>5 DEF Reference

LEMMA DecodedFacts ==
    ASSUME units \in Seq(Units)
    PROVE  /\ \A k \in 0..Len(units) : DecodedUpto(k) \in Seq(UrlChars) /\ Len(DecodedUpto(k)) = k
           /\ DecodedUpto(0) = <<>> /\ DecodedUpto(Len(units)) = Reference
           /\ \A k \in 0..(Len(units) - 1) :
                  DecodedUpto(k + 1) = DecodedUpto(k) \o <<Reference[k + 1]>>
<1>1. Reference \in Seq(UrlChars) /\ Len(Reference) = Len(units) /\ Len(units) \in Nat
  BY ReferenceFacts
<1>2. ASSUME NEW k \in 0..Len(units)
      PROVE  DecodedUpto(k) \in Seq(UrlChars) /\ Len(DecodedUpto(k)) = k
  <2>1. \A j \in 1..k : Reference[j] \in UrlChars
    BY <1>1
  <2>2. k \in Int /\ 1 \in Int
    OBVIOUS
  <2>3. /\ SubSeq(Reference, 1, k) \in Seq(UrlChars)
        /\ Len(SubSeq(Reference, 1, k)) = IF 1 <= k THEN k - 1 + 1 ELSE 0
    BY <2>1, <2>2, SubSeqProperties
  <2>4. QED
    BY <2>3 DEF DecodedUpto
<1>3. DecodedUpto(0) = <<>>
  BY SubSeqEmpty DEF DecodedUpto
<1>4. DecodedUpto(Len(units)) = Reference
  <2>1. SubSeq(Reference, 1, Len(Reference)) = Reference
    BY <1>1, SubSeqFull
  <2>2. QED
    BY <1>1, <2>1 DEF DecodedUpto
<1>5. ASSUME NEW k \in 0..(Len(units) - 1)
      PROVE  DecodedUpto(k + 1) = DecodedUpto(k) \o <<Reference[k + 1]>>
  <2>1. PICK n \in 1..Len(Reference) : n = k + 1 /\ n - 1 = k /\ 1 \in 1..Len(Reference)
    BY <1>1
  <2>2. SubSeq(Reference, 1, n) = SubSeq(Reference, 1, n - 1) \o <<Reference[n]>>
    BY <1>1, <2>1, SubSeqRecursiveSecond
  <2>3. QED
    BY <2>1, <2>2 DEF DecodedUpto
<1>6. QED
  BY <1>2, <1>3, <1>4, <1>5

\* The string in front of unit k + 1, and when that has been replaced.
LEMMA HalfwayAt ==
    ASSUME units \in Seq(Units), NEW k \in 0..(Len(units) - 1)
    PROVE  /\ FlattenSeq(Rest(units, k + 1)) \in Seq(UrlChars)
           /\ Halfway(k) = DecodedUpto(k) \o (units[k + 1] \o FlattenSeq(Rest(units, k + 1)))
           /\ (DecodedUpto(k) \o <<Reference[k + 1]>>) \o FlattenSeq(Rest(units, k + 1))
                  = Halfway(k + 1)
<1>1. units \in Seq(Seq(UrlChars)) /\ Len(units) \in Nat
  BY ReferenceFacts
<1>2. k + 1 \in 1..Len(units) /\ k + 1 \in 0..Len(units)
  BY <1>1
<1>3. FlattenSeq(Rest(units, k)) = units[k + 1] \o FlattenSeq(Rest(units, k + 1))
  BY <1>1, <1>2, FlattenFrom DEF Rest
<1>4. FlattenSeq(Rest(units, k + 1)) \in Seq(UrlChars)
  BY <1>1, <1>2, FlattenSplit
<1>5. DecodedUpto(k + 1) = DecodedUpto(k) \o <<Reference[k + 1]>>
  BY DecodedFacts
<1>6. QED
  BY <1>3, <1>4, <1>5 DEF Halfway

LEMMA PlainPassed ==
    ASSUME units \in Seq(Units), NEW k \in 0..(Len(units) - 1), units[k + 1] \in PlainUnits
    PROVE  /\ Halfway(k + 1) = Halfway(k)
           /\ \E c \in Plain : units[k + 1] = <<c>>
<1>1. PICK c \in Plain : units[k + 1] = <<c>>
  BY DEF PlainUnits
<1>2. k + 1 \in 1..Len(units) /\ k \in 0..Len(units)
  OBVIOUS
<1>3. Reference[k + 1] = c
  <2>1. Reference[k + 1] = Meaning(<<c>>)
    BY <1>1, <1>2, ReferenceFacts
  <2>2. <<c>> # <<"+">>
    BY TokensAssumption
  <2>3. <<c>> \notin EscapeUnits
    BY DEF EscapeUnits, escape
  <2>4. <<c>>[1] = c
    OBVIOUS
  <2>5. QED
    BY <2>1, <2>2, <2>3, <2>4 DEF Meaning
<1>4. /\ <<c>> \in Seq(UrlChars) /\ DecodedUpto(k) \in Seq(UrlChars)
      /\ FlattenSeq(Rest(units, k + 1)) \in Seq(UrlChars)
  <2>1. c \in UrlChars
    BY UrlCharsAre
  <2>2. <<c>> \in Seq(UrlChars)
    BY <2>1
  <2>3. DecodedUpto(k) \in Seq(UrlChars)
    BY <1>2, DecodedFacts
  <2>4. FlattenSeq(Rest(units, k + 1)) \in Seq(UrlChars)
    BY HalfwayAt
  <2>5. QED
    BY <2>2, <2>3, <2>4
<1>5. (DecodedUpto(k) \o <<c>>) \o FlattenSeq(Rest(units, k + 1))
          = DecodedUpto(k) \o (<<c>> \o FlattenSeq(Rest(units, k + 1)))
  BY <1>4, Regrouped
<1>6. QED
  BY <1>1, <1>3, <1>5, HalfwayAt

\* One character of a string is replaced in place.
LEMMA Swapped ==
    ASSUME NEW V, NEW a \in Seq(V), NEW x \in V, NEW y \in V, NEW c \in Seq(V)
    PROVE  [((a \o <<x>>) \o c) EXCEPT ![Len(a) + 1] = y] = (a \o <<y>>) \o c
<1> DEFINE s == (a \o <<x>>) \o c
           t == (a \o <<y>>) \o c
           r == [s EXCEPT ![Len(a) + 1] = y]
<1>1. /\ s \in Seq(V) /\ Len(s) = Len(a) + 1 + Len(c)
      /\ \A j \in 1..Len(a) : s[j] = a[j]
      /\ \A j \in 1..Len(c) : s[Len(a) + 1 + j] = c[j]
  BY Between
<1>2. /\ t \in Seq(V) /\ Len(t) = Len(a) + 1 + Len(c)
      /\ \A j \in 1..Len(a) : t[j] = a[j]
      /\ t[Len(a) + 1] = y
      /\ \A j \in 1..Len(c) : t[Len(a) + 1 + j] = c[j]
  BY Between
<1>3. Len(a) \in Nat /\ Len(c) \in Nat
  OBVIOUS
<1> HIDE DEF s, t
<1>4. DOMAIN s = 1..Len(s) /\ \A j \in 1..Len(s) : s[j] \in V
  BY <1>1
<1>5. r \in [1..Len(s) -> V] /\ \A j \in 1..Len(s) : r[j] = IF j = Len(a) + 1 THEN y ELSE s[j]
  BY <1>4
<1>6. Len(s) \in Nat
  BY <1>1
<1> HIDE DEF r
<1>7. r \in Seq(V) /\ Len(r) = Len(s)
  BY <1>5, <1>6, MapIsSeq
<1>8. ASSUME NEW j \in 1..Len(r) PROVE r[j] = t[j]
  <2>1. j \in 1..Len(s) /\ r[j] = IF j = Len(a) + 1 THEN y ELSE s[j]
    BY <1>5, <1>7
  <2>2. CASE j \in 1..Len(a)
    <3>1. j # Len(a) + 1
      BY <1>3, <2>2
    <3>2. QED
      BY <1>1, <1>2, <2>1, <2>2, <3>1
  <2>3. CASE j = Len(a) + 1
    BY <1>2, <2>1, <2>3
  <2>4. CASE \E n \in 1..Len(c) : j = Len(a) + 1 + n
    <3>1. PICK n \in 1..Len(c) : j = Len(a) + 1 + n
      BY <2>4
    <3>2. j # Len(a) + 1
      BY <1>3, <3>1
    <3>3. QED
      BY <1>1, <1>2, <2>1, <3>1, <3>2
  <2>5. j \in 1..Len(a) \/ j = Len(a) + 1 \/ \E n \in 1..Len(c) : j = Len(a) + 1 + n
    <3>1. \A p, q \in Nat : \A m \in 1..(p + 1 + q) :
              m \in 1..p \/ m = p + 1 \/ (m - (p + 1) \in 1..q /\ m = p + 1 + (m - (p + 1)))
      OBVIOUS
    <3>2. j \in 1..(Len(a) + 1 + Len(c))
      BY <1>1, <2>1
    <3>3. \/ j \in 1..Len(a) \/ j = Len(a) + 1
          \/ j - (Len(a) + 1) \in 1..Len(c) /\ j = Len(a) + 1 + (j - (Len(a) + 1))
      BY <1>3, <3>1, <3>2
    <3>4. QED
      BY <3>3, Zenon
  <2>6. QED
    BY <2>2, <2>3, <2>4, <2>5
<1>9. QED
  BY <1>1, <1>2, <1>7, <1>8, SeqEqual DEF r, s, t

\* Between two steps the units decoded so far are in front, the others behind.
SpacedInv ==
    routine = "urldecode" /\ Spaced =>
        /\ status \in {"running", "done"}
        /\ status = "running" => \E k \in 0..Len(units) : i = k + 1 /\ url = Halfway(k)
        /\ status = "done" => url = Reference

LEMMA SpacedStarts ==
    ASSUME InputKept, TextInit PROVE SpacedInv
<1> SUFFICES ASSUME routine = "urldecode"
             PROVE  \E k \in 0..Len(units) : i = k + 1 /\ url = Halfway(k)
  BY DEF SpacedInv, TextInit
<1>1. units \in Seq(Units)
  BY InputsAssumption DEF InputKept
<1>2. units \in Seq(Seq(UrlChars)) /\ Len(units) \in Nat
  BY <1>1, ReferenceFacts
<1>3. DecodedUpto(0) = <<>> /\ Rest(units, 0) = units /\ FlattenSeq(units) \in Seq(UrlChars)
  BY <1>1, <1>2, DecodedFacts, RestFacts, FlattenType
<1>4. <<>> \o FlattenSeq(units) = FlattenSeq(units)
  BY <1>3, ConcatEmptySeq
<1>5. url = Halfway(0) /\ i = 0 + 1
  BY <1>3, <1>4 DEF TextInit, builds, input, Halfway
<1>6. 0 \in 0..Len(units)
  BY <1>2
<1>7. QED
  BY <1>5, <1>6, Zenon

\* One step in front of unit k + 1 replaces it; that of an escape passes the next
\* two units besides.
LEMMA UnitDecoded ==
    ASSUME units \in Seq(Units), Spaced, Next, status = "running",
           NEW k \in 0..(Len(units) - 1), i = k + 1, url = Halfway(k)
    PROVE  /\ UNCHANGED <<units, status>>
           /\ \E n \in 0..Len(units) : i' = n + 1 /\ url' = Halfway(n)
<1> DEFINE a == DecodedUpto(k)
           u == units[k + 1]
           F == FlattenSeq(Rest(units, k + 1))
<1>1. /\ Len(units) \in Nat /\ k \in Nat /\ k + 1 \in 1..Len(units) /\ k + 1 \in 0..Len(units)
      /\ k \in 0..Len(units)
  OBVIOUS
<1>2. u \in Units /\ u \in Seq(UrlChars)
  BY <1>1, UnitsAreComplete, ReferenceFacts
<1>3. u # <<>> /\ Len(u) \in Nat \ {0}
  <2>1. u # <<>>
    <3>1. CASE u \in PlainUnits
      <4>1. PICK c \in Plain : u = <<c>>
        BY <3>1 DEF PlainUnits
      <4>2. QED
        BY <4>1
    <3>2. CASE u \in EscapeUnits
      <4>1. PICK h, l \in Hex : u = <<"%", h, l>>
        BY <3>2 DEF EscapeUnits, escape
      <4>2. QED
        BY <4>1
    <3>3. CASE u = <<"+">>
      BY <3>3
    <3>4. QED
      BY <1>2, <3>1, <3>2, <3>3 DEF Units
  <2>2. QED
    BY <1>2, <2>1, EmptySeq
<1>4. a \in Seq(UrlChars) /\ Len(a) = k
  BY <1>1, DecodedFacts
<1>5. F \in Seq(UrlChars) /\ url = a \o (u \o F)
  BY HalfwayAt
<1>6. (a \o <<Meaning(u)>>) \o F = Halfway(k + 1)
  <2>1. Reference[k + 1] = Meaning(u)
    BY <1>1, ReferenceFacts
  <2>2. QED
    BY <2>1, HalfwayAt
<1> HIDE DEF a, u, F
<1>7. /\ url \in Seq(UrlChars) /\ Len(url) = k + Len(u) + Len(F)
      /\ \A j \in 1..Len(u) : url[k + j] = u[j]
      /\ SubSeq(url, 1, k) = a
      /\ Rest(url, k + Len(u)) = F
  <2>1. /\ a \o (u \o F) \in Seq(UrlChars) /\ Len(a \o (u \o F)) = Len(a) + Len(u) + Len(F)
        /\ \A j \in 1..Len(u) : (a \o (u \o F))[Len(a) + j] = u[j]
        /\ SubSeq(a \o (u \o F), 1, Len(a)) = a
        /\ Rest(a \o (u \o F), Len(a) + Len(u)) = F
    <3>1. a \in Seq(UrlChars) /\ u \in Seq(UrlChars) /\ F \in Seq(UrlChars) /\ u # <<>>
      BY <1>2, <1>3, <1>4, <1>5
    <3>2. QED
      BY <3>1, InARow
  <2>2. QED
    BY <1>4, <1>5, <2>1
<1>8. /\ i <= Len(url) /\ i # Len(url) + 1 /\ ~ (i > Len(url) + 1) /\ url[i] = u[1]
  <2>1. Len(F) \in Nat /\ 1 \in 1..Len(u)
    BY <1>3, <1>5
  <2>2. \A x, z \in Nat : \A y \in Nat \ {0} :
            /\ x + 1 <= x + y + z /\ x + 1 # (x + y + z) + 1 /\ ~ (x + 1 > (x + y + z) + 1)
    OBVIOUS
  <2>3. QED
    BY <1>1, <1>3, <1>7, <2>1, <2>2
<1>9. (plus \/ other \/ escaped) /\ UNCHANGED <<units, status>>
  BY <1>8 DEF Next, finish, plus, other, escaped, beyond, Goes
<1>10. CASE u \in PlainUnits
  <2>1. PICK c \in Plain : u = <<c>>
    BY <1>10, PlainPassed DEF u
  <2>2. url[i] # "+" /\ url[i] # "%"
    BY <1>8, <2>1, TokensAssumption
  <2>3. url' = url /\ i' = i + 1
    BY <1>9, <2>2 DEF plus, other, escaped, Goes
  <2>4. Halfway(k + 1) = Halfway(k)
    BY <1>10, PlainPassed DEF u
  <2>5. i' = (k + 1) + 1 /\ url' = Halfway(k + 1)
    BY <2>3, <2>4
  <2>6. QED
    BY <1>1, <1>9, <2>5
<1>11. CASE u = <<"+">>
  <2>1. url[i] = "+"
    BY <1>8, <1>11
  <2>2. url' = [url EXCEPT ![i] = " "] /\ i' = i + 1
    BY <1>9, <2>1 DEF plus, other, escaped, Goes
  <2>3. "+" \in UrlChars /\ " " \in UrlChars
    BY UrlCharsAre
  <2>4. url = (a \o <<"+">>) \o F
    <3>1. <<"+">> \in Seq(UrlChars)
      <4>1. \A c \in UrlChars : <<c>> \in Seq(UrlChars)
        OBVIOUS
      <4>2. QED
        BY <2>3, <4>1, Zenon
    <3>2. (a \o <<"+">>) \o F = a \o (<<"+">> \o F)
      BY <1>4, <1>5, <3>1, Regrouped
    <3>3. QED
      BY <1>5, <1>11, <3>2
  <2>5. [((a \o <<"+">>) \o F) EXCEPT ![Len(a) + 1] = " "] = (a \o <<" ">>) \o F
    <3>1. \A x, y \in UrlChars :
              [((a \o <<x>>) \o F) EXCEPT ![Len(a) + 1] = y] = (a \o <<y>>) \o F
      <4>1. a \in Seq(UrlChars) /\ F \in Seq(UrlChars)
        BY <1>4, <1>5
      <4>2. QED
        BY <4>1, Swapped
    <3>2. QED
      BY <2>3, <3>1
  <2>6. Meaning(u) = " "
    BY <1>11 DEF Meaning
  <2>7. url' = Halfway(k + 1)
    BY <1>4, <1>6, <2>2, <2>4, <2>5, <2>6
  <2>8. i' = (k + 1) + 1
    BY <2>2
  <2>9. QED
    BY <1>1, <1>9, <2>7, <2>8
<1>12. CASE u \in EscapeUnits
  <2>1. PICK h, l \in Hex : u = <<"%", h, l>>
    BY <1>12 DEF EscapeUnits, escape
  <2>2. Len(u) = 3 /\ u[1] = "%" /\ u[2] = h /\ u[3] = l
    BY <2>1
  <2>3. url[i] = "%" /\ url[i + 1] = h /\ url[i + 2] = l
    <3>1. 2 \in 1..Len(u) /\ 3 \in 1..Len(u) /\ k + 2 = i + 1 /\ k + 3 = i + 2
      BY <1>1, <2>2
    <3>2. url[k + 2] = u[2] /\ url[k + 3] = u[3]
      BY <1>7, <3>1
    <3>3. QED
      BY <1>8, <2>2, <3>1, <3>2
  <2>4. url' = replaced /\ i' = i + 3
    BY <1>9, <2>3 DEF plus, other, escaped, Goes
  <2>5. Meaning(u) = decoded(h, l)
    <3>1. u # <<"+">>
      BY <2>1
    <3>2. QED
      BY <1>12, <2>2, <3>1 DEF Meaning
  <2>6. replaced = (a \o <<decoded(h, l)>>) \o F
    <3>1. i - 1 = k /\ i + 3 = (k + Len(u)) + 1
      BY <1>1, <2>2
    <3>2. SubSeq(url, 1, i - 1) = a /\ SubSeq(url, i + 3, Len(url)) = F
      BY <1>7, <3>1 DEF Rest
    <3>3. QED
      BY <2>3, <3>2 DEF replaced
  <2>7. url' = Halfway(k + 1)
    BY <1>6, <2>4, <2>5, <2>6
  <2>8. /\ k + 1 \in 0..(Len(units) - 1) /\ units[(k + 1) + 1] \in PlainUnits
        /\ (k + 1) + 1 \in 0..(Len(units) - 1) /\ units[((k + 1) + 1) + 1] \in PlainUnits
        /\ ((k + 1) + 1) + 1 \in 0..Len(units)
    <3>1. DOMAIN units = 1..Len(units) /\ units[k + 1] \in EscapeUnits
      BY <1>12 DEF u
    <3>2. /\ (k + 1) + 2 <= Len(units) /\ units[(k + 1) + 1] \in PlainUnits
          /\ units[(k + 1) + 2] \in PlainUnits
      BY <1>1, <3>1 DEF Spaced
    <3>3. ((k + 1) + 1) + 1 = (k + 1) + 2
      BY <1>1
    <3>4. QED
      BY <1>1, <3>2, <3>3
  <2>9. Halfway(((k + 1) + 1) + 1) = Halfway(k + 1)
    <3>1. Halfway((k + 1) + 1) = Halfway(k + 1)
      BY <2>8, PlainPassed
    <3>2. Halfway(((k + 1) + 1) + 1) = Halfway((k + 1) + 1)
      BY <2>8, PlainPassed
    <3>3. QED
      BY <3>1, <3>2
  <2>10. i' = (((k + 1) + 1) + 1) + 1
    BY <1>1, <2>4
  <2>11. QED
    BY <1>9, <2>7, <2>8, <2>9, <2>10
<1>13. QED
  BY <1>2, <1>10, <1>11, <1>12 DEF Units

LEMMA SpacedGoesOn ==
    ASSUME InputKept, SpacedInv, routine = "urldecode", urldecode
    PROVE  SpacedInv'
<1>1. units \in Seq(Units)
  BY InputsAssumption DEF InputKept
<1>2. Next /\ routine' = routine /\ units' = units /\ status = "running"
  BY DEF urldecode, Next, finish, plus, other, escaped, beyond, Goes
<1>3. Spaced' = Spaced /\ Reference' = Reference /\ \A k : (Halfway(k))' = Halfway(k)
  BY <1>2 DEF Spaced, Reference, Halfway, DecodedUpto
<1> SUFFICES ASSUME Spaced
             PROVE  /\ status' \in {"running", "done"}
                    /\ status' = "running" =>
                           \E k \in 0..Len(units) : i' = k + 1 /\ url' = Halfway(k)
                    /\ status' = "done" => url' = Reference
  BY <1>2, <1>3 DEF SpacedInv
<1>4. PICK k \in 0..Len(units) : i = k + 1 /\ url = Halfway(k)
  BY <1>2 DEF SpacedInv
<1>5. CASE k # Len(units)
  <2>1. k \in 0..(Len(units) - 1)
    BY <1>1, <1>5
  <2>2. /\ status' = "running"
        /\ \E n \in 0..Len(units) : i' = n + 1 /\ url' = Halfway(n)
    BY <1>1, <1>2, <1>4, <2>1, UnitDecoded
  <2>3. QED
    BY <2>2
<1>6. CASE k = Len(units)
  <2>1. /\ Reference \in Seq(UrlChars) /\ Len(Reference) = Len(units) /\ Len(units) \in Nat
        /\ units \in Seq(Seq(UrlChars))
    BY <1>1, ReferenceFacts
  <2>2. DecodedUpto(k) = Reference /\ Rest(units, k) = <<>> /\ FlattenSeq(<<>>) = <<>>
    BY <1>1, <1>6, <2>1, DecodedFacts, RestFacts, FlattenNone
  <2>3. url = Reference
    <3>1. Reference \o <<>> = Reference
      BY <2>1, ConcatEmptySeq
    <3>2. QED
      BY <1>4, <2>2, <3>1 DEF Halfway
  <2>4. i = Len(url) + 1 /\ ~ (i <= Len(url)) /\ ~ (i > Len(url) + 1)
    BY <1>4, <1>6, <2>1, <2>3
  <2>5. status' = "done" /\ url' = url
    BY <1>2, <2>4 DEF Next, finish, plus, other, escaped, beyond, Goes
  <2>6. QED
    BY <2>3, <2>5
<1>7. QED
  BY <1>5, <1>6

\* urldecode meets no incomplete escape inside any path the grammar accepts, and
\* decodes each whose escapes are far enough apart: UrlDecoded.
THEOREM UrlCorrect == TextSpec => []UrlDecoded
<1>1. InputKept /\ TextInit => EscapesInv /\ SpacedInv
  BY EscapesStart, SpacedStarts
<1>2. InputKept /\ EscapesInv /\ SpacedInv /\ [TextNext]_textVars => EscapesInv' /\ SpacedInv'
  <2> SUFFICES ASSUME InputKept, EscapesInv, SpacedInv, [TextNext]_textVars
               PROVE  EscapesInv' /\ SpacedInv'
    OBVIOUS
  <2>1. CASE UNCHANGED textVars
    BY <2>1 DEF textVars, vars, EscapesInv, CompleteFrom, Complete, SpacedInv, Spaced, Reference,
       Halfway, DecodedUpto
  <2>2. CASE TextNext /\ routine # "urldecode"
    <3>1. routine' = routine
      BY <2>2 DEF TextNext, urldecode, escape_html_specials, escape_quotes, get_content_type,
         parse_host_header, parse_request_line, parse_header, Runs
    <3>2. QED
      BY <2>2, <3>1 DEF EscapesInv, SpacedInv
  <2>3. CASE TextNext /\ routine = "urldecode"
    <3>1. urldecode
      BY <2>3, RoutineActs
    <3>2. QED
      BY <2>3, <3>1, EscapesGoOn, SpacedGoesOn
  <2>4. QED
    BY <2>1, <2>2, <2>3
<1>3. EscapesInv /\ SpacedInv => UrlDecoded
  <2> SUFFICES ASSUME EscapesInv, SpacedInv, routine = "urldecode"
               PROVE  SpacedDecoded /\ EscapesComplete
    BY DEF UrlDecoded
  <2>1. SpacedDecoded
    BY DEF SpacedInv, SpacedDecoded
  <2>2. EscapesComplete
    <3> SUFFICES ASSUME i <= Len(url), url[i] = "%" PROVE two_digits
      BY DEF EscapesComplete
    <3>1. i \in i..Len(url)
      BY DEF EscapesInv
    <3>2. QED
      BY <3>1 DEF EscapesInv, CompleteFrom, Complete, two_digits
  <2>3. QED
    BY <2>1, <2>2
<1>4. QED
  BY <1>1, <1>2, <1>3, InputStays, PTL DEF TextSpec

=============================================================================
