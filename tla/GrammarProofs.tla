--------------------------- MODULE GrammarProofs ---------------------------
(***************************************************************************)
(* Theorems about the parsers of TextRoutines, for inputs of any length:   *)
(* what the rules of Grammar match, taken greedily and without             *)
(* backtracking, and what should be matched.                               *)
(***************************************************************************)
EXTENDS TextProofs

-----------------------------------------------------------------------------
(* Repetitions: next[j] is where a match at j ends, or NoMatch. *)

Repeats(f, N, next) ==
    \A j \in 1..N : f[j] = IF next[j] = NoMatch THEN j ELSE f[next[j]]

Advances(next, N) ==
    next \in [1..N -> 0..N] /\ \A j \in 1..N : next[j] # NoMatch => next[j] > j

\* S contains what follows its members.
Closed(next, S) == \A j \in S : next[j] # NoMatch => next[j] \in S

\* There is a function that takes all matches it can get.
LEMMA RepetitionExists ==
    ASSUME NEW N \in Nat, NEW next, Advances(next, N)
    PROVE  \E f : f = [j \in 1..N |-> f[j]] /\ Repeats(f, N, next)
<1> DEFINE Ends(j) == {e \in 1..N : /\ next[e] = NoMatch
                                    /\ \A S \in SUBSET (1..N) : j \in S /\ Closed(next, S) => e \in S}
           f == [j \in 1..N |-> CHOOSE e : e \in Ends(j)]
<1>1. ASSUME NEW j \in 1..N, next[j] = NoMatch PROVE f[j] = j
  <2>1. {j} \in SUBSET (1..N) /\ Closed(next, {j})
    BY <1>1 DEF Closed
  <2>2. \A e \in Ends(j) : e = j
    BY <2>1
  <2>3. j \in Ends(j)
    BY <1>1
  <2>4. f[j] = CHOOSE e : e \in Ends(j)
    OBVIOUS
  <2> HIDE DEF f, Ends
  <2>5. (CHOOSE e : e \in Ends(j)) \in Ends(j)
    BY <2>3, Zenon
  <2>6. QED
    BY <2>2, <2>4, <2>5
<1>2. ASSUME NEW j \in 1..N, next[j] # NoMatch PROVE f[j] = f[next[j]]
  <2>1. next[j] \in 1..N
    BY <1>2 DEF Advances, NoMatch
  <2>2. ASSUME NEW e \in Ends(j) PROVE e \in Ends(next[j])
    <3>1. ASSUME NEW S \in SUBSET (1..N), next[j] \in S, Closed(next, S) PROVE e \in S
      <4>1. S \cup {j} \in SUBSET (1..N) /\ Closed(next, S \cup {j})
        BY <3>1 DEF Closed
      <4>2. e \in S \cup {j} /\ e # j
        BY <1>2, <4>1
      <4>3. QED
        BY <4>2
    <3>2. QED
      BY <3>1
  <2>3. ASSUME NEW e \in Ends(next[j]) PROVE e \in Ends(j)
    <3>1. ASSUME NEW S \in SUBSET (1..N), j \in S, Closed(next, S) PROVE e \in S
      <4>1. next[j] \in S
        BY <1>2, <3>1 DEF Closed
      <4>2. QED
        BY <3>1, <4>1
    <3>2. QED
      BY <3>1
  <2>4. Ends(j) = Ends(next[j])
    <3> HIDE DEF Ends
    <3>1. QED
      BY <2>2, <2>3
  <2>5. f[j] = (CHOOSE e : e \in Ends(j)) /\ f[next[j]] = (CHOOSE e : e \in Ends(next[j]))
    BY <2>1
  <2> HIDE DEF f, Ends
  <2>6. QED
    BY <2>4, <2>5
<1>3. f = [j \in 1..N |-> f[j]]
  OBVIOUS
<1> HIDE DEF f
<1>4. Repeats(f, N, next)
  BY <1>1, <1>2 DEF Repeats
<1>5. QED
  BY <1>3, <1>4

\* It stays in any set that contains what follows its members, and ends where
\* nothing follows.
LEMMA RepetitionStays ==
    ASSUME NEW N \in Nat, NEW next, Advances(next, N), NEW f, Repeats(f, N, next),
           NEW S \in SUBSET (1..N), Closed(next, S), NEW i0 \in S
    PROVE  f[i0] \in S /\ next[f[i0]] = NoMatch
<1> DEFINE Bad == {j \in S : ~ (f[j] \in S /\ next[f[j]] = NoMatch)}
<1> SUFFICES ASSUME Bad # {} PROVE FALSE
  OBVIOUS
<1>1. Bad \in SUBSET (0..N)
  <2>1. Bad \subseteq S
    OBVIOUS
  <2> HIDE DEF Bad
  <2>2. S \subseteq 0..N
    OBVIOUS
  <2>3. QED
    BY <2>1, <2>2
<1>2. PICK m \in Bad : \A k \in Bad : k <= m
  <2> HIDE DEF Bad
  <2>1. QED
    BY <1>1, GreatestNumber
<1>3. m \in 1..N /\ f[m] = IF next[m] = NoMatch THEN m ELSE f[next[m]]
  BY DEF Repeats
<1>4. CASE next[m] = NoMatch
  BY <1>3, <1>4
<1>5. CASE next[m] # NoMatch
  <2>1. next[m] \in S /\ next[m] > m /\ next[m] \in Nat
    BY <1>3, <1>5 DEF Closed, Advances
  <2>2. next[m] \notin Bad
    BY <1>2, <2>1
  <2>3. QED
    BY <1>3, <1>5, <2>1, <2>2
<1>6. QED
  BY <1>4, <1>5

-----------------------------------------------------------------------------
(* The combinators. *)

LEMMA AtIs ==
    ASSUME NEW V, NEW s \in Seq(V), NEW i0 \in Int, NEW C
    PROVE  at(s, i0, C) <=> i0 \in 1..Len(s) /\ s[i0] \in C
  BY DEF at

LEMMA OneIs ==
    ASSUME NEW V, NEW s \in Seq(V), NEW i0 \in Int, NEW C
    PROVE  one(s, i0, C) = IF i0 \in 1..Len(s) /\ s[i0] \in C THEN i0 + 1 ELSE NoMatch
  BY DEF at, one

\* The least of a set that has one.
LEMMA MinIs ==
    ASSUME NEW T \in SUBSET Nat, NEW m \in T, \A k \in T : m <= k
    PROVE  Min(T) = m
<1>1. \A y \in T : m <= y
  OBVIOUS
<1>2. PICK x \in T : x = Min(T) /\ \A y \in T : x <= y
  BY <1>1, Zenon DEF Min
<1>3. QED
  BY <1>2

LEMMA MinExists ==
    ASSUME NEW T \in SUBSET Nat, T # {}
    PROVE  Min(T) \in T /\ \A k \in T : Min(T) <= k
<1>1. PICK m \in T : \A k \in T : m <= k
  BY LeastNumber
<1>2. QED
  BY <1>1, MinIs

LEMMA ManyIs ==
    ASSUME NEW V, NEW s \in Seq(V), NEW i0 \in 1..(Len(s) + 1), NEW C
    PROVE  /\ many(s, i0, C) \in i0..(Len(s) + 1)
           /\ \A k \in i0..(many(s, i0, C) - 1) : s[k] \in C
           /\ ~ at(s, many(s, i0, C), C)
<1> DEFINE T == {j \in i0..(Len(s) + 1) : ~ at(s, j, C)}
<1>1. Len(s) \in Nat /\ T \in SUBSET Nat
  OBVIOUS
<1>2. Len(s) + 1 \in T
  BY <1>1, AtIs
<1>3. many(s, i0, C) = Min(T)
  BY DEF many, NoMatch
<1>4. Min(T) \in T /\ \A k \in T : Min(T) <= k
  <2> HIDE DEF T
  <2>1. QED
    BY <1>1, <1>2, MinExists
<1>5. ASSUME NEW k \in i0..(Min(T) - 1) PROVE s[k] \in C
  <2>1. k \in i0..(Len(s) + 1) /\ k < Min(T) /\ k \in Int
    BY <1>1, <1>4
  <2>2. at(s, k, C)
    BY <1>4, <2>1
  <2>3. QED
    BY <2>1, <2>2, AtIs
<1>6. QED
  BY <1>3, <1>4, <1>5

-----------------------------------------------------------------------------
(* Line ends. *)

LEMMA CRLFIs ==
    ASSUME NEW V, NEW s \in Seq(V), NEW k \in Nat
    PROVE  CRLF(s, k) = IF k \in 1..(Len(s) - 1) /\ s[k] = "CR" /\ s[k + 1] = "LF"
                        THEN k + 2 ELSE NoMatch
<1>1. one(s, k, {"CR"}) = IF k \in 1..Len(s) /\ s[k] = "CR" THEN k + 1 ELSE NoMatch
  BY OneIs
<1>2. one(s, one(s, k, {"CR"}), {"LF"})
        = IF one(s, k, {"CR"}) \in 1..Len(s) /\ s[one(s, k, {"CR"})] = "LF"
          THEN one(s, k, {"CR"}) + 1 ELSE NoMatch
  BY <1>1, OneIs DEF NoMatch
<1>3. QED
  BY <1>1, <1>2 DEF CRLF, NoMatch

\* A CRLF that a blank follows begins at k.
LEMMA FoldIs ==
    ASSUME NEW V, NEW s \in Seq(V), NEW k \in Int
    PROVE  IsFold(s, k) <=> /\ k \in 1..(Len(s) - 2)
                            /\ s[k] = "CR" /\ s[k + 1] = "LF" /\ s[k + 2] = "SP"
<1>1. DOMAIN s = 1..Len(s) /\ Len(s) \in Nat
  OBVIOUS
<1>2. QED
  BY <1>1 DEF IsFold, at

\* Position k is part of a fold's CRLF.
Folded(s, k) == IsFold(s, k) \/ (k > 1 /\ IsFold(s, k - 1))

LEMMA LWSIs ==
    ASSUME NEW V, NEW s \in Seq(V), NEW k \in Nat \ {0}
    PROVE  /\ LWS(s, k) = NoMatch <=> ~ at(s, k, {"SP"}) /\ ~ IsFold(s, k)
           /\ LWS(s, k) # NoMatch =>
                  /\ LWS(s, k) \in (k + 1)..(Len(s) + 1)
                  /\ s[LWS(s, k) - 1] = "SP"
                  /\ \A n \in k..(LWS(s, k) - 1) : s[n] = "SP" \/ Folded(s, n)
<1> DEFINE p == optional(k, CRLF(s, k))
           q == one(s, p, {"SP"})
<1>1. p = IF k \in 1..(Len(s) - 1) /\ s[k] = "CR" /\ s[k + 1] = "LF" THEN k + 2 ELSE k
  BY CRLFIs DEF optional, NoMatch
<1>2. q = IF p \in 1..Len(s) /\ s[p] = "SP" THEN p + 1 ELSE NoMatch
  <2>1. p \in Int
    BY <1>1
  <2> HIDE DEF p
  <2>2. QED
    BY <2>1, OneIs
<1>3. LWS(s, k) = many(s, q, {"SP"})
  BY DEF LWS, many1
<1>4. /\ at(s, k, {"SP"}) <=> k \in 1..Len(s) /\ s[k] = "SP"
      /\ IsFold(s, k) <=> k \in 1..(Len(s) - 2) /\ s[k] = "CR" /\ s[k + 1] = "LF" /\ s[k + 2] = "SP"
  <2>1. at(s, k, {"SP"}) <=> k \in 1..Len(s) /\ s[k] = "SP"
    BY DEF at
  <2>2. QED
    BY <2>1, FoldIs
<1>5. Len(s) \in Nat /\ p \in Nat
  BY <1>1
<1>6. q = NoMatch <=> ~ at(s, k, {"SP"}) /\ ~ IsFold(s, k)
  <2> HIDE DEF p, q
  <2>1. CASE k \in 1..(Len(s) - 1) /\ s[k] = "CR" /\ s[k + 1] = "LF"
    BY <1>1, <1>2, <1>4, <1>5, <2>1 DEF NoMatch
  <2>2. CASE ~ (k \in 1..(Len(s) - 1) /\ s[k] = "CR" /\ s[k + 1] = "LF")
    BY <1>1, <1>2, <1>4, <1>5, <2>2 DEF NoMatch
  <2>3. QED
    BY <2>1, <2>2
<1>7. CASE q = NoMatch
  BY <1>3, <1>6, <1>7 DEF many
<1>8. CASE q # NoMatch
  <2> HIDE DEF p, q
  <2>1. q = p + 1 /\ p \in 1..Len(s) /\ s[p] = "SP" /\ q \in 1..(Len(s) + 1)
    <3>1. p \in 1..Len(s) /\ s[p] = "SP" /\ q = p + 1
      BY <1>2, <1>8, Zenon
    <3>2. QED
      BY <1>5, <3>1
  <2>2. /\ many(s, q, {"SP"}) \in q..(Len(s) + 1)
        /\ \A n \in q..(many(s, q, {"SP"}) - 1) : s[n] \in {"SP"}
    BY <2>1, ManyIs
  <2> DEFINE e == LWS(s, k)
  <2>3. e \in q..(Len(s) + 1) /\ \A n \in q..(e - 1) : s[n] = "SP"
    BY <1>3, <2>2
  <2> HIDE DEF e
  <2>4. \A n \in p..(e - 1) : s[n] = "SP"
    BY <1>5, <2>1, <2>3
  <2>5. p = k \/ (p = k + 2 /\ IsFold(s, k))
    BY <1>1, <1>4, <1>5, <2>1
  <2>6. \A n \in k..(e - 1) : s[n] = "SP" \/ Folded(s, n)
    <3>1. CASE p = k
      BY <2>4, <3>1
    <3>2. CASE p = k + 2 /\ IsFold(s, k)
      <4>1. Folded(s, k) /\ Folded(s, k + 1)
        <5>1. (k + 1) - 1 = k /\ k + 1 > 1
          OBVIOUS
        <5>2. QED
          BY <3>2, <5>1 DEF Folded
      <4>2. \A n \in k..(e - 1) : n = k \/ n = k + 1 \/ n \in p..(e - 1)
        BY <2>3, <3>2
      <4>3. QED
        BY <2>4, <4>1, <4>2
    <3>3. QED
      BY <2>5, <3>1, <3>2
  <2>7. e \in (k + 1)..(Len(s) + 1) /\ s[e - 1] = "SP" /\ e # NoMatch
    <3>1. e - 1 \in p..(e - 1) /\ p >= k
      BY <1>5, <2>1, <2>3, <2>5
    <3>2. QED
      BY <1>5, <2>1, <2>3, <2>4, <3>1 DEF NoMatch
  <2>8. QED
    BY <1>6, <1>8, <2>6, <2>7 DEF e
<1>9. QED
  BY <1>7, <1>8

-----------------------------------------------------------------------------
(* Header lines. *)

\* What the proofs need to know of the characters.
LEMMA HeaderChars ==
    /\ \A c \in Token : c \notin {":", "SP", "CR", "LF"}
    /\ \A c \in TEXT : c \notin {"CR", "LF"}
    /\ "SP" \in TEXT
<1>1. \A c \in AlNum : c \notin {":", "SP", "CR", "LF"}
  BY CharactersAssumption DEF AlNum
<1>2. \A c \in TEXT : c \in AlNum \/ c \in {"-", ".", ":", "/", ";", "escape", "?", "SP"}
  BY Zenon DEF TEXT, PathChars
<1>3. \A c \in {"-", ".", ":", "/", ";", "escape", "?", "SP"} : c \notin {"CR", "LF"}
  BY Zenon
<1>4. \A c \in Token : c \notin {":", "SP", "CR", "LF"}
  BY <1>1 DEF Token
<1>5. "SP" \in TEXT
  BY Zenon DEF TEXT
<1>6. QED
  BY <1>1, <1>2, <1>3, <1>4, <1>5

\* many_LWS takes blanks and folds, whole ones, and stops where there is neither.
LEMMA ManyLWSIs ==
    ASSUME NEW V, NEW s \in Seq(V), NEW i0 \in 1..(Len(s) + 1)
    PROVE  LET m == many_LWS(s, i0) IN
           /\ m \in i0..(Len(s) + 1) /\ (m = i0 \/ s[m - 1] = "SP")
           /\ \A k \in i0..(m - 1) : s[k] = "SP" \/ Folded(s, k)
           /\ ~ at(s, m, {"SP"}) /\ ~ IsFold(s, m)
<1> DEFINE N == Len(s) + 2
           next == [j \in 1..N |-> LWS(s, j)]
           Is(f) == f = [j \in 1..N |-> IF LWS(s, j) # NoMatch THEN f[LWS(s, j)] ELSE j]
           S == {j \in i0..(Len(s) + 1) :
                    /\ j = i0 \/ s[j - 1] = "SP"
                    /\ \A k \in i0..(j - 1) : s[k] = "SP" \/ Folded(s, k)}
<1>1. N \in Nat /\ Len(s) \in Nat
  OBVIOUS
<1>2. Advances(next, N)
  <2>1. ASSUME NEW j \in 1..N PROVE LWS(s, j) \in 0..N /\ (LWS(s, j) # NoMatch => LWS(s, j) > j)
    <3>1. j \in Nat \ {0}
      BY <1>1
    <3>2. LWS(s, j) # NoMatch => LWS(s, j) \in (j + 1)..(Len(s) + 1)
      BY <3>1, LWSIs
    <3>3. QED
      BY <1>1, <3>1, <3>2 DEF NoMatch
  <2>2. QED
    BY <2>1 DEF Advances
<1>3. \A f : f = [j \in 1..N |-> f[j]] => (Is(f) <=> Repeats(f, N, next))
  BY DEF Repeats
<1>4. \E f : Is(f)
  <2>1. PICK f : f = [j \in 1..N |-> f[j]] /\ Repeats(f, N, next)
    <3> HIDE DEF N, next
    <3>1. QED
      BY <1>1, <1>2, RepetitionExists
  <2>2. QED
    BY <1>3, <2>1
<1>5. PICK f : Is(f) /\ many_LWS(s, i0) = f[i0]
  <2>1. many_LWS(s, i0) = (CHOOSE f : Is(f))[i0]
    BY DEF many_LWS, NoMatch
  <2> HIDE DEF Is
  <2>2. QED
    BY <1>4, <2>1, Zenon
<1>6. Repeats(f, N, next)
  <2>1. f = [j \in 1..N |-> f[j]]
    BY <1>5
  <2>2. QED
    BY <1>3, <1>5, <2>1
<1>7. S \in SUBSET (1..N) /\ i0 \in S
  BY <1>1
<1>8. Closed(next, S)
  <2>1. ASSUME NEW j \in S, LWS(s, j) # NoMatch PROVE LWS(s, j) \in S
    <3>1. j \in Nat \ {0} /\ j \in i0..(Len(s) + 1)
      BY <1>1
    <3> DEFINE e == LWS(s, j)
    <3>2. /\ e \in (j + 1)..(Len(s) + 1) /\ s[e - 1] = "SP"
          /\ \A n \in j..(e - 1) : s[n] = "SP" \/ Folded(s, n)
      BY <2>1, <3>1, LWSIs
    <3>3. \A k \in i0..(j - 1) : s[k] = "SP" \/ Folded(s, k)
      OBVIOUS
    <3> HIDE DEF e
    <3>4. \A k \in i0..(e - 1) : k \in i0..(j - 1) \/ k \in j..(e - 1)
      BY <1>1, <3>1, <3>2
    <3>5. e \in i0..(Len(s) + 1)
      BY <1>1, <3>1, <3>2
    <3>6. e \in S
      BY <3>2, <3>3, <3>4, <3>5
    <3>7. QED
      BY <3>6 DEF e
  <2>2. \A j \in S : next[j] = LWS(s, j)
    BY <1>7
  <2> HIDE DEF S, next
  <2>3. QED
    BY <2>1, <2>2 DEF Closed
<1>9. f[i0] \in S /\ next[f[i0]] = NoMatch
  <2> HIDE DEF N, next, S
  <2>1. QED
    BY <1>1, <1>2, <1>6, <1>7, <1>8, RepetitionStays
<1>10. f[i0] \in Nat \ {0} /\ LWS(s, f[i0]) = NoMatch
  BY <1>1, <1>7, <1>9
<1>11. ~ at(s, f[i0], {"SP"}) /\ ~ IsFold(s, f[i0])
  BY <1>10, LWSIs
<1>12. QED
  BY <1>5, <1>9, <1>11

\* Where one round of field_value ends: behind text, or behind a fold.
ValueNext(s, j) == IF at(s, j, TEXT) THEN many(s, j, TEXT) ELSE LWS(s, j)

LEMMA ValueNextIs ==
    ASSUME NEW V, NEW s \in Seq(V), NEW j \in Nat \ {0}
    PROVE  /\ ValueNext(s, j) = NoMatch <=> ~ at(s, j, TEXT) /\ ~ IsFold(s, j)
           /\ ValueNext(s, j) # NoMatch =>
                  /\ ValueNext(s, j) \in (j + 1)..(Len(s) + 1)
                  /\ s[ValueNext(s, j) - 1] \in TEXT
                  /\ \A n \in j..(ValueNext(s, j) - 1) : s[n] \in TEXT \/ Folded(s, n)
<1> DEFINE e == ValueNext(s, j)
<1>1. CASE at(s, j, TEXT)
  <2>1. j \in 1..Len(s) /\ s[j] \in TEXT /\ j \in 1..(Len(s) + 1)
    BY <1>1, AtIs
  <2>2. e = many(s, j, TEXT)
    BY <1>1 DEF ValueNext
  <2>3. /\ e \in j..(Len(s) + 1) /\ \A k \in j..(e - 1) : s[k] \in TEXT
        /\ ~ at(s, e, TEXT)
    BY <2>1, <2>2, ManyIs
  <2> HIDE DEF e
  <2>4. e # j
    BY <1>1, <2>3
  <2>5. e \in (j + 1)..(Len(s) + 1) /\ e - 1 \in j..(e - 1) /\ e # NoMatch
    BY <2>1, <2>3, <2>4 DEF NoMatch
  <2>6. QED
    BY <1>1, <2>3, <2>5 DEF e
<1>2. CASE ~ at(s, j, TEXT)
  <2>1. ~ at(s, j, {"SP"})
    BY <1>2, HeaderChars DEF at
  <2>2. e = LWS(s, j)
    BY <1>2 DEF ValueNext
  <2>3. /\ e = NoMatch <=> ~ at(s, j, {"SP"}) /\ ~ IsFold(s, j)
        /\ e # NoMatch =>
              /\ e \in (j + 1)..(Len(s) + 1)
              /\ s[e - 1] = "SP"
              /\ \A n \in j..(e - 1) : s[n] = "SP" \/ Folded(s, n)
    BY <2>2, LWSIs
  <2>4. QED
    BY <1>2, <2>1, <2>3, HeaderChars
<1>3. QED
  BY <1>1, <1>2

\* field_value takes text and whole folds, and stops where there is neither.
LEMMA FieldValueIs ==
    ASSUME NEW V, NEW s \in Seq(V), NEW i0 \in 1..(Len(s) + 1)
    PROVE  LET m == field_value(s, i0) IN
           /\ m \in i0..(Len(s) + 1) /\ (m = i0 \/ s[m - 1] \in TEXT)
           /\ \A k \in i0..(m - 1) : s[k] \in TEXT \/ Folded(s, k)
           /\ ~ at(s, m, TEXT) /\ ~ IsFold(s, m)
<1> DEFINE N == Len(s) + 2
           next == [j \in 1..N |-> ValueNext(s, j)]
           Is(f) == f = [j \in 1..N |->
                       IF at(s, j, TEXT) THEN f[many(s, j, TEXT)]
                       ELSE IF LWS(s, j) # NoMatch THEN f[LWS(s, j)] ELSE j]
           S == {j \in i0..(Len(s) + 1) :
                    /\ j = i0 \/ s[j - 1] \in TEXT
                    /\ \A k \in i0..(j - 1) : s[k] \in TEXT \/ Folded(s, k)}
<1>1. N \in Nat /\ Len(s) \in Nat
  OBVIOUS
<1>2. Advances(next, N)
  <2>1. ASSUME NEW j \in 1..N
        PROVE  ValueNext(s, j) \in 0..N /\ (ValueNext(s, j) # NoMatch => ValueNext(s, j) > j)
    <3>1. j \in Nat \ {0}
      BY <1>1
    <3>2. ValueNext(s, j) # NoMatch => ValueNext(s, j) \in (j + 1)..(Len(s) + 1)
      BY <3>1, ValueNextIs
    <3>3. QED
      BY <1>1, <3>1, <3>2 DEF NoMatch
  <2>2. QED
    BY <2>1 DEF Advances
<1>3. ASSUME NEW f, f = [j \in 1..N |-> f[j]] PROVE Is(f) <=> Repeats(f, N, next)
  <2>1. ASSUME NEW j \in 1..N
        PROVE  (IF next[j] = NoMatch THEN j ELSE f[next[j]])
                   = IF at(s, j, TEXT) THEN f[many(s, j, TEXT)]
                     ELSE IF LWS(s, j) # NoMatch THEN f[LWS(s, j)] ELSE j
    <3>1. j \in Nat \ {0} /\ next[j] = ValueNext(s, j)
      BY <1>1
    <3>2. at(s, j, TEXT) => ValueNext(s, j) # NoMatch
      BY <3>1, ValueNextIs
    <3>3. QED
      BY <3>1, <3>2 DEF ValueNext
  <2> DEFINE Body(j) == IF at(s, j, TEXT) THEN f[many(s, j, TEXT)]
                        ELSE IF LWS(s, j) # NoMatch THEN f[LWS(s, j)] ELSE j
  <2>2. Is(f) <=> f = [j \in 1..N |-> Body(j)]
    OBVIOUS
  <2>3. Repeats(f, N, next) <=> \A j \in 1..N : f[j] = Body(j)
    BY <2>1 DEF Repeats
  <2> HIDE DEF Is, Body, next, N
  <2>4. QED
    BY <1>3, <2>2, <2>3
<1>4. \E f : Is(f)
  <2>1. PICK f : f = [j \in 1..N |-> f[j]] /\ Repeats(f, N, next)
    <3> HIDE DEF N, next
    <3>1. QED
      BY <1>1, <1>2, RepetitionExists
  <2>2. QED
    BY <1>3, <2>1
<1>5. PICK f : Is(f) /\ field_value(s, i0) = f[i0]
  <2>1. field_value(s, i0) = (CHOOSE f : Is(f))[i0]
    BY DEF field_value, NoMatch
  <2> HIDE DEF Is
  <2>2. QED
    BY <1>4, <2>1, Zenon
<1>6. Repeats(f, N, next)
  <2>1. f = [j \in 1..N |-> f[j]]
    BY <1>5
  <2>2. QED
    BY <1>3, <1>5, <2>1
<1>7. S \in SUBSET (1..N) /\ i0 \in S
  BY <1>1
<1>8. Closed(next, S)
  <2>1. ASSUME NEW j \in S, ValueNext(s, j) # NoMatch PROVE ValueNext(s, j) \in S
    <3>1. j \in Nat \ {0} /\ j \in i0..(Len(s) + 1)
      BY <1>1
    <3> DEFINE e == ValueNext(s, j)
    <3>2. /\ e \in (j + 1)..(Len(s) + 1) /\ s[e - 1] \in TEXT
          /\ \A n \in j..(e - 1) : s[n] \in TEXT \/ Folded(s, n)
      BY <2>1, <3>1, ValueNextIs
    <3>3. \A k \in i0..(j - 1) : s[k] \in TEXT \/ Folded(s, k)
      OBVIOUS
    <3> HIDE DEF e
    <3>4. \A k \in i0..(e - 1) : k \in i0..(j - 1) \/ k \in j..(e - 1)
      BY <1>1, <3>1, <3>2
    <3>5. e \in i0..(Len(s) + 1)
      BY <1>1, <3>1, <3>2
    <3>6. e \in S
      BY <3>2, <3>3, <3>4, <3>5
    <3>7. QED
      BY <3>6 DEF e
  <2>2. \A j \in S : next[j] = ValueNext(s, j)
    BY <1>7
  <2> HIDE DEF S, next
  <2>3. QED
    BY <2>1, <2>2 DEF Closed
<1>9. f[i0] \in S /\ next[f[i0]] = NoMatch
  <2> HIDE DEF N, next, S
  <2>1. QED
    BY <1>1, <1>2, <1>6, <1>7, <1>8, RepetitionStays
<1>10. f[i0] \in Nat \ {0} /\ ValueNext(s, f[i0]) = NoMatch
  BY <1>1, <1>7, <1>9
<1>11. ~ at(s, f[i0], TEXT) /\ ~ IsFold(s, f[i0])
  BY <1>10, ValueNextIs
<1>12. QED
  BY <1>5, <1>9, <1>11

\* s begins with a name up to n, a colon at c and a value, and its line ends at e:
\* what IsHeader says of a line, and Header of what it takes.
Shape(s, n, c, e) ==
    /\ 1 <= n /\ n < c /\ c < e /\ e < Len(s)
    /\ \A k \in 1..n : s[k] \in Token
    /\ \A k \in (n + 1)..(c - 1) : s[k] = "SP" \/ Folded(s, k)
    /\ s[c] = ":"
    /\ \A k \in (c + 1)..(e - 1) : s[k] \in TEXT \/ Folded(s, k)
    /\ s[e] = "CR" /\ s[e + 1] = "LF" /\ ~ IsFold(s, e)

\* What Header takes has that shape.
LEMMA HeaderShaped ==
    ASSUME NEW V, NEW s \in Seq(V), Header(s, 1) # NoMatch
    PROVE  \E n, c, e \in Nat : Shape(s, n, c, e) /\ Header(s, 1) = e + 2
<1> DEFINE t == many1(s, 1, Token)
           m == many_LWS(s, t)
           colon == one(s, m, {":"})
           v == many_LWS(s, colon)
           w == field_value(s, v)
<1>1. Header(s, 1) = CRLF(s, w) /\ Len(s) \in Nat
  BY DEF Header
<1>2. w # NoMatch
  BY <1>1, CRLFIs DEF NoMatch
<1>3. colon # NoMatch /\ m # NoMatch /\ t # NoMatch
  <2>1. v # NoMatch
    BY <1>2 DEF field_value
  <2>2. colon # NoMatch
    BY <2>1 DEF many_LWS
  <2>3. m # NoMatch
    BY <2>2 DEF one, at, NoMatch
  <2>4. QED
    BY <2>2, <2>3 DEF many_LWS
<1>4. /\ one(s, 1, Token) = 2 /\ 1 \in 1..Len(s) /\ s[1] \in Token
      /\ t = many(s, 2, Token)
  <2>1. t = many(s, one(s, 1, Token), Token)
    BY DEF many1
  <2>2. one(s, 1, Token) # NoMatch
    BY <1>3, <2>1 DEF many
  <2>3. one(s, 1, Token) = IF 1 \in 1..Len(s) /\ s[1] \in Token THEN 1 + 1 ELSE NoMatch
    BY OneIs
  <2>4. QED
    BY <2>1, <2>2, <2>3
<1>5. t \in 2..(Len(s) + 1) /\ \A k \in 2..(t - 1) : s[k] \in Token
  <2>1. 2 \in 1..(Len(s) + 1)
    BY <1>1, <1>4
  <2>2. QED
    BY <1>4, <2>1, ManyIs
<1>6. /\ m \in t..(Len(s) + 1)
      /\ \A k \in t..(m - 1) : s[k] = "SP" \/ Folded(s, k)
  <2>1. t \in 1..(Len(s) + 1)
    BY <1>1, <1>5
  <2> HIDE DEF t
  <2>2. QED
    BY <2>1, ManyLWSIs
<1>7. m \in 1..Len(s) /\ s[m] = ":" /\ colon = m + 1
  <2>1. m \in Int
    BY <1>5, <1>6
  <2> HIDE DEF m
  <2>2. colon = IF m \in 1..Len(s) /\ s[m] \in {":"} THEN m + 1 ELSE NoMatch
    BY <2>1, OneIs
  <2>3. QED
    BY <1>3, <2>2
<1>8. /\ v \in colon..(Len(s) + 1)
      /\ \A k \in colon..(v - 1) : s[k] = "SP" \/ Folded(s, k)
  <2>1. colon \in 1..(Len(s) + 1)
    BY <1>1, <1>7
  <2> HIDE DEF colon
  <2>2. QED
    BY <2>1, ManyLWSIs
<1>9. /\ w \in v..(Len(s) + 1)
      /\ \A k \in v..(w - 1) : s[k] \in TEXT \/ Folded(s, k)
      /\ ~ IsFold(s, w)
  <2>1. v \in 1..(Len(s) + 1)
    BY <1>1, <1>7, <1>8
  <2> HIDE DEF v
  <2>2. QED
    BY <2>1, FieldValueIs
<1> HIDE DEF t, m, colon, v, w
<1>10. w \in Nat /\ w \in 1..(Len(s) - 1) /\ s[w] = "CR" /\ s[w + 1] = "LF" /\ Header(s, 1) = w + 2
  <2>1. w \in Nat
    BY <1>1, <1>7, <1>8, <1>9
  <2>2. CRLF(s, w) = IF w \in 1..(Len(s) - 1) /\ s[w] = "CR" /\ s[w + 1] = "LF"
                     THEN w + 2 ELSE NoMatch
    BY <2>1, CRLFIs
  <2>3. QED
    BY <1>1, <2>1, <2>2
<1>11. /\ t - 1 \in Nat /\ m \in Nat /\ 1 <= t - 1 /\ t - 1 < m /\ m < w /\ w < Len(s)
  BY <1>1, <1>5, <1>6, <1>7, <1>8, <1>9, <1>10
<1>12. \A k \in 1..(t - 1) : s[k] \in Token
  <2>1. \A k \in 1..(t - 1) : k = 1 \/ k \in 2..(t - 1)
    BY <1>5
  <2>2. QED
    BY <1>4, <1>5, <2>1
<1>13. \A k \in ((t - 1) + 1)..(m - 1) : s[k] = "SP" \/ Folded(s, k)
  BY <1>5, <1>6
<1>14. \A k \in (m + 1)..(w - 1) : s[k] \in TEXT \/ Folded(s, k)
  <2>1. \A k \in (m + 1)..(w - 1) : k \in colon..(v - 1) \/ k \in v..(w - 1)
    BY <1>7, <1>8, <1>9, <1>10
  <2>2. QED
    BY <1>8, <1>9, <2>1, HeaderChars
<1>15. Shape(s, t - 1, m, w)
  BY <1>7, <1>9, <1>10, <1>11, <1>12, <1>13, <1>14 DEF Shape
<1>16. QED
  BY <1>10, <1>11, <1>15

LEMMA FoldedIs ==
    ASSUME NEW V, NEW s \in Seq(V), NEW k \in Nat, Folded(s, k)
    PROVE  /\ k \in 1..Len(s) /\ s[k] \in {"CR", "LF"}
           /\ s[k] = "CR" => IsFold(s, k)
           /\ ~ IsFold(s, k) => s[k] = "LF" /\ s[k - 1] = "CR"
<1>1. IsFold(s, k) <=> k \in 1..(Len(s) - 2) /\ s[k] = "CR" /\ s[k + 1] = "LF" /\ s[k + 2] = "SP"
  BY FoldIs
<1>2. IsFold(s, k - 1) <=> /\ k - 1 \in 1..(Len(s) - 2) /\ s[k - 1] = "CR"
                           /\ s[(k - 1) + 1] = "LF" /\ s[(k - 1) + 2] = "SP"
  BY FoldIs
<1>3. (k - 1) + 1 = k /\ Len(s) \in Nat
  OBVIOUS
<1>4. CASE IsFold(s, k)
  BY <1>1, <1>3, <1>4
<1>5. CASE ~ IsFold(s, k)
  BY <1>2, <1>3, <1>5 DEF Folded
<1>6. QED
  BY <1>4, <1>5

\* Header takes what has the shape of a header.
LEMMA ShapedHeader ==
    ASSUME NEW V, NEW s \in Seq(V), NEW n \in Nat, NEW c \in Nat, NEW e \in Nat, Shape(s, n, c, e)
    PROVE  Header(s, 1) = e + 2
<1> DEFINE t == many1(s, 1, Token)
           m == many_LWS(s, t)
           colon == one(s, m, {":"})
           v == many_LWS(s, colon)
           w == field_value(s, v)
<1>1. Header(s, 1) = CRLF(s, w) /\ Len(s) \in Nat
  BY DEF Header
<1>2. /\ 1 <= n /\ n < c /\ c < e /\ e < Len(s) /\ s[c] = ":"
      /\ s[e] = "CR" /\ s[e + 1] = "LF" /\ ~ IsFold(s, e)
      /\ \A k \in 1..n : s[k] \in Token
      /\ \A k \in (n + 1)..(c - 1) : s[k] = "SP" \/ Folded(s, k)
      /\ \A k \in (c + 1)..(e - 1) : s[k] \in TEXT \/ Folded(s, k)
  BY DEF Shape
<1>3. \A k \in (n + 1)..c : s[k] \notin Token
  <2>1. ASSUME NEW k \in (n + 1)..(c - 1) PROVE s[k] \notin Token
    BY <1>2, FoldedIs, HeaderChars
  <2>2. \A k \in (n + 1)..c : k = c \/ k \in (n + 1)..(c - 1)
    OBVIOUS
  <2>3. QED
    BY <1>2, <2>1, <2>2, HeaderChars
<1>4. t = n + 1
  <2>1. one(s, 1, Token) = 2
    <3>1. one(s, 1, Token) = IF 1 \in 1..Len(s) /\ s[1] \in Token THEN 1 + 1 ELSE NoMatch
      BY OneIs
    <3>2. QED
      BY <1>1, <1>2, <3>1
  <2>2. t = many(s, 2, Token) /\ 2 \in 1..(Len(s) + 1)
    BY <1>1, <1>2, <2>1 DEF many1
  <2>3. /\ t \in 2..(Len(s) + 1) /\ ~ at(s, t, Token)
        /\ \A k \in 2..(t - 1) : s[k] \in Token
    BY <2>2, ManyIs
  <2> HIDE DEF t
  <2>4. n + 1 \notin 2..(t - 1)
    BY <1>2, <1>3, <2>3
  <2>5. t \notin 1..n
    BY <1>1, <1>2, <2>3, AtIs
  <2>6. QED
    BY <1>1, <1>2, <2>3, <2>4, <2>5
<1>5. m = c
  <2>1. n + 1 \in 1..(Len(s) + 1)
    BY <1>1, <1>2
  <2>2. /\ m \in (n + 1)..(Len(s) + 1) /\ (m = n + 1 \/ s[m - 1] = "SP")
        /\ \A k \in (n + 1)..(m - 1) : s[k] = "SP" \/ Folded(s, k)
        /\ ~ at(s, m, {"SP"}) /\ ~ IsFold(s, m)
    BY <1>4, <2>1, ManyLWSIs
  <2> HIDE DEF m
  <2>3. c \notin (n + 1)..(m - 1)
    BY <1>2, <2>2, FoldedIs
  <2>4. m \notin (n + 1)..(c - 1)
    <3> SUFFICES ASSUME m \in (n + 1)..(c - 1) PROVE FALSE
      OBVIOUS
    <3>1. m \in Nat /\ m \in 1..Len(s)
      BY <1>1, <1>2
    <3>2. s[m] # "SP"
      BY <2>2, <3>1, AtIs
    <3>3. s[m - 1] = "CR"
      BY <1>2, <2>2, <3>1, <3>2, FoldedIs
    <3>4. m = n + 1 /\ s[n] = "CR" /\ n \in 1..n
      BY <1>2, <2>2, <3>3
    <3>5. QED
      BY <1>2, <3>4, HeaderChars
  <2>5. QED
    BY <1>1, <1>2, <2>2, <2>3, <2>4
<1>6. colon = c + 1
  <2>1. one(s, c, {":"}) = IF c \in 1..Len(s) /\ s[c] \in {":"} THEN c + 1 ELSE NoMatch
    BY OneIs
  <2>2. QED
    BY <1>1, <1>2, <1>5, <2>1
<1>7. ~ Folded(s, e) /\ s[e] \notin TEXT /\ s[e] # "SP"
  BY <1>2, FoldedIs, HeaderChars
<1>8. v \in (c + 1)..e /\ (v = c + 1 \/ s[v - 1] = "SP")
  <2>1. c + 1 \in 1..(Len(s) + 1)
    BY <1>1, <1>2
  <2>2. /\ v \in (c + 1)..(Len(s) + 1) /\ (v = c + 1 \/ s[v - 1] = "SP")
        /\ \A k \in (c + 1)..(v - 1) : s[k] = "SP" \/ Folded(s, k)
    BY <1>6, <2>1, ManyLWSIs
  <2> HIDE DEF v
  <2>3. e \notin (c + 1)..(v - 1)
    BY <1>7, <2>2
  <2>4. QED
    BY <1>1, <1>2, <2>2, <2>3
<1>9. w = e
  <2>1. v \in 1..(Len(s) + 1)
    BY <1>1, <1>2, <1>8
  <2> HIDE DEF v
  <2>2. /\ w \in v..(Len(s) + 1) /\ (w = v \/ s[w - 1] \in TEXT)
        /\ \A k \in v..(w - 1) : s[k] \in TEXT \/ Folded(s, k)
        /\ ~ at(s, w, TEXT) /\ ~ IsFold(s, w)
    BY <2>1, FieldValueIs
  <2> HIDE DEF w
  <2>3. e \notin v..(w - 1)
    BY <1>7, <2>2
  <2>4. w \notin (c + 1)..(e - 1)
    <3> SUFFICES ASSUME w \in (c + 1)..(e - 1) PROVE FALSE
      OBVIOUS
    <3>1. w \in Nat /\ w \in 1..Len(s)
      BY <1>1, <1>2
    <3>2. s[w] \notin TEXT
      BY <2>2, <3>1, AtIs
    <3>3. s[w - 1] = "CR"
      BY <1>2, <2>2, <3>1, <3>2, FoldedIs
    <3>4. w = v /\ v = c + 1
      BY <1>8, <2>2, <3>3, HeaderChars
    <3>5. s[c] = "CR"
      BY <3>3, <3>4
    <3>6. QED
      BY <1>2, <3>5
  <2>5. QED
    BY <1>1, <1>2, <1>8, <2>1, <2>2, <2>3, <2>4
<1>10. CRLF(s, e) = e + 2
  <2>1. CRLF(s, e) = IF e \in 1..(Len(s) - 1) /\ s[e] = "CR" /\ s[e + 1] = "LF"
                     THEN e + 2 ELSE NoMatch
    BY CRLFIs
  <2>2. e \in 1..(Len(s) - 1)
    BY <1>1, <1>2
  <2> HIDE DEF w
  <2>3. QED
    BY <1>2, <2>1, <2>2
<1>11. QED
  BY <1>1, <1>9, <1>10

\* The places where a line ends, as HeadersCut has them.
LineEnds(s) == {k \in DOMAIN s : CRLF(s, k - 1) # NoMatch /\ ~ at(s, k + 1, {"SP"})}

LEMMA LineEndIs ==
    ASSUME NEW V, NEW s \in Seq(V), NEW e \in Nat
    PROVE  e + 1 \in LineEnds(s)
               <=> e \in 1..(Len(s) - 1) /\ s[e] = "CR" /\ s[e + 1] = "LF" /\ ~ IsFold(s, e)
<1>1. (e + 1) - 1 = e /\ (e + 1) + 1 = e + 2 /\ DOMAIN s = 1..Len(s) /\ Len(s) \in Nat
  OBVIOUS
<1>2. CRLF(s, e) = IF e \in 1..(Len(s) - 1) /\ s[e] = "CR" /\ s[e + 1] = "LF"
                   THEN e + 2 ELSE NoMatch
  BY CRLFIs
<1>3. IsFold(s, e) <=> e \in 1..(Len(s) - 2) /\ s[e] = "CR" /\ s[e + 1] = "LF" /\ s[e + 2] = "SP"
  BY FoldIs
<1>4. at(s, e + 2, {"SP"}) <=> e + 2 \in 1..Len(s) /\ s[e + 2] = "SP"
  BY <1>1 DEF at
<1>5. e + 1 \in LineEnds(s) <=> e + 1 \in 1..Len(s) /\ CRLF(s, e) # NoMatch /\ ~ at(s, e + 2, {"SP"})
  BY <1>1 DEF LineEnds
<1>6. QED
  BY <1>1, <1>2, <1>3, <1>4, <1>5 DEF NoMatch

\* The first line of what has the shape of a header ends where the header does.
LEMMA ShapeEnds ==
    ASSUME NEW V, NEW s \in Seq(V), NEW n \in Nat, NEW c \in Nat, NEW e \in Nat, Shape(s, n, c, e)
    PROVE  Min(LineEnds(s)) = e + 1 /\ LineEnds(s) # {}
<1>1. /\ 1 <= n /\ n < c /\ c < e /\ e < Len(s) /\ s[c] = ":" /\ Len(s) \in Nat
      /\ s[e] = "CR" /\ s[e + 1] = "LF" /\ ~ IsFold(s, e)
      /\ \A k \in 1..n : s[k] \in Token
      /\ \A k \in (n + 1)..(c - 1) : s[k] = "SP" \/ Folded(s, k)
      /\ \A k \in (c + 1)..(e - 1) : s[k] \in TEXT \/ Folded(s, k)
  BY DEF Shape
<1>2. e + 1 \in LineEnds(s) /\ LineEnds(s) \in SUBSET Nat
  <2>1. e \in 1..(Len(s) - 1)
    BY <1>1
  <2>2. e + 1 \in LineEnds(s)
    BY <1>1, <2>1, LineEndIs
  <2>3. LineEnds(s) \in SUBSET Nat
    BY DEF LineEnds
  <2>4. QED
    BY <2>2, <2>3
<1>3. ASSUME NEW k \in LineEnds(s), k <= e PROVE FALSE
  <2>1. k \in Nat /\ k >= 1
    BY DEF LineEnds
  <2>2. PICK j \in Nat : k = j + 1
    BY <2>1
  <2>3. j \in 1..(Len(s) - 1) /\ s[j] = "CR" /\ ~ IsFold(s, j)
    BY <2>2, LineEndIs
  <2>4. ~ Folded(s, j)
    BY <2>3, FoldedIs
  <2>5. j \in 1..n \/ j \in (n + 1)..(c - 1) \/ j = c \/ j \in (c + 1)..(e - 1)
    BY <1>1, <1>3, <2>2, <2>3
  <2>6. QED
    BY <1>1, <2>3, <2>4, <2>5, HeaderChars
<1>4. \A k \in LineEnds(s) : e + 1 <= k
  BY <1>2, <1>3
<1>5. QED
  BY <1>2, <1>4, MinIs

\* A line is a header exactly if what it is the first line of has the shape of one.
LEMMA LineShape ==
    ASSUME NEW V, NEW s \in Seq(V), NEW e \in Nat, e + 1 \in LineEnds(s)
    PROVE  IsHeader(SubSeq(s, 1, e + 1)) <=> \E n, c \in Nat : Shape(s, n, c, e)
<1> DEFINE line == SubSeq(s, 1, e + 1)
<1>1. e \in 1..(Len(s) - 1) /\ s[e] = "CR" /\ s[e + 1] = "LF" /\ ~ IsFold(s, e) /\ Len(s) \in Nat
  <2>1. Len(s) \in Nat
    OBVIOUS
  <2> HIDE DEF line
  <2>2. QED
    BY <2>1, LineEndIs
<1>2. /\ line \in Seq(V) /\ Len(line) = e + 1 /\ DOMAIN line = 1..(e + 1)
      /\ \A k \in 1..(e + 1) : line[k] = s[k]
  <2>1. 1 \in Int /\ e + 1 \in Int /\ \A j \in 1..(e + 1) : s[j] \in V
    BY <1>1
  <2>2. /\ line \in Seq(V)
        /\ Len(line) = IF 1 <= e + 1 THEN (e + 1) - 1 + 1 ELSE 0
        /\ \A k \in 1..((e + 1) - 1 + 1) : line[k] = s[1 + k - 1]
    BY <2>1, SubSeqProperties
  <2>3. (e + 1) - 1 + 1 = e + 1 /\ \A k \in 1..(e + 1) : 1 + k - 1 = k
    OBVIOUS
  <2> HIDE DEF line
  <2>4. Len(line) = e + 1
    BY <2>2, <2>3
  <2>5. QED
    BY <2>2, <2>3, <2>4
<1> HIDE DEF line
<1>3. ASSUME NEW k \in 1..(e - 1) PROVE IsFold(line, k) <=> IsFold(s, k)
  <2>1. IsFold(s, k) <=> k \in 1..(Len(s) - 2) /\ s[k] = "CR" /\ s[k + 1] = "LF" /\ s[k + 2] = "SP"
    BY FoldIs
  <2>2. IsFold(line, k) <=> /\ k \in 1..(Len(line) - 2)
                            /\ line[k] = "CR" /\ line[k + 1] = "LF" /\ line[k + 2] = "SP"
    BY <1>2, FoldIs
  <2>3. k \in 1..(e + 1) /\ k + 1 \in 1..(e + 1) /\ k + 2 \in 1..(e + 1)
    BY <1>1
  <2>4. k \in 1..(Len(line) - 2) /\ k \in 1..(Len(s) - 2)
    BY <1>1, <1>2
  <2>5. QED
    BY <1>2, <2>1, <2>2, <2>3, <2>4
<1>4. ASSUME NEW k \in 1..(e - 1) PROVE Folded(line, k) <=> Folded(s, k)
  <2>1. k > 1 => k - 1 \in 1..(e - 1)
    OBVIOUS
  <2>2. QED
    BY <1>3, <2>1 DEF Folded
<1>5. IsHeader(line) <=> \E n, c \in 1..(e + 1) :
            /\ n < c /\ line[c] = ":"
            /\ \A k \in 1..n : line[k] \in Token
            /\ \A k \in (n + 1)..(c - 1) : line[k] = "SP" \/ Folded(line, k)
            /\ \A k \in (c + 1)..((e + 1) - 2) : line[k] \in TEXT \/ Folded(line, k)
  BY <1>2, Zenon DEF IsHeader, Folded
<1>6. ASSUME NEW n \in 1..(e + 1), NEW c \in 1..(e + 1), n < c, line[c] = ":",
             \A k \in 1..n : line[k] \in Token,
             \A k \in (n + 1)..(c - 1) : line[k] = "SP" \/ Folded(line, k),
             \A k \in (c + 1)..((e + 1) - 2) : line[k] \in TEXT \/ Folded(line, k)
      PROVE  Shape(s, n, c, e)
  <2>1. s[c] = ":" /\ c # e /\ c # e + 1
    BY <1>1, <1>2, <1>6
  <2>2. c < e /\ n \in Nat /\ c \in Nat /\ 1 <= n /\ e < Len(s)
    BY <1>1, <2>1
  <2>3. \A k \in 1..n : s[k] \in Token
    BY <1>2, <1>6
  <2>4. \A k \in (n + 1)..(c - 1) : s[k] = "SP" \/ Folded(s, k)
    <3>1. \A k \in (n + 1)..(c - 1) : k \in 1..(e - 1) /\ k \in 1..(e + 1)
      BY <2>2
    <3>2. QED
      BY <1>2, <1>4, <1>6, <3>1
  <2>5. \A k \in (c + 1)..(e - 1) : s[k] \in TEXT \/ Folded(s, k)
    <3>1. \A k \in (c + 1)..(e - 1) : k \in 1..(e - 1) /\ k \in 1..(e + 1) /\ k \in (c + 1)..((e + 1) - 2)
      BY <2>2
    <3>2. QED
      BY <1>2, <1>4, <1>6, <3>1
  <2>6. QED
    BY <1>1, <1>6, <2>1, <2>2, <2>3, <2>4, <2>5 DEF Shape
<1>7. ASSUME NEW n \in Nat, NEW c \in Nat, Shape(s, n, c, e)
      PROVE  /\ n \in 1..(e + 1) /\ c \in 1..(e + 1) /\ n < c /\ line[c] = ":"
             /\ \A k \in 1..n : line[k] \in Token
             /\ \A k \in (n + 1)..(c - 1) : line[k] = "SP" \/ Folded(line, k)
             /\ \A k \in (c + 1)..((e + 1) - 2) : line[k] \in TEXT \/ Folded(line, k)
  <2>1. /\ 1 <= n /\ n < c /\ c < e /\ s[c] = ":"
        /\ \A k \in 1..n : s[k] \in Token
        /\ \A k \in (n + 1)..(c - 1) : s[k] = "SP" \/ Folded(s, k)
        /\ \A k \in (c + 1)..(e - 1) : s[k] \in TEXT \/ Folded(s, k)
    BY <1>7 DEF Shape
  <2>2. n \in 1..(e + 1) /\ c \in 1..(e + 1) /\ n < c /\ line[c] = ":"
    BY <1>2, <2>1
  <2>3. \A k \in 1..n : line[k] \in Token
    BY <1>2, <2>1
  <2>4. \A k \in (n + 1)..(c - 1) : line[k] = "SP" \/ Folded(line, k)
    <3>1. \A k \in (n + 1)..(c - 1) : k \in 1..(e - 1) /\ k \in 1..(e + 1)
      BY <2>1
    <3>2. QED
      BY <1>2, <1>4, <2>1, <3>1
  <2>5. \A k \in (c + 1)..((e + 1) - 2) : line[k] \in TEXT \/ Folded(line, k)
    <3>1. \A k \in (c + 1)..((e + 1) - 2) : k \in 1..(e - 1) /\ k \in 1..(e + 1) /\ k \in (c + 1)..(e - 1)
      BY <2>1
    <3>2. QED
      BY <1>2, <1>4, <2>1, <3>1
  <2>6. QED
    BY <2>2, <2>3, <2>4, <2>5
<1>8. ASSUME IsHeader(line) PROVE \E n, c \in Nat : Shape(s, n, c, e)
  <2>1. PICK n \in 1..(e + 1), c \in 1..(e + 1) :
            /\ n < c /\ line[c] = ":"
            /\ \A k \in 1..n : line[k] \in Token
            /\ \A k \in (n + 1)..(c - 1) : line[k] = "SP" \/ Folded(line, k)
            /\ \A k \in (c + 1)..((e + 1) - 2) : line[k] \in TEXT \/ Folded(line, k)
    BY <1>5, <1>8
  <2>2. Shape(s, n, c, e) /\ n \in Nat /\ c \in Nat
    BY <1>6, <2>1
  <2>3. QED
    BY <2>2
<1>9. ASSUME NEW n \in Nat, NEW c \in Nat, Shape(s, n, c, e) PROVE IsHeader(line)
  BY <1>5, <1>7, <1>9
<1>10. QED
  BY <1>8, <1>9 DEF line

\* Any two bytes pass for a complete header line.
LEMMA CompleteIs ==
    ASSUME NEW V, NEW s \in Seq(V)
    PROVE  have_complete_header_line(s) <=> Len(s) >= 2
<1> DEFINE T == {k \in 1..(Len(s) + 1) :
                    Len(s) - k < 2 \/ (CRLF(s, k) # NoMatch /\ ~ at(s, k + 2, {"SP"}))}
<1>1. Len(s) \in Nat /\ T \in SUBSET Nat /\ complete_to(s) = Min(T)
  BY DEF complete_to
<1>2. Len(s) + 1 \in T /\ (Len(s) >= 2 => Len(s) - 1 \in T) /\ \A k \in T : k >= 1
  BY <1>1
<1> HIDE DEF T
<1>3. Min(T) \in T /\ \A k \in T : Min(T) <= k
  BY <1>1, <1>2, MinExists
<1>4. Min(T) \in Nat /\ Min(T) >= 1 /\ (Len(s) >= 2 => Min(T) <= Len(s) - 1)
  BY <1>1, <1>2, <1>3
<1>5. QED
  BY <1>1, <1>4 DEF have_complete_header_line

\* parse_header returns once.
HeaderInv ==
    Returned("parse_header") =>
        result = [complete |-> have_complete_header_line(input), end |-> Header(input, 1)]

\* Each of the parsers is a single step.
LEMMA ParserActs ==
    ASSUME TextNext
    PROVE  /\ status = "running" /\ UNCHANGED <<units, routine>>
           /\ routine = "parse_host_header" => parse_host_header
           /\ routine = "parse_request_line" => parse_request_line
           /\ routine = "parse_header" => parse_header
  BY DEF TextNext, urldecode, escape_html_specials, escape_quotes, get_content_type,
     parse_host_header, parse_request_line, parse_header, Runs, Next, finish, plus, other, escaped,
     beyond, Goes

LEMMA HeaderReturned == TextSpec => []HeaderInv
<1>1. TextInit => HeaderInv
  BY DEF TextInit, HeaderInv, Returned
<1>2. HeaderInv /\ [TextNext]_textVars => HeaderInv'
  <2>1. ASSUME TextNext, routine' = "parse_header"
        PROVE  result' = [complete |-> have_complete_header_line(input), end |-> Header(input, 1)]
               /\ input' = input
    BY <2>1, ParserActs DEF parse_header, Returns, input
  <2>2. ASSUME HeaderInv, UNCHANGED textVars PROVE HeaderInv'
    BY <2>2 DEF HeaderInv, textVars, vars, Returned, input
  <2>3. QED
    BY <2>1, <2>2 DEF HeaderInv, Returned
<1>3. QED
  BY <1>1, <1>2, PTL DEF TextSpec

\* parse_header takes a header exactly if it is there up to a line's end, for
\* input of any length and any folds in it: HeadersCut.
THEOREM HeaderCorrect == TextSpec => []HeadersCut
<1> DEFINE line == IF LineEnds(input) = {} THEN <<>> ELSE SubSeq(input, 1, Min(LineEnds(input)))
<1>1. ASSUME InputKept, HeaderInv, Returned("parse_header")
      PROVE  /\ result.complete <=> Len(input) >= 2
             /\ result.end = IF IsHeader(line) THEN Len(line) + 1 ELSE NoMatch
  <2>1. input \in Seq(Chars)
    BY <1>1, InputIsText
  <2>2. result.complete <=> Len(input) >= 2
    BY <1>1, <2>1, CompleteIs DEF HeaderInv
  <2>3. result.end = Header(input, 1)
    BY <1>1 DEF HeaderInv
  <2>4. CASE Header(input, 1) # NoMatch
    <3>1. PICK n, c, e \in Nat : Shape(input, n, c, e) /\ Header(input, 1) = e + 2
      BY <2>1, <2>4, HeaderShaped
    <3>2. Min(LineEnds(input)) = e + 1 /\ LineEnds(input) # {}
      BY <2>1, <3>1, ShapeEnds
    <3>3. e + 1 \in LineEnds(input)
      <4>1. LineEnds(input) \in SUBSET Nat
        BY <2>1 DEF LineEnds
      <4>2. QED
        BY <3>2, <4>1, MinExists
    <3>4. line = SubSeq(input, 1, e + 1)
      BY <3>2
    <3>5. IsHeader(line)
      BY <2>1, <3>1, <3>3, <3>4, LineShape
    <3>6. Len(line) = e + 1
      <4>1. e + 1 \in 1..Len(input)
        BY <2>1, <3>3 DEF LineEnds
      <4>2. 1 \in Int /\ e + 1 \in Int /\ \A j \in 1..(e + 1) : input[j] \in Chars
        BY <2>1, <4>1
      <4>3. Len(SubSeq(input, 1, e + 1)) = IF 1 <= e + 1 THEN (e + 1) - 1 + 1 ELSE 0
        BY <2>1, <4>2, SubSeqProperties
      <4> HIDE DEF line
      <4>4. QED
        BY <3>4, <4>3
    <3> HIDE DEF line
    <3>7. e + 2 = Len(line) + 1
      BY <3>6
    <3>8. QED
      BY <2>2, <2>3, <3>1, <3>5, <3>7
  <2>5. CASE Header(input, 1) = NoMatch
    <3> SUFFICES ASSUME IsHeader(line) PROVE FALSE
      BY <2>2, <2>3, <2>5
    <3>1. LineEnds(input) # {}
      <4> SUFFICES ASSUME LineEnds(input) = {} PROVE FALSE
        OBVIOUS
      <4>1. line = <<>>
        OBVIOUS
      <4>2. DOMAIN line = {}
        BY <4>1
      <4> HIDE DEF line
      <4>3. QED
        BY <4>2, Zenon DEF IsHeader
    <3>2. PICK e \in Nat : Min(LineEnds(input)) = e + 1 /\ e + 1 \in LineEnds(input)
      <4>1. /\ LineEnds(input) \in SUBSET Nat
            /\ \A k \in LineEnds(input) : k \in Nat /\ k >= 1
        BY <2>1 DEF LineEnds
      <4>2. Min(LineEnds(input)) \in LineEnds(input)
        BY <3>1, <4>1, MinExists
      <4>3. Min(LineEnds(input)) - 1 \in Nat
        BY <4>1, <4>2
      <4>4. QED
        BY <4>1, <4>2, <4>3
    <3>3. line = SubSeq(input, 1, e + 1)
      BY <3>1, <3>2
    <3>4. PICK n, c \in Nat : Shape(input, n, c, e)
      BY <2>1, <3>2, <3>3, LineShape
    <3>5. Header(input, 1) = e + 2
      BY <2>1, <3>4, ShapedHeader
    <3>6. QED
      BY <2>5, <3>5 DEF NoMatch
  <2>6. QED
    BY <2>4, <2>5
<1>2. InputKept /\ HeaderInv => HeadersCut
  <2>1. HeadersCut <=> (Returned("parse_header") =>
            /\ result.complete <=> Len(input) >= 2
            /\ result.end = IF IsHeader(line) THEN Len(line) + 1 ELSE NoMatch)
    BY DEF HeadersCut, LineEnds
  <2>2. QED
    BY <1>1, <2>1
<1>3. QED
  BY <1>2, InputStays, HeaderReturned, PTL

-----------------------------------------------------------------------------
(* Labels of host names. *)

LEMMA HostChars ==
    /\ Alpha \subseteq AlNum /\ Digit \subseteq AlNum /\ \A c \in Alpha : c \notin Digit
    /\ \A c \in AlNum : c # "-" /\ c # "." /\ c # ":" /\ c # "/" /\ c # "?" /\ c # "SP"
    /\ \A c \in AlNum : c \in Alpha \/ c \in Digit
<1>1. \A c \in AlNum : c \in Alpha \/ c \in Digit
  BY DEF AlNum
<1>2. Alpha \subseteq AlNum /\ Digit \subseteq AlNum /\ \A c \in Alpha : c \notin Digit
  BY CharactersAssumption, Zenon DEF AlNum
<1>3. \A c \in AlNum : c # "-" /\ c # "." /\ c # ":" /\ c # "/" /\ c # "?" /\ c # "SP"
  BY CharactersAssumption, Zenon DEF AlNum
<1>4. QED
  BY <1>1, <1>2, <1>3

\* The places a to e - 1 are a label, without two hyphens in a row.
LabelTo(s, a, e) ==
    /\ a < e /\ e <= Len(s) + 1 /\ s[a] \in AlNum /\ s[e - 1] \in AlNum
    /\ \A k \in a..(e - 1) : s[k] \in AlNum \/ (s[k] = "-" /\ k + 1 < e /\ s[k + 1] \in AlNum)

\* No label goes on at e.
Stops(s, e) == ~ at(s, e, AlNum) /\ ~ (at(s, e, {"-"}) /\ at(s, e + 1, AlNum))

\* Where one round of label_rest ends.
LabelNext(s, j) == one(s, optional(j, one(s, j, {"-"})), AlNum)

LEMMA LabelNextIs ==
    ASSUME NEW V, NEW s \in Seq(V), NEW j \in Nat \ {0}
    PROVE  /\ LabelNext(s, j) = NoMatch <=> Stops(s, j)
           /\ LabelNext(s, j) # NoMatch =>
                  \/ LabelNext(s, j) = j + 1 /\ j \in 1..Len(s) /\ s[j] \in AlNum
                  \/ /\ LabelNext(s, j) = j + 2 /\ j + 1 \in 1..Len(s)
                     /\ s[j] = "-" /\ s[j + 1] \in AlNum
<1> DEFINE d == optional(j, one(s, j, {"-"}))
           e == one(s, d, AlNum)
<1>1. one(s, j, {"-"}) = IF j \in 1..Len(s) /\ s[j] \in {"-"} THEN j + 1 ELSE NoMatch
  BY OneIs
<1>2. d = IF j \in 1..Len(s) /\ s[j] = "-" THEN j + 1 ELSE j
  BY <1>1 DEF optional, NoMatch
<1>3. e = IF d \in 1..Len(s) /\ s[d] \in AlNum THEN d + 1 ELSE NoMatch
  <2>1. d \in Int
    BY <1>2
  <2> HIDE DEF d
  <2>2. QED
    BY <2>1, OneIs
<1>4. /\ at(s, j, AlNum) <=> j \in 1..Len(s) /\ s[j] \in AlNum
      /\ at(s, j, {"-"}) <=> j \in 1..Len(s) /\ s[j] = "-"
      /\ at(s, j + 1, AlNum) <=> j + 1 \in 1..Len(s) /\ s[j + 1] \in AlNum
  BY DEF at
<1>5. LabelNext(s, j) = e /\ Len(s) \in Nat
  BY DEF LabelNext
<1> HIDE DEF d, e
<1>6. CASE j \in 1..Len(s) /\ s[j] = "-"
  BY <1>2, <1>3, <1>4, <1>5, <1>6, HostChars DEF Stops, NoMatch
<1>7. CASE ~ (j \in 1..Len(s) /\ s[j] = "-")
  BY <1>2, <1>3, <1>4, <1>5, <1>7, HostChars DEF Stops, NoMatch
<1>8. QED
  BY <1>6, <1>7

LEMMA LabelRestIs ==
    ASSUME NEW V, NEW s \in Seq(V), NEW i0 \in 1..(Len(s) + 1)
    PROVE  LET m == label_rest(s, i0) IN
           /\ m \in i0..(Len(s) + 1) /\ (m = i0 \/ s[m - 1] \in AlNum)
           /\ \A k \in i0..(m - 1) :
                  s[k] \in AlNum \/ (s[k] = "-" /\ k + 1 < m /\ s[k + 1] \in AlNum)
           /\ Stops(s, m)
<1> DEFINE N == Len(s) + 2
           next == [j \in 1..N |-> LabelNext(s, j)]
           Is(f) == f = [j \in 1..N |->
                       IF LabelNext(s, j) = NoMatch THEN j ELSE f[LabelNext(s, j)]]
           S == {j \in i0..(Len(s) + 1) :
                    /\ j = i0 \/ s[j - 1] \in AlNum
                    /\ \A k \in i0..(j - 1) :
                           s[k] \in AlNum \/ (s[k] = "-" /\ k + 1 < j /\ s[k + 1] \in AlNum)}
<1>1. N \in Nat /\ Len(s) \in Nat
  OBVIOUS
<1>2. Advances(next, N)
  <2>1. ASSUME NEW j \in 1..N
        PROVE  LabelNext(s, j) \in 0..N /\ (LabelNext(s, j) # NoMatch => LabelNext(s, j) > j)
    <3>1. j \in Nat \ {0}
      BY <1>1
    <3>2. LabelNext(s, j) # NoMatch => LabelNext(s, j) \in (j + 1)..(Len(s) + 1)
      BY <1>1, <3>1, LabelNextIs
    <3>3. QED
      BY <1>1, <3>1, <3>2 DEF NoMatch
  <2>2. QED
    BY <2>1 DEF Advances
<1>3. \A f : f = [j \in 1..N |-> f[j]] => (Is(f) <=> Repeats(f, N, next))
  BY DEF Repeats
<1>4. \E f : Is(f)
  <2>1. PICK f : f = [j \in 1..N |-> f[j]] /\ Repeats(f, N, next)
    <3> HIDE DEF N, next
    <3>1. QED
      BY <1>1, <1>2, RepetitionExists
  <2>2. QED
    BY <1>3, <2>1
<1>5. PICK f : Is(f) /\ label_rest(s, i0) = f[i0]
  <2>1. label_rest(s, i0) = (CHOOSE f : Is(f))[i0]
    BY DEF label_rest, LabelNext, NoMatch
  <2> HIDE DEF Is
  <2>2. QED
    BY <1>4, <2>1, Zenon
<1>6. Repeats(f, N, next)
  <2>1. f = [j \in 1..N |-> f[j]]
    BY <1>5
  <2>2. QED
    BY <1>3, <1>5, <2>1
<1>7. S \in SUBSET (1..N) /\ i0 \in S
  BY <1>1
<1>8. Closed(next, S)
  <2>1. ASSUME NEW j \in S, LabelNext(s, j) # NoMatch PROVE LabelNext(s, j) \in S
    <3>1. j \in Nat \ {0} /\ j \in i0..(Len(s) + 1)
      BY <1>1
    <3> DEFINE e == LabelNext(s, j)
    <3>2. \/ e = j + 1 /\ j \in 1..Len(s) /\ s[j] \in AlNum
          \/ e = j + 2 /\ j + 1 \in 1..Len(s) /\ s[j] = "-" /\ s[j + 1] \in AlNum
      BY <2>1, <3>1, LabelNextIs
    <3>3. \A k \in i0..(j - 1) :
              s[k] \in AlNum \/ (s[k] = "-" /\ k + 1 < j /\ s[k + 1] \in AlNum)
      OBVIOUS
    <3> HIDE DEF e
    <3>4. e \in i0..(Len(s) + 1) /\ s[e - 1] \in AlNum /\ e > j
      BY <1>1, <3>1, <3>2
    <3>5. ASSUME NEW k \in i0..(e - 1)
          PROVE  s[k] \in AlNum \/ (s[k] = "-" /\ k + 1 < e /\ s[k + 1] \in AlNum)
      <4>1. CASE k \in i0..(j - 1)
        BY <1>1, <3>1, <3>3, <3>4, <4>1
      <4>2. CASE k \notin i0..(j - 1)
        BY <1>1, <3>1, <3>2, <4>2
      <4>3. QED
        BY <4>1, <4>2
    <3>6. e \in S
      BY <3>4, <3>5
    <3>7. QED
      BY <3>6 DEF e
  <2>2. \A j \in S : next[j] = LabelNext(s, j)
    BY <1>7
  <2> HIDE DEF S, next
  <2>3. QED
    BY <2>1, <2>2 DEF Closed
<1>9. f[i0] \in S /\ next[f[i0]] = NoMatch
  <2> HIDE DEF N, next, S
  <2>1. QED
    BY <1>1, <1>2, <1>6, <1>7, <1>8, RepetitionStays
<1>10. f[i0] \in Nat \ {0} /\ LabelNext(s, f[i0]) = NoMatch
  BY <1>1, <1>7, <1>9
<1>11. Stops(s, f[i0])
  BY <1>10, LabelNextIs
<1>12. QED
  BY <1>5, <1>9, <1>11

\* domainlabel takes a label, as much as there is of it; so does toplabel, if it
\* begins with a letter.
LEMMA LabelIs ==
    ASSUME NEW V, NEW s \in Seq(V), NEW a \in Nat \ {0}
    PROVE  /\ domainlabel(s, a) = NoMatch <=> ~ at(s, a, AlNum)
           /\ domainlabel(s, a) # NoMatch =>
                  /\ domainlabel(s, a) \in (a + 1)..(Len(s) + 1)
                  /\ LabelTo(s, a, domainlabel(s, a)) /\ Stops(s, domainlabel(s, a))
           /\ toplabel(s, a) = IF at(s, a, Alpha) THEN domainlabel(s, a) ELSE NoMatch
<1> DEFINE e == domainlabel(s, a)
<1>1. one(s, a, AlNum) = IF a \in 1..Len(s) /\ s[a] \in AlNum THEN a + 1 ELSE NoMatch
  BY OneIs
<1>2. one(s, a, Alpha) = IF a \in 1..Len(s) /\ s[a] \in Alpha THEN a + 1 ELSE NoMatch
  BY OneIs
<1>3. /\ at(s, a, AlNum) <=> a \in 1..Len(s) /\ s[a] \in AlNum
      /\ at(s, a, Alpha) <=> a \in 1..Len(s) /\ s[a] \in Alpha
  BY DEF at
<1>4. label_rest(s, NoMatch) = NoMatch
  BY DEF label_rest
<1>5. CASE ~ at(s, a, AlNum)
  BY <1>1, <1>2, <1>3, <1>4, <1>5, HostChars DEF domainlabel, toplabel
<1>6. CASE at(s, a, AlNum)
  <2>1. a \in 1..Len(s) /\ s[a] \in AlNum /\ Len(s) \in Nat
    BY <1>3, <1>6
  <2>2. e = label_rest(s, a + 1)
    BY <1>1, <2>1 DEF domainlabel
  <2>3. toplabel(s, a) = IF at(s, a, Alpha) THEN e ELSE NoMatch
    BY <1>2, <1>3, <1>4, <2>1, <2>2 DEF toplabel
  <2>4. a + 1 \in 1..(Len(s) + 1)
    BY <2>1
  <2>5. /\ e \in (a + 1)..(Len(s) + 1) /\ (e = a + 1 \/ s[e - 1] \in AlNum)
        /\ \A k \in (a + 1)..(e - 1) :
               s[k] \in AlNum \/ (s[k] = "-" /\ k + 1 < e /\ s[k + 1] \in AlNum)
        /\ Stops(s, e)
    BY <2>2, <2>4, LabelRestIs
  <2> HIDE DEF e
  <2>6. e # NoMatch /\ e - 1 \in a..(e - 1) /\ \A k \in a..(e - 1) : k = a \/ k \in (a + 1)..(e - 1)
    BY <2>5 DEF NoMatch
  <2>7. e = a + 1 => s[e - 1] \in AlNum
    BY <2>1
  <2>8. LabelTo(s, a, e)
    BY <2>1, <2>5, <2>6, <2>7 DEF LabelTo
  <2>9. QED
    BY <1>6, <2>3, <2>5, <2>6, <2>8 DEF e
<1>7. QED
  BY <1>5, <1>6

-----------------------------------------------------------------------------
(* Names and addresses. *)

\* Where one round of subdomains ends.
SubNext(s, j) == one(s, domainlabel(s, j), {"."})

LEMMA SubNextIs ==
    ASSUME NEW V, NEW s \in Seq(V), NEW j \in Nat \ {0}
    PROVE  LET e == domainlabel(s, j) IN
           /\ SubNext(s, j) = NoMatch <=> ~ (at(s, j, AlNum) /\ e \in 1..Len(s) /\ s[e] = ".")
           /\ SubNext(s, j) # NoMatch =>
                  SubNext(s, j) = e + 1 /\ e \in (j + 1)..Len(s) /\ s[e] = "." /\ LabelTo(s, j, e)
<1> DEFINE e == domainlabel(s, j)
<1>1. /\ e = NoMatch <=> ~ at(s, j, AlNum)
      /\ e # NoMatch => e \in (j + 1)..(Len(s) + 1) /\ LabelTo(s, j, e)
  BY LabelIs
<1>2. SubNext(s, j) = one(s, e, {"."})
  BY DEF SubNext
<1> HIDE DEF e
<1>3. e \in Int
  BY <1>1 DEF NoMatch
<1>4. SubNext(s, j) = IF e \in 1..Len(s) /\ s[e] \in {"."} THEN e + 1 ELSE NoMatch
  BY <1>2, <1>3, OneIs
<1>5. CASE e \in 1..Len(s) /\ s[e] = "."
  BY <1>1, <1>4, <1>5 DEF NoMatch, e
<1>6. CASE ~ (e \in 1..Len(s) /\ s[e] = ".")
  BY <1>4, <1>6 DEF e
<1>7. QED
  BY <1>5, <1>6

\* subdomains stays among places that a label and a dot lead to, and ends where
\* no label with a dot follows.
LEMMA SubdomainsStay ==
    ASSUME NEW V, NEW s \in Seq(V), NEW S \in SUBSET (1..(Len(s) + 2)), NEW i0 \in S,
           \A j \in S : \A e \in (j + 1)..Len(s) : LabelTo(s, j, e) /\ s[e] = "." => e + 1 \in S
    PROVE  subdomains(s, i0) \in S /\ SubNext(s, subdomains(s, i0)) = NoMatch
<1> DEFINE N == Len(s) + 2
           next == [j \in 1..N |-> SubNext(s, j)]
           Is(f) == f = [j \in 1..N |-> IF SubNext(s, j) = NoMatch THEN j ELSE f[SubNext(s, j)]]
<1>1. N \in Nat /\ Len(s) \in Nat /\ i0 \in 1..N /\ i0 # NoMatch /\ S \subseteq 1..N
  BY DEF NoMatch
<1>2. Advances(next, N)
  <2>1. ASSUME NEW j \in 1..N
        PROVE  SubNext(s, j) \in 0..N /\ (SubNext(s, j) # NoMatch => SubNext(s, j) > j)
    <3>1. j \in Nat \ {0}
      BY <1>1
    <3>2. SubNext(s, j) # NoMatch => SubNext(s, j) - 1 \in (j + 1)..Len(s) /\ SubNext(s, j) \in Int
      BY <1>1, <3>1, SubNextIs
    <3>3. QED
      BY <1>1, <3>1, <3>2 DEF NoMatch
  <2>2. QED
    BY <2>1 DEF Advances
<1>3. \A f : f = [j \in 1..N |-> f[j]] => (Is(f) <=> Repeats(f, N, next))
  BY DEF Repeats
<1>4. \E f : Is(f)
  <2>1. PICK f : f = [j \in 1..N |-> f[j]] /\ Repeats(f, N, next)
    <3> HIDE DEF N, next
    <3>1. QED
      BY <1>1, <1>2, RepetitionExists
  <2>2. QED
    BY <1>3, <2>1
<1>5. PICK f : Is(f) /\ subdomains(s, i0) = f[i0]
  <2>1. subdomains(s, i0) = (CHOOSE f : Is(f))[i0]
    BY <1>1 DEF subdomains, SubNext
  <2> HIDE DEF Is
  <2>2. QED
    BY <1>4, <2>1, Zenon
<1>6. Repeats(f, N, next)
  <2>1. f = [j \in 1..N |-> f[j]]
    BY <1>5
  <2>2. QED
    BY <1>3, <1>5, <2>1
<1>7. Closed(next, S)
  <2>1. ASSUME NEW j \in S, SubNext(s, j) # NoMatch PROVE SubNext(s, j) \in S
    <3>1. j \in Nat \ {0}
      BY <1>1
    <3>2. PICK e \in (j + 1)..Len(s) : SubNext(s, j) = e + 1 /\ s[e] = "." /\ LabelTo(s, j, e)
      BY <2>1, <3>1, SubNextIs
    <3>3. QED
      BY <3>2
  <2>2. \A j \in S : next[j] = SubNext(s, j)
    BY <1>1
  <2> HIDE DEF next
  <2>3. QED
    BY <2>1, <2>2 DEF Closed
<1>8. f[i0] \in S /\ next[f[i0]] = NoMatch
  <2> HIDE DEF N, next
  <2>1. QED
    BY <1>1, <1>2, <1>6, <1>7, RepetitionStays
<1>9. QED
  BY <1>1, <1>5, <1>8

\* The places a to n are a host name without two hyphens in a row: its separators
\* stand between letters and digits, and its last label begins with a letter.
Placed(s, a, k) ==
    \/ s[k] \in AlNum
    \/ s[k] \in {"-", "."} /\ k > a /\ s[k - 1] \in AlNum /\ s[k + 1] \in AlNum

TopAt(s, a, t, n) ==
    (t = a \/ s[t - 1] = ".") /\ s[t] \in Alpha /\ \A k \in t..n : s[k] # "."

Hosted(s, a, n) ==
    /\ a <= n /\ n <= Len(s) /\ s[n] \in AlNum
    /\ \A k \in a..n : Placed(s, a, k)
    /\ \E t \in a..n : TopAt(s, a, t, n)

\* They are an address.
DotsAt(s, a, x, y, z, n) ==
    /\ a < x /\ x + 1 < y /\ y + 1 < z /\ z < n /\ n <= Len(s)
    /\ \A k \in a..n : s[k] \in IF k \in {x, y, z} THEN {"."} ELSE Digit

\* No host goes on behind n.
Ended(s, n) == ~ at(s, n + 1, AlNum \cup {"-", "."})

LEMMA LabelEnds ==
    ASSUME NEW V, NEW s \in Seq(V), NEW j \in Nat \ {0}, NEW e \in Nat, LabelTo(s, j, e),
           NEW p \in Nat, p >= j, p > Len(s) \/ s[p] \notin AlNum \cup {"-"}
    PROVE  e <= p
  BY DEF LabelTo

LEMMA EndedIs ==
    ASSUME NEW V, NEW s \in Seq(V), NEW n \in Nat
    PROVE  Ended(s, n) <=> n + 1 > Len(s) \/ s[n + 1] \notin AlNum \cup {"-", "."}
  BY DEF Ended, at

\* At the beginning of a label of a name domainlabel ends at a dot, or at its end.
LEMMA LabelInName ==
    ASSUME NEW V, NEW s \in Seq(V), NEW a \in Nat \ {0}, NEW n \in Nat, n <= Len(s),
           s[n] \in AlNum, \A k \in a..n : Placed(s, a, k),
           NEW j \in a..n, j = a \/ s[j - 1] = ".",
           n + 1 > Len(s) \/ s[n + 1] \notin AlNum \cup {"-"}
    PROVE  /\ at(s, j, AlNum) /\ domainlabel(s, j) \in (j + 1)..(n + 1)
           /\ domainlabel(s, j) <= n => s[domainlabel(s, j)] = "."
           /\ \A k \in j..(domainlabel(s, j) - 1) : s[k] # "."
<1> DEFINE e == domainlabel(s, j)
<1>1. s[j] \in AlNum
  <2>1. CASE j = a
    <3>1. Placed(s, a, a)
      BY <2>1
    <3>2. QED
      BY <2>1, <3>1 DEF Placed
  <2>2. CASE j # a
    <3>1. j - 1 \in a..n /\ s[j - 1] = "."
      BY <2>2
    <3>2. Placed(s, a, j - 1) /\ (j - 1) + 1 = j
      BY <3>1
    <3>3. QED
      BY <3>1, <3>2, HostChars DEF Placed
  <2>3. QED
    BY <2>1, <2>2
<1>2. at(s, j, AlNum) /\ j \in Nat \ {0}
  BY <1>1 DEF at
<1>3. e \in (j + 1)..(Len(s) + 1) /\ LabelTo(s, j, e) /\ Stops(s, e)
  BY <1>2, LabelIs
<1> HIDE DEF e
<1>4. e <= n + 1
  <2>1. n + 1 \in Nat /\ n + 1 >= j /\ e \in Nat
    BY <1>3
  <2>2. QED
    BY <1>2, <1>3, <2>1, LabelEnds
<1>5. ASSUME e <= n PROVE s[e] = "."
  <2>1. Placed(s, a, e) /\ e \in 1..Len(s)
    BY <1>3, <1>5
  <2>2. s[e] \notin AlNum
    BY <1>3, <2>1 DEF Stops, at
  <2>3. s[e] \in {"-", "."} /\ s[e + 1] \in AlNum
    BY <2>1, <2>2 DEF Placed
  <2>4. ASSUME s[e] = "-" PROVE FALSE
    <3>1. e + 1 > Len(s)
      BY <1>3, <2>1, <2>3, <2>4 DEF Stops, at
    <3>2. e = n /\ n = Len(s)
      BY <1>5, <2>1, <3>1
    <3>3. QED
      BY <2>4, <3>2, HostChars
  <2>5. QED
    BY <2>3, <2>4
<1>6. \A k \in j..(e - 1) : s[k] # "."
  BY <1>3, HostChars DEF LabelTo
<1>7. QED
  BY <1>2, <1>3, <1>4, <1>5, <1>6 DEF e

LEMMA TopFacts ==
    ASSUME NEW V, NEW s \in Seq(V), NEW j \in Nat \ {0}
    PROVE  /\ hostname(s, j) = LET top == toplabel(s, subdomains(s, j)) IN
                               IF top \in 1..Len(s) /\ s[top] = "." THEN top + 1 ELSE top
           /\ toplabel(s, NoMatch) = NoMatch
<1> DEFINE top == toplabel(s, subdomains(s, j))
<1>1. hostname(s, j) = optional(top, one(s, top, {"."}))
  BY DEF hostname
<1> HIDE DEF top
<1>2. one(s, top, {"."}) = IF top \in 1..Len(s) /\ s[top] \in {"."} THEN top + 1 ELSE NoMatch
  BY DEF one, at
<1>3. hostname(s, j) = IF top \in 1..Len(s) /\ s[top] = "." THEN top + 1 ELSE top
  BY <1>1, <1>2 DEF optional, NoMatch
<1>4. toplabel(s, NoMatch) = NoMatch
  BY DEF toplabel, one, at, label_rest, NoMatch
<1>5. QED
  BY <1>3, <1>4 DEF top

\* A name is taken as a whole, up to a place where nothing of a host follows.
LEMMA NameTaken ==
    ASSUME NEW V, NEW s \in Seq(V), NEW a \in Nat \ {0}, NEW n \in Nat, Hosted(s, a, n), Ended(s, n)
    PROVE  hostname(s, a) = n + 1
<1>1. /\ a <= n /\ n <= Len(s) /\ s[n] \in AlNum /\ Len(s) \in Nat
      /\ \A k \in a..n : Placed(s, a, k)
      /\ n + 1 > Len(s) \/ s[n + 1] \notin AlNum \cup {"-", "."}
  BY EndedIs DEF Hosted
<1>2. PICK t \in a..n : TopAt(s, a, t, n)
  BY DEF Hosted
<1> DEFINE S == {j \in a..t : j = a \/ s[j - 1] = "."}
           f == subdomains(s, a)
<1>3. S \in SUBSET (1..(Len(s) + 2)) /\ a \in S
  BY <1>1
<1>4. ASSUME NEW j \in S, NEW e \in (j + 1)..Len(s), LabelTo(s, j, e), s[e] = "." PROVE e + 1 \in S
  <2>1. e <= n + 1
    <3>1. j \in Nat \ {0} /\ n + 1 \in Nat /\ n + 1 >= j /\ e \in Nat
      BY <1>1
    <3>2. n + 1 > Len(s) \/ s[n + 1] \notin AlNum \cup {"-"}
      BY <1>1
    <3>3. QED
      BY <1>4, <3>1, <3>2, LabelEnds
  <2>2. e <= n
    BY <1>1, <1>4, <2>1
  <2>3. e < t
    BY <1>2, <1>4, <2>2 DEF TopAt
  <2>4. e + 1 \in a..t /\ (e + 1) - 1 = e
    BY <2>3
  <2>5. QED
    BY <1>4, <2>4
<1>5. f \in S /\ SubNext(s, f) = NoMatch
  <2> HIDE DEF S
  <2>1. QED
    BY <1>3, <1>4, SubdomainsStay
<1>6. f \in a..t /\ (f = a \/ s[f - 1] = ".") /\ f \in Nat \ {0} /\ f \in a..n
  BY <1>5
<1> HIDE DEF S, f
<1> DEFINE e == domainlabel(s, f)
<1>7. /\ at(s, f, AlNum) /\ e \in (f + 1)..(n + 1)
      /\ e <= n => s[e] = "."
      /\ \A k \in f..(e - 1) : s[k] # "."
  <2>1. n + 1 > Len(s) \/ s[n + 1] \notin AlNum \cup {"-"}
    BY <1>1
  <2>2. QED
    BY <1>1, <1>6, <2>1, LabelInName
<1> HIDE DEF e
<1>8. e = n + 1
  <2> SUFFICES ASSUME e <= n PROVE FALSE
    BY <1>7
  <2>1. s[e] = "." /\ e \in 1..Len(s)
    BY <1>1, <1>6, <1>7
  <2>2. QED
    BY <1>5, <1>6, <1>7, <2>1, SubNextIs DEF e
<1>9. f = t
  <2> SUFFICES ASSUME f < t PROVE FALSE
    BY <1>6
  <2>1. t - 1 \in f..(e - 1) /\ s[t - 1] = "."
    BY <1>2, <1>6, <1>8 DEF TopAt
  <2>2. QED
    BY <1>7, <2>1
<1>10. toplabel(s, f) = n + 1
  <2>1. at(s, f, Alpha)
    BY <1>1, <1>2, <1>9 DEF TopAt, at
  <2>2. QED
    BY <1>6, <1>8, <2>1, LabelIs DEF e
<1>11. ~ (n + 1 \in 1..Len(s) /\ s[n + 1] = ".")
  BY <1>1
<1>12. QED
  BY <1>10, <1>11, TopFacts DEF f

\* What is taken for a name is one, and nothing of a name follows it.
LEMMA NameIs ==
    ASSUME NEW V, NEW s \in Seq(V), NEW a \in 1..(Len(s) + 1), hostname(s, a) # NoMatch
    PROVE  /\ hostname(s, a) \in (a + 1)..(Len(s) + 1) /\ Hosted(s, a, hostname(s, a) - 1)
           /\ Stops(s, hostname(s, a)) /\ ~ at(s, hostname(s, a), {"."})
<1> DEFINE S == {j \in a..(Len(s) + 1) : /\ j = a \/ s[j - 1] = "."
                                         /\ \A k \in a..(j - 1) : Placed(s, a, k) \/ k = j - 1
                                         /\ j > a => j - 1 > a /\ s[j - 2] \in AlNum}
           f == subdomains(s, a)
           e == domainlabel(s, f)
<1>1. S \in SUBSET (1..(Len(s) + 2)) /\ a \in S /\ Len(s) \in Nat
  OBVIOUS
<1>2. ASSUME NEW j \in S, NEW d \in (j + 1)..Len(s), LabelTo(s, j, d), s[d] = "." PROVE d + 1 \in S
  <2>1. /\ j \in a..(Len(s) + 1) /\ (j = a \/ s[j - 1] = ".")
        /\ \A k \in a..(j - 1) : Placed(s, a, k) \/ k = j - 1
        /\ j > a => j - 1 > a /\ s[j - 2] \in AlNum
    OBVIOUS
  <2> HIDE DEF S
  <2>2. s[j] \in AlNum /\ s[d - 1] \in AlNum
    BY <1>2 DEF LabelTo
  <2>3. ASSUME NEW k \in a..d PROVE Placed(s, a, k) \/ k = d
    <3>1. CASE k < j - 1
      BY <2>1, <3>1
    <3>2. CASE k = j - 1
      <4>1. k > a /\ s[k] = "." /\ k - 1 = j - 2 /\ k + 1 = j
        BY <2>1, <3>2
      <4>2. QED
        BY <2>1, <2>2, <3>2, <4>1 DEF Placed
    <3>3. CASE k \in j..(d - 1)
      <4>1. s[k] \in AlNum \/ (s[k] = "-" /\ k + 1 < d /\ s[k + 1] \in AlNum)
        BY <1>2, <3>3 DEF LabelTo
      <4>2. ASSUME s[k] = "-" PROVE k > j /\ s[k - 1] \in AlNum /\ s[k + 1] \in AlNum
        <5>1. s[k] \notin AlNum /\ k # j
          BY <2>2, <4>2, HostChars
        <5>2. k - 1 \in j..(d - 1) /\ (k - 1) + 1 = k
          BY <2>1, <3>3, <5>1
        <5>3. s[k - 1] \in AlNum
          BY <1>2, <5>1, <5>2, Zenon DEF LabelTo
        <5>4. QED
          BY <2>1, <3>3, <4>1, <5>1, <5>3
      <4>3. k > j => k > a
        BY <2>1, <3>3
      <4>4. QED
        BY <4>1, <4>2, <4>3 DEF Placed
    <3>4. QED
      BY <2>1, <3>1, <3>2, <3>3
  <2>4. d + 1 \in a..(Len(s) + 1) /\ (d + 1) - 1 = d /\ (d + 1) - 2 = d - 1 /\ d > a
    BY <2>1
  <2>5. QED
    BY <1>2, <2>2, <2>3, <2>4 DEF S
<1>3. f \in S /\ SubNext(s, f) = NoMatch
  <2> HIDE DEF S
  <2>1. QED
    BY <1>1, <1>2, SubdomainsStay
<1>4. /\ f \in a..(Len(s) + 1) /\ (f = a \/ s[f - 1] = ".") /\ f \in Nat \ {0}
      /\ \A k \in a..(f - 1) : Placed(s, a, k) \/ k = f - 1
      /\ f > a => f - 1 > a /\ s[f - 2] \in AlNum
  BY <1>3
<1> HIDE DEF S, f
<1>5. at(s, f, Alpha) /\ toplabel(s, f) = e /\ e # NoMatch
  <2>1. CASE toplabel(s, f) = NoMatch
    <3>1. hostname(s, a) = NoMatch
      BY <2>1, TopFacts DEF f, NoMatch
    <3>2. QED
      BY <3>1
  <2>2. CASE toplabel(s, f) # NoMatch
    BY <1>4, <2>2, LabelIs
  <2>3. QED
    BY <2>1, <2>2
<1>6. e \in (f + 1)..(Len(s) + 1) /\ LabelTo(s, f, e) /\ Stops(s, e)
  BY <1>4, <1>5, LabelIs
<1>7. f \in 1..Len(s) /\ s[f] \in Alpha /\ s[f] \in AlNum /\ at(s, f, AlNum)
  BY <1>5, HostChars DEF at
<1>8. ~ (e \in 1..Len(s) /\ s[e] = ".")
  BY <1>3, <1>4, <1>7, SubNextIs
<1>9. hostname(s, a) = e
  BY <1>5, <1>8, TopFacts DEF f
<1> HIDE DEF e
<1>10. ASSUME NEW k \in a..(e - 1) PROVE Placed(s, a, k)
  <2>1. CASE k < f - 1
    BY <1>4, <2>1
  <2>2. CASE k = f - 1
    <3>1. k > a /\ s[k] = "." /\ k - 1 = f - 2 /\ k + 1 = f
      BY <1>4, <2>2
    <3>2. QED
      BY <1>4, <1>7, <2>2, <3>1 DEF Placed
  <2>3. CASE k \in f..(e - 1)
    <3>1. s[k] \in AlNum \/ (s[k] = "-" /\ k + 1 < e /\ s[k + 1] \in AlNum)
      BY <1>6, <2>3 DEF LabelTo
    <3>2. ASSUME s[k] = "-" PROVE k > f /\ s[k - 1] \in AlNum /\ s[k + 1] \in AlNum
      <4>1. s[k] \notin AlNum /\ k # f
        BY <1>7, <3>2, HostChars
      <4>2. k - 1 \in f..(e - 1) /\ (k - 1) + 1 = k
        BY <1>4, <1>6, <2>3, <4>1
      <4>3. s[k - 1] \in AlNum
        BY <1>6, <4>1, <4>2, Zenon DEF LabelTo
      <4>4. QED
        BY <1>4, <1>6, <2>3, <3>1, <4>1, <4>3
    <3>3. k > f => k > a
      BY <1>4, <2>3
    <3>4. QED
      BY <3>1, <3>2, <3>3 DEF Placed
  <2>4. QED
    BY <1>4, <1>6, <2>1, <2>2, <2>3
<1>11. TopAt(s, a, f, e - 1)
  BY <1>4, <1>6, <1>7, HostChars DEF TopAt, LabelTo
<1>12. a <= e - 1 /\ e - 1 <= Len(s) /\ s[e - 1] \in AlNum /\ f \in a..(e - 1) /\ e > a
  BY <1>4, <1>6 DEF LabelTo
<1>13. Hosted(s, a, e - 1)
  BY <1>10, <1>11, <1>12 DEF Hosted
<1>14. e \in (a + 1)..(Len(s) + 1)
  BY <1>6, <1>12
<1>15. ~ at(s, e, {"."})
  BY <1>8 DEF at
<1>16. QED
  BY <1>6, <1>9, <1>13, <1>14, <1>15

\* Digits, one at least and all that there are.
LEMMA DigitsIs ==
    ASSUME NEW V, NEW s \in Seq(V), NEW j \in Nat
    PROVE  LET m == many1(s, j, Digit) IN
           /\ m = NoMatch <=> ~ at(s, j, Digit)
           /\ m # NoMatch => /\ m \in (j + 1)..(Len(s) + 1) /\ j \in 1..Len(s)
                             /\ \A k \in j..(m - 1) : s[k] \in Digit
                             /\ ~ at(s, m, Digit)
<1>1. one(s, j, Digit) = IF at(s, j, Digit) THEN j + 1 ELSE NoMatch
  BY DEF one
<1>2. CASE ~ at(s, j, Digit)
  BY <1>1, <1>2 DEF many1, many
<1>3. CASE at(s, j, Digit)
  <2>1. j \in 1..Len(s) /\ s[j] \in Digit /\ j + 1 \in 1..(Len(s) + 1)
    BY <1>3 DEF at
  <2> DEFINE m == many1(s, j, Digit)
  <2>2. m = many(s, j + 1, Digit)
    BY <1>1, <1>3 DEF many1
  <2>3. m \in (j + 1)..(Len(s) + 1) /\ (\A k \in (j + 1)..(m - 1) : s[k] \in Digit) /\ ~ at(s, m, Digit)
    BY <2>1, <2>2, ManyIs
  <2> HIDE DEF m
  <2>4. \A k \in j..(m - 1) : k = j \/ k \in (j + 1)..(m - 1)
    BY <2>3
  <2>5. QED
    BY <1>3, <2>1, <2>3, <2>4 DEF m, NoMatch
<1>4. QED
  BY <1>2, <1>3

LEMMA DigitsTaken ==
    ASSUME NEW V, NEW s \in Seq(V), NEW j \in Nat \ {0}, NEW m \in (j + 1)..(Len(s) + 1),
           \A k \in j..(m - 1) : s[k] \in Digit, ~ at(s, m, Digit)
    PROVE  many1(s, j, Digit) = m
<1> DEFINE d == many1(s, j, Digit)
<1>1. at(s, j, Digit)
  BY DEF at
<1>2. d \in (j + 1)..(Len(s) + 1) /\ (\A k \in j..(d - 1) : s[k] \in Digit) /\ ~ at(s, d, Digit)
  BY <1>1, DigitsIs
<1> HIDE DEF d
<1>3. ~ d < m
  <2> SUFFICES ASSUME d < m PROVE FALSE
    OBVIOUS
  <2>1. d \in j..(m - 1) /\ d \in 1..Len(s)
    BY <1>2
  <2>2. QED
    BY <1>2, <2>1 DEF at
<1>4. ~ m < d
  <2> SUFFICES ASSUME m < d PROVE FALSE
    OBVIOUS
  <2>1. m \in j..(d - 1) /\ m \in 1..Len(s)
    BY <1>2
  <2>2. QED
    BY <1>2, <2>1 DEF at
<1>5. d = m
  BY <1>2, <1>3, <1>4
<1>6. QED
  BY <1>5 DEF d

LEMMA DotIs ==
    ASSUME NEW V, NEW s \in Seq(V), NEW j \in Nat
    PROVE  one(s, j, {"."}) = IF j \in 1..Len(s) /\ s[j] = "." THEN j + 1 ELSE NoMatch
<1>1. one(s, j, {"."}) = IF j \in 1..Len(s) /\ s[j] \in {"."} THEN j + 1 ELSE NoMatch
  BY OneIs
<1>2. QED
  BY <1>1

\* What is taken for an address is one.
LEMMA AddressIs ==
    ASSUME NEW V, NEW s \in Seq(V), NEW a \in Nat, IPv4address(s, a) # NoMatch
    PROVE  /\ IPv4address(s, a) \in (a + 1)..(Len(s) + 1) /\ ~ at(s, IPv4address(s, a), Digit)
           /\ a > 0
           /\ \E x, y, z \in Nat : DotsAt(s, a, x, y, z, IPv4address(s, a) - 1)
<1> DEFINE x == many1(s, a, Digit)
           xd == one(s, x, {"."})
           y == many1(s, xd, Digit)
           yd == one(s, y, {"."})
           z == many1(s, yd, Digit)
           zd == one(s, z, {"."})
           e == many1(s, zd, Digit)
<1>1. IPv4address(s, a) = e
  BY DEF IPv4address
<1>2. /\ x = NoMatch <=> ~ at(s, a, Digit)
      /\ x # NoMatch => /\ x \in (a + 1)..(Len(s) + 1) /\ a \in 1..Len(s)
                        /\ \A k \in a..(x - 1) : s[k] \in Digit
  BY DigitsIs
<1>3. x \in Nat
  BY <1>2 DEF NoMatch
<1> HIDE DEF x
<1>4. xd = IF x \in 1..Len(s) /\ s[x] = "." THEN x + 1 ELSE NoMatch
  BY <1>3, DotIs
<1>5. xd \in Nat
  BY <1>3, <1>4 DEF NoMatch
<1> HIDE DEF xd
<1>6. /\ y = NoMatch <=> ~ at(s, xd, Digit)
      /\ y # NoMatch => /\ y \in (xd + 1)..(Len(s) + 1) /\ xd \in 1..Len(s)
                        /\ \A k \in xd..(y - 1) : s[k] \in Digit
  BY <1>5, DigitsIs
<1>7. y \in Nat
  BY <1>5, <1>6 DEF NoMatch
<1> HIDE DEF y
<1>8. yd = IF y \in 1..Len(s) /\ s[y] = "." THEN y + 1 ELSE NoMatch
  BY <1>7, DotIs
<1>9. yd \in Nat
  BY <1>7, <1>8 DEF NoMatch
<1> HIDE DEF yd
<1>10. /\ z = NoMatch <=> ~ at(s, yd, Digit)
       /\ z # NoMatch => /\ z \in (yd + 1)..(Len(s) + 1) /\ yd \in 1..Len(s)
                         /\ \A k \in yd..(z - 1) : s[k] \in Digit
  BY <1>9, DigitsIs
<1>11. z \in Nat
  BY <1>9, <1>10 DEF NoMatch
<1> HIDE DEF z
<1>12. zd = IF z \in 1..Len(s) /\ s[z] = "." THEN z + 1 ELSE NoMatch
  BY <1>11, DotIs
<1>13. zd \in Nat
  BY <1>11, <1>12 DEF NoMatch
<1> HIDE DEF zd
<1>14. /\ e = NoMatch <=> ~ at(s, zd, Digit)
       /\ e # NoMatch => /\ e \in (zd + 1)..(Len(s) + 1) /\ zd \in 1..Len(s)
                         /\ \A k \in zd..(e - 1) : s[k] \in Digit
                         /\ ~ at(s, e, Digit)
  BY <1>13, DigitsIs
<1> HIDE DEF e
<1>15. e # NoMatch
  BY <1>1
<1>16. zd = z + 1 /\ z \in 1..Len(s) /\ s[z] = "." /\ z # NoMatch
  BY <1>12, <1>14, <1>15 DEF NoMatch
<1>17. yd = y + 1 /\ y \in 1..Len(s) /\ s[y] = "." /\ y # NoMatch
  BY <1>8, <1>10, <1>16 DEF NoMatch
<1>18. xd = x + 1 /\ x \in 1..Len(s) /\ s[x] = "." /\ x # NoMatch
  BY <1>4, <1>6, <1>17 DEF NoMatch
<1>19. /\ a < x /\ x + 1 < y /\ y + 1 < z /\ z < e - 1 /\ e - 1 <= Len(s) /\ e \in Nat /\ a > 0
  BY <1>2, <1>6, <1>10, <1>14, <1>15, <1>16, <1>17, <1>18
<1>20. ASSUME NEW k \in a..(e - 1) PROVE s[k] \in IF k \in {x, y, z} THEN {"."} ELSE Digit
  <2>1. k \in {x, y, z} \/ k \in a..(x - 1) \/ k \in xd..(y - 1) \/ k \in yd..(z - 1) \/ k \in zd..(e - 1)
    BY <1>3, <1>7, <1>11, <1>16, <1>17, <1>18, <1>19
  <2>2. CASE k \in {x, y, z}
    BY <1>16, <1>17, <1>18, <2>2
  <2>3. CASE k \notin {x, y, z}
    BY <1>2, <1>6, <1>10, <1>14, <1>15, <1>16, <1>17, <1>18, <2>1, <2>3
  <2>4. QED
    BY <2>2, <2>3
<1>21. DotsAt(s, a, x, y, z, e - 1)
  BY <1>19, <1>20 DEF DotsAt
<1>22. e \in (a + 1)..(Len(s) + 1)
  BY <1>3, <1>7, <1>11, <1>19
<1>23. QED
  BY <1>1, <1>3, <1>7, <1>11, <1>14, <1>15, <1>19, <1>21, <1>22

\* An address is taken as a whole, and never for a name.
LEMMA AddressTaken ==
    ASSUME NEW V, NEW s \in Seq(V), NEW a \in Nat \ {0}, NEW x \in Nat, NEW y \in Nat, NEW z \in Nat,
           NEW n \in Nat, DotsAt(s, a, x, y, z, n), Ended(s, n)
    PROVE  IPv4address(s, a) = n + 1 /\ hostname(s, a) = NoMatch
<1>1. /\ a < x /\ x + 1 < y /\ y + 1 < z /\ z < n /\ n <= Len(s) /\ Len(s) \in Nat
      /\ \A k \in a..n : s[k] \in IF k \in {x, y, z} THEN {"."} ELSE Digit
      /\ n + 1 > Len(s) \/ s[n + 1] \notin AlNum \cup {"-", "."}
  BY EndedIs DEF DotsAt
<1>2. /\ \A k \in a..n : k \notin {x, y, z} => s[k] \in Digit /\ s[k] \in AlNum /\ s[k] \notin Alpha /\ s[k] # "."
      /\ \A k \in {x, y, z} : k \in a..n /\ k \in 1..Len(s) /\ s[k] = "." /\ ~ at(s, k, Digit)
  <2>1. \A k \in a..n : k \notin {x, y, z} => s[k] \in Digit
    BY <1>1
  <2>2. \A k \in {x, y, z} : k \in a..n /\ k \in 1..Len(s)
    BY <1>1
  <2>3. \A k \in {x, y, z} : s[k] = "."
    BY <1>1, <2>2
  <2>4. \A c \in Digit : c \in AlNum /\ c \notin Alpha /\ c # "."
    BY HostChars
  <2>5. \A k \in {x, y, z} : ~ at(s, k, Digit)
    BY <2>3, <2>4 DEF at
  <2>6. QED
    BY <2>1, <2>2, <2>3, <2>4, <2>5
<1>3. ~ at(s, n + 1, Digit)
  BY <1>1, HostChars DEF at
<1>4. IPv4address(s, a) = n + 1
  <2>1. many1(s, a, Digit) = x
    <3>1. x \in (a + 1)..(Len(s) + 1) /\ \A k \in a..(x - 1) : k \in a..n /\ k \notin {x, y, z}
      BY <1>1
    <3>2. QED
      BY <1>2, <3>1, DigitsTaken
  <2>2. many1(s, x + 1, Digit) = y
    <3>1. /\ x + 1 \in Nat \ {0} /\ y \in ((x + 1) + 1)..(Len(s) + 1)
          /\ \A k \in (x + 1)..(y - 1) : k \in a..n /\ k \notin {x, y, z}
      BY <1>1
    <3>2. QED
      BY <1>2, <3>1, DigitsTaken
  <2>3. many1(s, y + 1, Digit) = z
    <3>1. /\ y + 1 \in Nat \ {0} /\ z \in ((y + 1) + 1)..(Len(s) + 1)
          /\ \A k \in (y + 1)..(z - 1) : k \in a..n /\ k \notin {x, y, z}
      BY <1>1
    <3>2. QED
      BY <1>2, <3>1, DigitsTaken
  <2>4. many1(s, z + 1, Digit) = n + 1
    <3>1. /\ z + 1 \in Nat \ {0} /\ n + 1 \in ((z + 1) + 1)..(Len(s) + 1)
          /\ \A k \in (z + 1)..((n + 1) - 1) : k \in a..n /\ k \notin {x, y, z}
      BY <1>1
    <3>2. QED
      BY <1>2, <1>3, <3>1, DigitsTaken
  <2>5. /\ one(s, x, {"."}) = x + 1 /\ one(s, y, {"."}) = y + 1 /\ one(s, z, {"."}) = z + 1
    BY <1>2, DotIs
  <2>6. QED
    BY <2>1, <2>2, <2>3, <2>4, <2>5 DEF IPv4address
<1> DEFINE S == {j \in a..n : j = a \/ s[j - 1] = "."}
           f == subdomains(s, a)
<1>5. S \in SUBSET (1..(Len(s) + 2)) /\ a \in S
  BY <1>1
<1>6. ASSUME NEW j \in S, NEW e \in (j + 1)..Len(s), LabelTo(s, j, e), s[e] = "." PROVE e + 1 \in S
  <2>1. j \in Nat \ {0} /\ n + 1 \in Nat /\ n + 1 >= j /\ e \in Nat /\ j \in a..n
    BY <1>1
  <2>2. n + 1 > Len(s) \/ s[n + 1] \notin AlNum \cup {"-"}
    BY <1>1
  <2>3. e <= n + 1
    BY <1>6, <2>1, <2>2, LabelEnds
  <2>4. e # n + 1
    BY <1>1, <1>6, <2>1
  <2>5. e \in a..n
    BY <2>1, <2>3, <2>4
  <2>6. e # n
    <3>1. n \in a..n /\ n \notin {x, y, z}
      BY <1>1
    <3>2. QED
      BY <1>2, <1>6, <3>1
  <2>7. e + 1 \in a..n /\ (e + 1) - 1 = e
    BY <2>5, <2>6
  <2>8. QED
    BY <1>6, <2>7
<1>7. f \in S
  <2> HIDE DEF S, f
  <2>1. QED
    BY <1>5, <1>6, SubdomainsStay DEF f
<1>8. f \in a..n /\ (f = a \/ s[f - 1] = ".") /\ f \in Nat \ {0}
  BY <1>7
<1> HIDE DEF S, f
<1>9. s[f] \notin Alpha
  <2>1. f \notin {x, y, z}
    <3>1. CASE f = a
      BY <1>1, <3>1
    <3>2. CASE f # a
      <4>1. f - 1 \in a..n /\ s[f - 1] = "."
        BY <1>8, <3>2
      <4>2. f - 1 \in {x, y, z}
        BY <1>2, <4>1
      <4>3. QED
        BY <1>1, <4>2
    <3>3. QED
      BY <3>1, <3>2
  <2>2. QED
    BY <1>2, <1>8, <2>1
<1>10. toplabel(s, f) = NoMatch
  BY <1>8, <1>9, LabelIs DEF at
<1>11. hostname(s, a) = NoMatch
  BY <1>10, TopFacts DEF f, NoMatch
<1>12. QED
  BY <1>4, <1>11

\* A name with a dot behind it is not taken for a name.
LEMMA DottedRefused ==
    ASSUME NEW V, NEW s \in Seq(V), NEW a \in Nat \ {0}, NEW n \in Nat, Hosted(s, a, n),
           n + 1 <= Len(s), s[n + 1] = ".", Ended(s, n + 1)
    PROVE  hostname(s, a) = NoMatch
<1>1. /\ a <= n /\ n <= Len(s) /\ s[n] \in AlNum /\ Len(s) \in Nat
      /\ \A k \in a..n : Placed(s, a, k)
      /\ n + 2 > Len(s) \/ s[n + 2] \notin AlNum \cup {"-", "."}
  <2>1. n + 1 \in Nat /\ (n + 1) + 1 = n + 2
    OBVIOUS
  <2>2. n + 2 > Len(s) \/ s[n + 2] \notin AlNum \cup {"-", "."}
    BY <2>1, EndedIs
  <2>3. QED
    BY <2>2 DEF Hosted
<1> DEFINE S == {j \in a..(n + 2) : j = a \/ s[j - 1] = "."}
           f == subdomains(s, a)
<1>2. S \in SUBSET (1..(Len(s) + 2)) /\ a \in S
  BY <1>1
<1>3. ASSUME NEW j \in S, NEW e \in (j + 1)..Len(s), LabelTo(s, j, e), s[e] = "." PROVE e + 1 \in S
  <2>1. j \in Nat \ {0} /\ e \in Nat /\ j \in a..(n + 2)
    BY <1>1
  <2>2. e <= n + 2
    <3>1. n + 2 \in Nat /\ n + 2 >= j /\ (n + 2 > Len(s) \/ s[n + 2] \notin AlNum \cup {"-"})
      BY <1>1, <2>1
    <3>2. QED
      BY <1>3, <2>1, <3>1, LabelEnds
  <2>3. e # n + 2
    BY <1>1, <1>3, <2>1
  <2>4. e + 1 \in a..(n + 2) /\ (e + 1) - 1 = e
    BY <2>1, <2>2, <2>3
  <2>5. QED
    BY <1>3, <2>4
<1>4. f \in S /\ SubNext(s, f) = NoMatch
  <2> HIDE DEF S, f
  <2>1. QED
    BY <1>2, <1>3, SubdomainsStay DEF f
<1>5. f \in a..(n + 2) /\ (f = a \/ s[f - 1] = ".") /\ f \in Nat \ {0}
  BY <1>4
<1> HIDE DEF S, f
<1>6. f # n + 1
  <2>1. (n + 1) - 1 = n /\ n + 1 # a
    BY <1>1
  <2>2. s[n] # "."
    BY <1>1, HostChars
  <2>3. QED
    BY <1>5, <2>1, <2>2
<1>7. f = n + 2
  <2> SUFFICES ASSUME f \in a..n PROVE FALSE
    BY <1>5, <1>6
  <2> DEFINE e == domainlabel(s, f)
  <2>1. at(s, f, AlNum) /\ e \in (f + 1)..(n + 1) /\ (e <= n => s[e] = ".")
    <3>1. s[n + 1] \notin AlNum \cup {"-"}
      BY HostChars
    <3>2. QED
      BY <1>1, <1>5, <3>1, LabelInName
  <2> HIDE DEF e
  <2>2. s[e] = "." /\ e \in 1..Len(s)
    BY <1>1, <1>5, <2>1
  <2>3. QED
    BY <1>4, <1>5, <2>1, <2>2, SubNextIs DEF e
<1>8. toplabel(s, f) = NoMatch
  <2>1. ~ at(s, n + 2, Alpha)
    BY <1>1, HostChars DEF at
  <2>2. QED
    BY <1>5, <1>7, <2>1, LabelIs
<1>9. QED
  BY <1>8, TopFacts DEF f, NoMatch

-----------------------------------------------------------------------------
(* Names and addresses as the property has them, and by their places. *)

LEMMA CutIs ==
    ASSUME NEW V, NEW s \in Seq(V), NEW a \in 1..(Len(s) + 1), NEW b \in (a - 1)..Len(s)
    PROVE  /\ SubSeq(s, a, b) \in Seq(V) /\ Len(SubSeq(s, a, b)) = b - a + 1
           /\ DOMAIN SubSeq(s, a, b) = 1..(b - a + 1)
           /\ \A k \in 1..(b - a + 1) : SubSeq(s, a, b)[k] = s[a + k - 1]
           /\ \A k \in a..b : SubSeq(s, a, b)[k - a + 1] = s[k]
<1> DEFINE c == SubSeq(s, a, b)
<1>1. a \in Int /\ b \in Int /\ Len(s) \in Nat /\ \A j \in a..b : s[j] \in V
  OBVIOUS
<1>2. /\ c \in Seq(V)
      /\ Len(c) = IF a <= b THEN b - a + 1 ELSE 0
      /\ \A k \in 1..(b - a + 1) : c[k] = s[a + k - 1]
  BY <1>1, SubSeqProperties
<1> HIDE DEF c
<1>3. Len(c) = b - a + 1
  BY <1>1, <1>2
<1>4. DOMAIN c = 1..(b - a + 1)
  BY <1>2, <1>3
<1>5. ASSUME NEW k \in a..b PROVE c[k - a + 1] = s[k]
  <2>1. k - a + 1 \in 1..(b - a + 1) /\ a + (k - a + 1) - 1 = k
    BY <1>1
  <2>2. c[k - a + 1] = s[a + (k - a + 1) - 1]
    BY <1>2, <2>1
  <2>3. QED
    BY <2>1, <2>2
<1>6. QED
  BY <1>2, <1>3, <1>4, <1>5 DEF c

\* The places a to b are a piece between dots, and a label.
Piece(s, a, b) ==
    /\ a \in 1..(Len(s) + 1) /\ b \in (a - 1)..Len(s)
    /\ a = 1 \/ s[a - 1] = "."
    /\ b = Len(s) \/ s[b + 1] = "."
    /\ \A k \in a..b : s[k] # "."

Labelled(s, a, b, first) ==
    /\ a <= b /\ s[a] \in first /\ s[b] \in AlNum
    /\ \A k \in a..b : s[k] \in AlNum \cup {"-"}

LEMMA PiecesAre ==
    ASSUME NEW V, NEW s \in Seq(V)
    PROVE  \A a, b \in Nat : <<a, b>> \in Pieces(s) <=> Piece(s, a, b)
<1> SUFFICES ASSUME NEW a \in Nat, NEW b \in Nat PROVE <<a, b>> \in Pieces(s) <=> Piece(s, a, b)
  OBVIOUS
<1>1. <<a, b>> \in Pieces(s) <=>
          a \in 1..(Len(s) + 1) /\ b \in 0..Len(s) /\ b >= a - 1 /\ IsPiece(s, a, b)
  BY DEF Pieces
<1>2. ASSUME a \in 1..(Len(s) + 1), b \in (a - 1)..Len(s)
      PROVE  "." \notin ToSet(SubSeq(s, a, b)) <=> \A k \in a..b : s[k] # "."
  <2>1. /\ DOMAIN SubSeq(s, a, b) = 1..(b - a + 1)
        /\ \A k \in 1..(b - a + 1) : SubSeq(s, a, b)[k] = s[a + k - 1] /\ a + k - 1 \in a..b
        /\ \A k \in a..b : SubSeq(s, a, b)[k - a + 1] = s[k] /\ k - a + 1 \in 1..(b - a + 1)
    BY <1>2, CutIs
  <2> DEFINE c == SubSeq(s, a, b)
  <2>2. "." \in ToSet(c) <=> \E k \in DOMAIN c : c[k] = "."
    BY DEF ToSet
  <2> HIDE DEF c
  <2>3. ASSUME "." \in ToSet(c) PROVE \E k \in a..b : s[k] = "."
    <3>1. PICK k \in 1..(b - a + 1) : c[k] = "."
      BY <2>1, <2>2, <2>3 DEF c
    <3>2. QED
      BY <2>1, <3>1 DEF c
  <2>4. ASSUME NEW k \in a..b, s[k] = "." PROVE "." \in ToSet(c)
    BY <2>1, <2>2, <2>4 DEF c
  <2>5. QED
    BY <2>3, <2>4 DEF c
<1>3. CASE a \in 1..(Len(s) + 1) /\ b \in (a - 1)..Len(s)
  <2>1. b \in 0..Len(s) /\ b >= a - 1
    BY <1>3
  <2>2. QED
    BY <1>1, <1>2, <1>3, <2>1 DEF Piece, IsPiece
<1>4. CASE ~ (a \in 1..(Len(s) + 1) /\ b \in (a - 1)..Len(s))
  <2>1. ~ (a \in 1..(Len(s) + 1) /\ b \in 0..Len(s) /\ b >= a - 1)
    BY <1>4
  <2>2. QED
    BY <1>1, <1>4, <2>1 DEF Piece
<1>5. QED
  BY <1>3, <1>4

LEMMA CutIsLabel ==
    ASSUME NEW V, NEW s \in Seq(V), NEW a \in 1..(Len(s) + 1), NEW b \in (a - 1)..Len(s), NEW first
    PROVE  IsLabel(SubSeq(s, a, b), first) <=> Labelled(s, a, b, first)
<1> DEFINE c == SubSeq(s, a, b)
<1>1. /\ c \in Seq(V) /\ Len(c) = b - a + 1 /\ DOMAIN c = 1..(b - a + 1)
      /\ \A k \in 1..(b - a + 1) : c[k] = s[a + k - 1] /\ a + k - 1 \in a..b
      /\ \A k \in a..b : c[k - a + 1] = s[k] /\ k - a + 1 \in 1..(b - a + 1)
      /\ a \in Nat /\ b \in Int
  BY CutIs
<1> HIDE DEF c
<1>2. c # <<>> <=> a <= b
  <2>1. c = <<>> => Len(c) = 0
    OBVIOUS
  <2>2. Len(c) = 0 => c = <<>>
    BY <1>1
  <2>3. QED
    BY <1>1, <2>1, <2>2
<1>3. ASSUME a <= b PROVE c[1] = s[a] /\ Last(c) = s[b]
  <2>1. a \in a..b /\ b \in a..b /\ a - a + 1 = 1
    BY <1>1, <1>3
  <2>2. c[1] = s[a] /\ c[b - a + 1] = s[b]
    BY <1>1, <2>1
  <2>3. QED
    BY <1>1, <2>2 DEF Last
<1>4. ToSet(c) \subseteq AlNum \cup {"-"} <=> \A k \in a..b : s[k] \in AlNum \cup {"-"}
  <2>1. ToSet(c) \subseteq AlNum \cup {"-"} <=> \A k \in DOMAIN c : c[k] \in AlNum \cup {"-"}
    BY DEF ToSet
  <2>2. (\A k \in DOMAIN c : c[k] \in AlNum \cup {"-"}) <=> \A k \in a..b : s[k] \in AlNum \cup {"-"}
    <3>1. ASSUME \A k \in DOMAIN c : c[k] \in AlNum \cup {"-"}, NEW k \in a..b
          PROVE  s[k] \in AlNum \cup {"-"}
      <4>1. k - a + 1 \in DOMAIN c /\ c[k - a + 1] = s[k]
        BY <1>1
      <4>2. QED
        BY <3>1, <4>1
    <3>2. ASSUME \A k \in a..b : s[k] \in AlNum \cup {"-"}, NEW k \in DOMAIN c
          PROVE  c[k] \in AlNum \cup {"-"}
      <4>1. c[k] = s[a + k - 1] /\ a + k - 1 \in a..b
        BY <1>1
      <4>2. QED
        BY <3>2, <4>1
    <3>3. QED
      BY <3>1, <3>2
  <2>3. QED
    BY <2>1, <2>2
<1>5. QED
  BY <1>2, <1>3, <1>4 DEF IsLabel, Labelled, c

LEMMA HostnameIs ==
    ASSUME NEW V, NEW s \in Seq(V)
    PROVE  IsHostname(s) <=>
               /\ Len(s) > 0
               /\ \A a, b \in Nat : Piece(s, a, b) =>
                      Labelled(s, a, b, IF b = Len(s) THEN Alpha ELSE AlNum)
<1>1. s # <<>> <=> Len(s) > 0
  OBVIOUS
<1>2. \A p \in Pieces(s) : \E a, b \in Nat : p = <<a, b>>
  BY DEF Pieces
<1>3. \A a, b \in Nat : Piece(s, a, b) =>
          \A first : IsLabel(SubSeq(s, a, b), first) <=> Labelled(s, a, b, first)
  BY CutIsLabel DEF Piece
<1>4. ASSUME IsHostname(s), NEW a \in Nat, NEW b \in Nat, Piece(s, a, b)
      PROVE  Labelled(s, a, b, IF b = Len(s) THEN Alpha ELSE AlNum)
  <2>1. <<a, b>> \in Pieces(s)
    BY <1>4, PiecesAre
  <2>2. IsLabel(SubSeq(s, a, b), IF b = Len(s) THEN Alpha ELSE AlNum)
    BY <1>4, <2>1 DEF IsHostname
  <2>3. QED
    BY <1>3, <1>4, <2>2
<1>5. ASSUME Len(s) > 0, \A a, b \in Nat : Piece(s, a, b) =>
                             Labelled(s, a, b, IF b = Len(s) THEN Alpha ELSE AlNum)
      PROVE  IsHostname(s)
  <2>1. ASSUME NEW p \in Pieces(s)
        PROVE  IsLabel(SubSeq(s, p[1], p[2]), IF p[2] = Len(s) THEN Alpha ELSE AlNum)
    <3>1. PICK a, b \in Nat : p = <<a, b>>
      BY <1>2
    <3>2. Piece(s, a, b) /\ p[1] = a /\ p[2] = b
      BY <3>1, PiecesAre
    <3>3. Labelled(s, a, b, IF b = Len(s) THEN Alpha ELSE AlNum)
      BY <1>5, <3>2
    <3>4. QED
      BY <1>3, <3>2, <3>3
  <2>2. QED
    BY <1>1, <1>5, <2>1 DEF IsHostname
<1>6. QED
  BY <1>1, <1>4, <1>5 DEF IsHostname

\* A piece begins wherever one may, ends wherever one may, and lies around every
\* character but a dot.
LEMMA PieceFrom ==
    ASSUME NEW V, NEW s \in Seq(V), NEW a \in 1..(Len(s) + 1), a = 1 \/ s[a - 1] = "."
    PROVE  \E b \in Nat : Piece(s, a, b)
<1> DEFINE T == {b \in (a - 1)..Len(s) : b = Len(s) \/ s[b + 1] = "."}
<1>1. Len(s) \in Nat /\ a - 1 \in Nat /\ T \in SUBSET Nat /\ Len(s) \in T
  OBVIOUS
<1>2. PICK b \in T : \A k \in T : b <= k
  <2> HIDE DEF T
  <2>1. QED
    BY <1>1, LeastNumber
<1>3. b \in (a - 1)..Len(s) /\ (b = Len(s) \/ s[b + 1] = ".")
  OBVIOUS
<1>4. ASSUME NEW k \in a..b PROVE s[k] # "."
  <2> SUFFICES ASSUME s[k] = "." PROVE FALSE
    OBVIOUS
  <2>1. k - 1 \in (a - 1)..Len(s) /\ (k - 1) + 1 = k /\ k - 1 < b
    BY <1>1, <1>3
  <2>2. k - 1 \in T
    BY <2>1
  <2>3. b <= k - 1
    <3> HIDE DEF T
    <3>1. QED
      BY <1>2, <2>2
  <2>4. QED
    BY <1>1, <1>3, <2>1, <2>3
<1>5. QED
  BY <1>1, <1>3, <1>4 DEF Piece

LEMMA PieceTo ==
    ASSUME NEW V, NEW s \in Seq(V), NEW b \in 0..Len(s), b = Len(s) \/ s[b + 1] = "."
    PROVE  \E a \in Nat : Piece(s, a, b)
<1> DEFINE T == {a \in 1..(b + 1) : a = 1 \/ s[a - 1] = "."}
<1>1. Len(s) \in Nat /\ Len(s) + 1 \in Nat /\ T \in SUBSET (0..(Len(s) + 1)) /\ 1 \in T
  OBVIOUS
<1>2. PICK a \in T : \A k \in T : k <= a
  <2> HIDE DEF T
  <2>1. QED
    BY <1>1, GreatestNumber
<1>3. a \in 1..(b + 1) /\ (a = 1 \/ s[a - 1] = ".")
  OBVIOUS
<1>4. ASSUME NEW k \in a..b PROVE s[k] # "."
  <2> SUFFICES ASSUME s[k] = "." PROVE FALSE
    OBVIOUS
  <2>1. k + 1 \in 1..(b + 1) /\ (k + 1) - 1 = k /\ k + 1 > a
    BY <1>1, <1>3
  <2>2. k + 1 \in T
    BY <2>1
  <2>3. k + 1 <= a
    <3> HIDE DEF T
    <3>1. QED
      BY <1>2, <2>2
  <2>4. QED
    BY <1>1, <1>3, <2>1, <2>3
<1>5. a \in Nat /\ a \in 1..(Len(s) + 1) /\ b \in (a - 1)..Len(s)
  BY <1>1, <1>3
<1> HIDE DEF T
<1>6. Piece(s, a, b)
  BY <1>3, <1>4, <1>5 DEF Piece
<1>7. QED
  BY <1>5, <1>6

LEMMA PieceAround ==
    ASSUME NEW V, NEW s \in Seq(V), NEW n \in 1..Len(s), s[n] # "."
    PROVE  \E a, b \in Nat : Piece(s, a, b) /\ a <= n /\ n <= b
<1> DEFINE T == {a \in 1..n : a = 1 \/ s[a - 1] = "."}
<1>1. Len(s) \in Nat /\ T \in SUBSET (0..Len(s)) /\ 1 \in T
  OBVIOUS
<1>2. PICK a \in T : \A k \in T : k <= a
  <2> HIDE DEF T
  <2>1. QED
    BY <1>1, GreatestNumber
<1>3. a \in 1..n /\ (a = 1 \/ s[a - 1] = ".")
  OBVIOUS
<1>4. ASSUME NEW k \in a..n PROVE s[k] # "."
  <2> SUFFICES ASSUME s[k] = "." PROVE FALSE
    OBVIOUS
  <2>1. k + 1 \in 1..n /\ (k + 1) - 1 = k /\ k + 1 > a
    <3>1. k # n
      BY <1>4
    <3>2. QED
      BY <1>1, <1>3, <3>1
  <2>2. k + 1 \in T
    BY <2>1
  <2>3. k + 1 <= a
    <3> HIDE DEF T
    <3>1. QED
      BY <1>2, <2>2
  <2>4. QED
    BY <1>1, <1>3, <2>1, <2>3
<1>5. PICK b \in Nat : Piece(s, a, b)
  <2>1. a \in 1..(Len(s) + 1)
    BY <1>1, <1>3
  <2>2. QED
    BY <1>3, <2>1, PieceFrom
<1>6. n <= b
  <2> SUFFICES ASSUME b < n PROVE FALSE
    BY <1>1
  <2>1. b \in (a - 1)..Len(s) /\ (b = Len(s) \/ s[b + 1] = ".")
    BY <1>5 DEF Piece
  <2>2. b + 1 \in a..n /\ b # Len(s)
    BY <1>1, <1>3, <2>1
  <2>3. QED
    BY <1>4, <2>1, <2>2
<1>7. QED
  BY <1>1, <1>3, <1>5, <1>6

\* A name without two hyphens in a row is one by its places, and the other way.
LEMMA NameByPlaces ==
    ASSUME NEW V, NEW s \in Seq(V)
    PROVE  IsHostname(s) /\ ~Hyphens(s) <=> Hosted(s, 1, Len(s))
<1>1. Len(s) \in Nat
  OBVIOUS
<1>2. ASSUME IsHostname(s), ~Hyphens(s) PROVE Hosted(s, 1, Len(s))
  <2>1. /\ Len(s) > 0
        /\ \A a, b \in Nat : Piece(s, a, b) =>
               Labelled(s, a, b, IF b = Len(s) THEN Alpha ELSE AlNum)
    BY <1>2, HostnameIs
  <2>2. \A a, b \in Nat : Piece(s, a, b) => a <= b /\ s[a] \in AlNum /\ s[b] \in AlNum
    BY <2>1, HostChars DEF Labelled
  <2>3. PICK t \in Nat : Piece(s, t, Len(s))
    BY <1>1, PieceTo
  <2>4. t \in 1..Len(s) /\ s[Len(s)] \in AlNum /\ TopAt(s, 1, t, Len(s))
    BY <1>1, <2>1, <2>3 DEF Piece, Labelled, TopAt
  <2>5. ASSUME NEW k \in 1..Len(s) PROVE Placed(s, 1, k)
    <3>1. CASE s[k] = "."
      <4>1. k - 1 \in 0..Len(s) /\ (k - 1) + 1 = k /\ k + 1 \in 1..(Len(s) + 1) /\ (k + 1) - 1 = k
        BY <1>1
      <4>2. PICK a \in Nat : Piece(s, a, k - 1)
        BY <3>1, <4>1, PieceTo
      <4>3. PICK b \in Nat : Piece(s, k + 1, b)
        BY <3>1, <4>1, PieceFrom
      <4>4. a <= k - 1 /\ s[k - 1] \in AlNum /\ s[k + 1] \in AlNum /\ a >= 1
        <5>1. k - 1 \in Nat /\ k + 1 \in Nat /\ a >= 1
          BY <1>1, <4>2 DEF Piece
        <5>2. QED
          BY <2>2, <4>2, <4>3, <5>1
      <4>5. k > 1
        BY <4>1, <4>4
      <4>6. QED
        BY <3>1, <4>4, <4>5 DEF Placed
    <3>2. CASE s[k] # "."
      <4>1. PICK a, b \in Nat : Piece(s, a, b) /\ a <= k /\ k <= b
        BY <3>2, PieceAround
      <4>2. s[k] \in AlNum \cup {"-"} /\ s[a] \in AlNum /\ s[b] \in AlNum
        <5>1. k \in a..b
          BY <4>1
        <5>2. QED
          BY <2>1, <2>2, <4>1, <5>1 DEF Labelled
      <4>3. a >= 1 /\ b <= Len(s)
        BY <1>1, <4>1 DEF Piece
      <4>4. ASSUME s[k] = "-" PROVE k > 1 /\ s[k - 1] \in AlNum /\ s[k + 1] \in AlNum
        <5>1. k # a /\ k # b
          BY <4>2, <4>4, HostChars
        <5>2. /\ k - 1 \in a..b /\ k + 1 \in a..b /\ k > 1 /\ (k - 1) + 1 = k
              /\ k \in 1..(Len(s) - 1) /\ k - 1 \in 1..(Len(s) - 1)
          BY <1>1, <4>1, <4>3, <5>1
        <5>3. s[k - 1] \in AlNum \cup {"-"} /\ s[k + 1] \in AlNum \cup {"-"}
          BY <2>1, <4>1, <5>2 DEF Labelled
        <5>4. s[k + 1] # "-" /\ s[k - 1] # "-"
          BY <1>2, <4>4, <5>2 DEF Hyphens
        <5>5. QED
          BY <5>2, <5>3, <5>4
      <4>5. QED
        BY <4>2, <4>4 DEF Placed
    <3>3. QED
      BY <3>1, <3>2
  <2>6. QED
    BY <1>1, <2>1, <2>4, <2>5 DEF Hosted
<1>3. ASSUME Hosted(s, 1, Len(s)) PROVE IsHostname(s) /\ ~Hyphens(s)
  <2>1. 1 <= Len(s) /\ s[Len(s)] \in AlNum /\ \A k \in 1..Len(s) : Placed(s, 1, k)
    BY <1>3 DEF Hosted
  <2>2. PICK t \in 1..Len(s) : TopAt(s, 1, t, Len(s))
    BY <1>3 DEF Hosted
  <2>3. ASSUME NEW a \in Nat, NEW b \in Nat, Piece(s, a, b)
        PROVE  Labelled(s, a, b, IF b = Len(s) THEN Alpha ELSE AlNum)
    <3>1. /\ a \in 1..(Len(s) + 1) /\ b \in (a - 1)..Len(s)
          /\ a = 1 \/ s[a - 1] = "."
          /\ b = Len(s) \/ s[b + 1] = "."
          /\ \A k \in a..b : s[k] # "."
      BY <2>3 DEF Piece
    <3>2. s[a] \in AlNum /\ a <= Len(s)
      <4>1. CASE a = 1
        <5>1. Placed(s, 1, 1)
          BY <2>1
        <5>2. QED
          BY <2>1, <4>1, <5>1 DEF Placed
      <4>2. CASE a # 1
        <5>1. a - 1 \in 1..Len(s) /\ s[a - 1] = "." /\ (a - 1) + 1 = a
          BY <1>1, <3>1, <4>2
        <5>2. Placed(s, 1, a - 1)
          BY <2>1, <5>1
        <5>3. s[a] \in AlNum
          BY <5>1, <5>2, HostChars DEF Placed
        <5>4. a - 1 # Len(s)
          BY <2>1, <5>1, HostChars
        <5>5. QED
          BY <1>1, <5>1, <5>3, <5>4
      <4>3. QED
        BY <4>1, <4>2
    <3>3. a <= b
      <4> SUFFICES ASSUME b = a - 1 PROVE FALSE
        BY <1>1, <3>1
      <4>1. b # Len(s) /\ b + 1 = a
        BY <1>1, <3>1, <3>2
      <4>2. QED
        BY <3>1, <3>2, <4>1, HostChars
    <3>4. s[b] \in AlNum
      <4>1. CASE b = Len(s)
        BY <2>1, <4>1
      <4>2. CASE b # Len(s)
        <5>1. s[b + 1] = "." /\ b + 1 \in 1..Len(s) /\ (b + 1) - 1 = b
          BY <1>1, <3>1, <4>2
        <5>2. Placed(s, 1, b + 1)
          BY <2>1, <5>1
        <5>3. QED
          BY <5>1, <5>2, HostChars DEF Placed
      <4>3. QED
        BY <4>1, <4>2
    <3>5. ASSUME NEW k \in a..b PROVE s[k] \in AlNum \cup {"-"}
      <4>1. Placed(s, 1, k) /\ s[k] # "."
        BY <1>1, <2>1, <3>1
      <4>2. QED
        BY <4>1 DEF Placed
    <3>6. ASSUME b = Len(s) PROVE s[a] \in Alpha
      <4>1. ~ a < t
        <5> SUFFICES ASSUME a < t PROVE FALSE
          OBVIOUS
        <5>1. t - 1 \in a..b /\ t # 1
          BY <1>1, <3>1, <3>6
        <5>2. s[t - 1] = "."
          BY <2>2, <5>1 DEF TopAt
        <5>3. QED
          BY <3>1, <5>1, <5>2
      <4>2. ~ t < a
        <5> SUFFICES ASSUME t < a PROVE FALSE
          OBVIOUS
        <5>1. a - 1 \in t..Len(s) /\ a # 1
          BY <1>1, <3>1
        <5>2. QED
          BY <2>2, <3>1, <5>1 DEF TopAt
      <4>3. a = t
        BY <1>1, <3>1, <4>1, <4>2
      <4>4. QED
        BY <2>2, <4>3 DEF TopAt
    <3>7. QED
      BY <3>2, <3>3, <3>4, <3>5, <3>6 DEF Labelled
  <2>4. IsHostname(s)
    BY <1>1, <2>1, <2>3, HostnameIs
  <2>5. ASSUME NEW k \in 1..(Len(s) - 1), s[k] = "-", s[k + 1] = "-" PROVE FALSE
    <3>1. Placed(s, 1, k)
      BY <1>1, <2>1
    <3>2. QED
      BY <2>5, <3>1, HostChars DEF Placed
  <2>6. QED
    BY <2>4, <2>5 DEF Hyphens
<1>4. QED
  BY <1>2, <1>3

\* Where a part of one string is a part of another, it is a name in both or neither,
\* and so for addresses.
LEMMA HostedElsewhere ==
    ASSUME NEW s, NEW r, NEW a \in Nat, NEW n \in Nat, NEW d \in Int,
           \A k \in a..n : r[k + d] = s[k], Len(r) \in Nat, n + d <= Len(r), Hosted(s, a, n)
    PROVE  Hosted(r, a + d, n + d)
<1>1. a <= n /\ s[n] \in AlNum /\ \A k \in a..n : Placed(s, a, k)
  BY DEF Hosted
<1>2. PICK t \in a..n : TopAt(s, a, t, n)
  BY DEF Hosted
<1>3. a + d <= n + d /\ r[n + d] \in AlNum
  <2>1. n \in a..n
    BY <1>1
  <2>2. QED
    BY <1>1, <2>1
<1>4. ASSUME NEW k \in (a + d)..(n + d) PROVE Placed(r, a + d, k)
  <2> DEFINE m == k - d
  <2>1. m \in a..n /\ m + d = k
    OBVIOUS
  <2> HIDE DEF m
  <2>2. Placed(s, a, m) /\ r[k] = s[m]
    BY <1>1, <2>1
  <2>3. CASE s[m] \in AlNum
    BY <2>2, <2>3 DEF Placed
  <2>4. CASE s[m] \notin AlNum
    <3>1. s[m] \in {"-", "."} /\ m > a /\ s[m - 1] \in AlNum /\ s[m + 1] \in AlNum
      BY <2>2, <2>4 DEF Placed
    <3>2. m # n
      BY <1>1, <2>4
    <3>3. /\ m - 1 \in a..n /\ m + 1 \in a..n /\ k > a + d
          /\ (m - 1) + d = k - 1 /\ (m + 1) + d = k + 1
      BY <2>1, <3>1, <3>2
    <3>4. r[k - 1] = s[m - 1] /\ r[k + 1] = s[m + 1]
      BY <3>3
    <3>5. QED
      BY <2>2, <3>1, <3>3, <3>4 DEF Placed
  <2>5. QED
    BY <2>3, <2>4
<1>5. TopAt(r, a + d, t + d, n + d)
  <2>1. (t = a \/ s[t - 1] = ".") /\ s[t] \in Alpha /\ \A k \in t..n : s[k] # "."
    BY <1>2 DEF TopAt
  <2>2. t + d = a + d \/ r[(t + d) - 1] = "."
    <3>1. CASE t = a
      BY <3>1
    <3>2. CASE t # a
      <4>1. t - 1 \in a..n /\ (t - 1) + d = (t + d) - 1
        BY <3>2
      <4>2. r[(t - 1) + d] = s[t - 1]
        BY <4>1
      <4>3. QED
        BY <2>1, <3>2, <4>1, <4>2
    <3>3. QED
      BY <3>1, <3>2
  <2>3. ASSUME NEW k \in (t + d)..(n + d) PROVE r[k] # "."
    <3>1. k - d \in t..n /\ k - d \in a..n /\ (k - d) + d = k
      OBVIOUS
    <3>2. r[(k - d) + d] = s[k - d]
      BY <3>1
    <3>3. QED
      BY <2>1, <3>1, <3>2
  <2>4. QED
    BY <2>1, <2>2, <2>3 DEF TopAt
<1>6. t + d \in (a + d)..(n + d)
  OBVIOUS
<1>7. QED
  BY <1>3, <1>4, <1>5, <1>6 DEF Hosted

LEMMA DotsElsewhere ==
    ASSUME NEW s, NEW r, NEW a \in Nat, NEW n \in Nat, NEW d \in Int,
           \A k \in a..n : r[k + d] = s[k], Len(r) \in Nat, n + d <= Len(r),
           NEW x \in Nat, NEW y \in Nat, NEW z \in Nat, DotsAt(s, a, x, y, z, n)
    PROVE  DotsAt(r, a + d, x + d, y + d, z + d, n + d)
<1>1. /\ a < x /\ x + 1 < y /\ y + 1 < z /\ z < n
      /\ \A k \in a..n : s[k] \in IF k \in {x, y, z} THEN {"."} ELSE Digit
  BY DEF DotsAt
<1>2. ASSUME NEW k \in (a + d)..(n + d)
      PROVE  r[k] \in IF k \in {x + d, y + d, z + d} THEN {"."} ELSE Digit
  <2> DEFINE m == k - d
  <2>1. m \in a..n /\ m + d = k /\ (k \in {x + d, y + d, z + d} <=> m \in {x, y, z})
    OBVIOUS
  <2> HIDE DEF m
  <2>2. r[k] = s[m]
    BY <2>1
  <2>3. s[m] \in IF m \in {x, y, z} THEN {"."} ELSE Digit
    BY <1>1, <2>1
  <2>4. QED
    BY <2>1, <2>2, <2>3
<1>3. a + d < x + d /\ (x + d) + 1 < y + d /\ (y + d) + 1 < z + d /\ z + d < n + d
  BY <1>1
<1>4. QED
  BY <1>2, <1>3 DEF DotsAt

LEMMA AddressByPlaces ==
    ASSUME NEW V, NEW s \in Seq(V)
    PROVE  IsAddress(s) <=> \E x, y, z \in Nat : DotsAt(s, 1, x, y, z, Len(s))
<1>1. DOMAIN s = 1..Len(s) /\ Len(s) \in Nat
  OBVIOUS
<1>2. ASSUME NEW x \in Nat, NEW y \in Nat, NEW z \in Nat, DotsAt(s, 1, x, y, z, Len(s))
      PROVE  IsAddress(s)
  <2>1. x \in DOMAIN s /\ y \in DOMAIN s /\ z \in DOMAIN s
    BY <1>1, <1>2 DEF DotsAt
  <2>2. /\ 1 < x /\ x + 1 < y /\ y + 1 < z /\ z < Len(s)
        /\ \A k \in DOMAIN s : s[k] \in IF k \in {x, y, z} THEN {"."} ELSE Digit
    BY <1>1, <1>2 DEF DotsAt
  <2>3. QED
    BY <2>1, <2>2, Zenon DEF IsAddress
<1>3. ASSUME IsAddress(s) PROVE \E x, y, z \in Nat : DotsAt(s, 1, x, y, z, Len(s))
  <2>1. PICK x, y, z \in DOMAIN s :
            /\ 1 < x /\ x + 1 < y /\ y + 1 < z /\ z < Len(s)
            /\ \A k \in DOMAIN s : s[k] \in IF k \in {x, y, z} THEN {"."} ELSE Digit
    BY <1>3, Zenon DEF IsAddress
  <2>2. DotsAt(s, 1, x, y, z, Len(s)) /\ x \in Nat /\ y \in Nat /\ z \in Nat
    BY <1>1, <2>1 DEF DotsAt
  <2>3. QED
    BY <2>2
<1>4. QED
  BY <1>2, <1>3

\* So the part of a string from a to n is a name or an address as its places say.
LEMMA CutByPlaces ==
    ASSUME NEW V, NEW s \in Seq(V), NEW a \in Nat \ {0}, NEW n \in Nat, a <= n + 1, n <= Len(s)
    PROVE  /\ IsHostname(SubSeq(s, a, n)) /\ ~Hyphens(SubSeq(s, a, n)) <=> Hosted(s, a, n)
           /\ IsAddress(SubSeq(s, a, n)) <=> \E x, y, z \in Nat : DotsAt(s, a, x, y, z, n)
<1> DEFINE c == SubSeq(s, a, n)
           m == n - a + 1
           d == a - 1
<1>1. /\ c \in Seq(V) /\ Len(c) = m /\ m \in Nat /\ Len(s) \in Nat /\ d \in Nat
      /\ m + d = n /\ 1 + d = a
      /\ \A k \in 1..m : s[k + d] = c[k]
      /\ \A k \in a..n : c[k + (-d)] = s[k]
  <2>1. a \in 1..(Len(s) + 1) /\ n \in (a - 1)..Len(s)
    OBVIOUS
  <2>2. /\ c \in Seq(V) /\ Len(c) = n - a + 1
        /\ \A k \in 1..(n - a + 1) : c[k] = s[a + k - 1]
        /\ \A k \in a..n : c[k - a + 1] = s[k]
    BY <2>1, CutIs
  <2>3. /\ \A k \in 1..(n - a + 1) : a + k - 1 = k + (a - 1)
        /\ \A k \in a..n : k - a + 1 = k + (-(a - 1))
    OBVIOUS
  <2> HIDE DEF c
  <2>4. /\ \A k \in 1..(n - a + 1) : s[k + (a - 1)] = c[k]
        /\ \A k \in a..n : c[k + (-(a - 1))] = s[k]
    BY <2>2, <2>3
  <2>5. QED
    BY <2>2, <2>4
<1> HIDE DEF c, m, d
<1>2. /\ 1 \in Nat /\ -d \in Int /\ d \in Int /\ a + (-d) = 1 /\ n + (-d) = m
      /\ m + d <= Len(s) /\ n + (-d) <= Len(c) /\ Len(c) \in Nat
  BY <1>1
<1>3. ASSUME Hosted(c, 1, m) PROVE Hosted(s, a, n)
  <2>1. Hosted(s, 1 + d, m + d)
    BY <1>1, <1>2, <1>3, HostedElsewhere
  <2>2. QED
    BY <1>1, <2>1
<1>4. ASSUME Hosted(s, a, n) PROVE Hosted(c, 1, m)
  <2>1. Hosted(c, a + (-d), n + (-d))
    BY <1>1, <1>2, <1>4, HostedElsewhere
  <2>2. QED
    BY <1>2, <2>1
<1>5. ASSUME NEW x \in Nat, NEW y \in Nat, NEW z \in Nat, DotsAt(c, 1, x, y, z, m)
      PROVE  \E u, v, w \in Nat : DotsAt(s, a, u, v, w, n)
  <2>1. DotsAt(s, 1 + d, x + d, y + d, z + d, m + d)
    BY <1>1, <1>2, <1>5, DotsElsewhere
  <2>2. x + d \in Nat /\ y + d \in Nat /\ z + d \in Nat
    BY <1>1
  <2>3. QED
    BY <1>1, <2>1, <2>2
<1>6. ASSUME NEW x \in Nat, NEW y \in Nat, NEW z \in Nat, DotsAt(s, a, x, y, z, n)
      PROVE  \E u, v, w \in Nat : DotsAt(c, 1, u, v, w, m)
  <2>1. DotsAt(c, a + (-d), x + (-d), y + (-d), z + (-d), n + (-d))
    BY <1>1, <1>2, <1>6, DotsElsewhere
  <2>2. a < x /\ x + 1 < y /\ y + 1 < z
    BY <1>6 DEF DotsAt
  <2>3. x + (-d) \in Nat /\ y + (-d) \in Nat /\ z + (-d) \in Nat
    BY <1>1, <2>2
  <2>4. QED
    BY <1>2, <2>1, <2>3
<1>7. IsHostname(c) /\ ~Hyphens(c) <=> Hosted(s, a, n)
  BY <1>1, <1>3, <1>4, NameByPlaces
<1>8. IsAddress(c) <=> \E x, y, z \in Nat : DotsAt(s, a, x, y, z, n)
  <2>1. IsAddress(c) <=> \E x, y, z \in Nat : DotsAt(c, 1, x, y, z, m)
    BY <1>1, AddressByPlaces
  <2>2. QED
    BY <1>5, <1>6, <2>1
<1>9. QED
  BY <1>7, <1>8 DEF c

-----------------------------------------------------------------------------
(* The Host header. *)

\* parse_host_header returns once.
HostInv ==
    Returned("parse_host_header") =>
        result = IF Host(input, 1) = NoMatch THEN <<>> ELSE SubSeq(input, 1, Host(input, 1) - 1)

LEMMA HostReturned == TextSpec => []HostInv
<1>1. TextInit => HostInv
  BY DEF TextInit, HostInv, Returned
<1>2. HostInv /\ [TextNext]_textVars => HostInv'
  <2>1. ASSUME TextNext, routine' = "parse_host_header"
        PROVE  /\ result' = IF Host(input, 1) = NoMatch THEN <<>>
                            ELSE SubSeq(input, 1, Host(input, 1) - 1)
               /\ input' = input
    BY <2>1, ParserActs DEF parse_host_header, Returns, input
  <2>2. ASSUME HostInv, UNCHANGED textVars PROVE HostInv'
    BY <2>2 DEF HostInv, textVars, vars, Returned, input
  <2>3. QED
    BY <2>1, <2>2 DEF HostInv, Returned
<1>3. QED
  BY <1>1, <1>2, PTL DEF TextSpec

\* What Host takes is a host, by its places.
LEMMA HostIs ==
    ASSUME NEW V, NEW s \in Seq(V), NEW a \in 1..(Len(s) + 1), Host(s, a) # NoMatch
    PROVE  /\ Host(s, a) \in (a + 1)..(Len(s) + 1)
           /\ \/ Host(s, a) = hostname(s, a) /\ Hosted(s, a, Host(s, a) - 1)
              \/ /\ hostname(s, a) = NoMatch
                 /\ \E x, y, z \in Nat : DotsAt(s, a, x, y, z, Host(s, a) - 1)
<1>1. CASE hostname(s, a) # NoMatch
  BY <1>1, NameIs DEF Host
<1>2. CASE hostname(s, a) = NoMatch
  <2>1. Host(s, a) = IPv4address(s, a) /\ a \in Nat
    BY <1>2 DEF Host
  <2>2. QED
    BY <1>2, <2>1, AddressIs
<1>3. QED
  BY <1>1, <1>2

\* A host is taken as a whole, up to a place where nothing of a host follows.
LEMMA HostTaken ==
    ASSUME NEW V, NEW s \in Seq(V), NEW a \in Nat \ {0}, NEW n \in Nat, Ended(s, n),
           Hosted(s, a, n) \/ \E x, y, z \in Nat : DotsAt(s, a, x, y, z, n)
    PROVE  Host(s, a) = n + 1
<1>1. CASE Hosted(s, a, n)
  <2>1. hostname(s, a) = n + 1 /\ n + 1 # NoMatch
    BY <1>1, NameTaken DEF NoMatch
  <2>2. QED
    BY <2>1 DEF Host
<1>2. CASE \E x, y, z \in Nat : DotsAt(s, a, x, y, z, n)
  <2>1. IPv4address(s, a) = n + 1 /\ hostname(s, a) = NoMatch
    BY <1>2, AddressTaken
  <2>2. QED
    BY <2>1 DEF Host
<1>3. QED
  BY <1>1, <1>2

\* parse_host_header takes a host and all of it, for input of any length:
\* HostsRecognised.
THEOREM HostCorrect == TextSpec => []HostsRecognised
<1> DEFINE ends == {k \in 1..(Len(input) + 1) : k = Len(input) + 1 \/ input[k] = ":"}
           m == Min(ends)
           name == SubSeq(input, 1, m - 1)
           Right == /\ result # <<>> => IsHost(result)
                    /\ IsHost(name) /\ ~Hyphens(name) => result = name
                    /\ name # <<>> /\ Last(name) = "." /\ IsHostname(Front(name)) /\ ~Hyphens(name)
                           => result = <<>> \/ IsAddress(result)
<1>1. ASSUME InputKept, HostInv, Returned("parse_host_header") PROVE Right
  <2>1. input \in Seq(Chars) /\ Len(input) \in Nat
    BY <1>1, InputIsText
  <2> DEFINE s == input
             e == Host(s, 1)
  <2>2. result = IF e = NoMatch THEN <<>> ELSE SubSeq(s, 1, e - 1)
    BY <1>1 DEF HostInv
  <2>3. m \in 1..(Len(s) + 1) /\ (m = Len(s) + 1 \/ s[m] = ":")
    <3>1. ends \in SUBSET Nat /\ Len(s) + 1 \in ends
      BY <2>1
    <3>2. m \in ends
      <4> HIDE DEF ends
      <4>1. QED
        BY <3>1, MinExists
    <3>3. QED
      BY <3>2
  <2> HIDE DEF ends, m
  <2>4. 1 \in 1..(Len(s) + 1) /\ s \in Seq(Chars) /\ Len(s) \in Nat
    BY <2>1
  <2> HIDE DEF s
  <2>5. ASSUME e # NoMatch
        PROVE  /\ e \in 2..(Len(s) + 1)
               /\ \/ Hosted(s, 1, e - 1) /\ IsHostname(SubSeq(s, 1, e - 1))
                  \/ IsAddress(SubSeq(s, 1, e - 1)) /\ hostname(s, 1) = NoMatch
    <3>1. /\ e \in 2..(Len(s) + 1)
          /\ \/ e = hostname(s, 1) /\ Hosted(s, 1, e - 1)
             \/ /\ hostname(s, 1) = NoMatch
                /\ \E x, y, z \in Nat : DotsAt(s, 1, x, y, z, e - 1)
      BY <2>4, <2>5, HostIs
    <3> HIDE DEF e
    <3>2. 1 \in Nat \ {0} /\ e - 1 \in Nat /\ 1 <= (e - 1) + 1 /\ e - 1 <= Len(s)
      BY <2>4, <3>1
    <3>3. /\ IsHostname(SubSeq(s, 1, e - 1)) /\ ~Hyphens(SubSeq(s, 1, e - 1)) <=> Hosted(s, 1, e - 1)
          /\ IsAddress(SubSeq(s, 1, e - 1)) <=> \E x, y, z \in Nat : DotsAt(s, 1, x, y, z, e - 1)
      BY <2>4, <3>2, CutByPlaces
    <3>4. QED
      BY <3>1, <3>3
  <2>6. ASSUME result # <<>> PROVE IsHost(result)
    BY <2>2, <2>5, <2>6 DEF IsHost
  <2> DEFINE n == m - 1
  <2>7. n \in Nat /\ n + 1 = m /\ n <= Len(s) /\ 1 <= n + 1 /\ 1 \in Nat \ {0} /\ Ended(s, n)
    <3>1. n \in Nat /\ n + 1 = m /\ n <= Len(s) /\ 1 <= n + 1
      BY <2>3, <2>4 DEF s
    <3>2. m > Len(s) \/ s[m] = ":"
      BY <2>3, <2>4 DEF s
    <3>3. ":" \notin AlNum \cup {"-", "."}
      <4>1. ":" \notin AlNum
        BY HostChars
      <4>2. QED
        BY <4>1
    <3>4. n + 1 > Len(s) \/ s[n + 1] \notin AlNum \cup {"-", "."}
      BY <3>1, <3>2, <3>3
    <3>5. Ended(s, n)
      BY <2>4, <3>1, <3>4, EndedIs
    <3>6. QED
      BY <3>1, <3>5
  <2>8. name = SubSeq(s, 1, n)
    BY DEF s
  <2> HIDE DEF n, name, e
  <2>9. /\ IsHostname(name) /\ ~Hyphens(name) <=> Hosted(s, 1, n)
        /\ IsAddress(name) <=> \E x, y, z \in Nat : DotsAt(s, 1, x, y, z, n)
    BY <2>4, <2>7, <2>8, CutByPlaces
  <2>10. ASSUME IsHost(name), ~Hyphens(name) PROVE result = name
    <3>1. Hosted(s, 1, n) \/ \E x, y, z \in Nat : DotsAt(s, 1, x, y, z, n)
      BY <2>9, <2>10 DEF IsHost
    <3>2. e = n + 1
      BY <2>4, <2>7, <3>1, HostTaken DEF e
    <3>3. e # NoMatch /\ e - 1 = n
      BY <2>7, <3>2 DEF NoMatch
    <3>4. QED
      BY <2>2, <2>8, <3>3 DEF s
  <2>11. ASSUME name # <<>>, Last(name) = ".", IsHostname(Front(name)), ~Hyphens(name)
         PROVE  result = <<>> \/ IsAddress(result)
    <3>1. /\ name \in Seq(Chars) /\ Len(name) = n /\ \A k \in 1..n : name[k] = s[k]
      <4>1. /\ name \in Seq(Chars) /\ Len(name) = n - 1 + 1
            /\ \A k \in 1..n : name[k - 1 + 1] = s[k]
        <5>1. n \in (1 - 1)..Len(s)
          BY <2>7, <2>4
        <5>2. QED
          BY <2>4, <2>8, <5>1, CutIs
      <4>2. n - 1 + 1 = n /\ \A k \in 1..n : k - 1 + 1 = k
        BY <2>7
      <4>3. QED
        BY <4>1, <4>2
    <3>2. n >= 1
      <4>1. Len(name) # 0
        BY <2>11, <3>1
      <4>2. QED
        BY <2>7, <3>1, <4>1
    <3>3. s[n] = "." /\ n \in 1..Len(s)
      <4>1. Last(name) = name[n] /\ n \in 1..n
        BY <2>7, <3>1, <3>2 DEF Last
      <4>2. QED
        BY <2>4, <2>7, <2>11, <3>1, <3>2, <4>1
    <3> DEFINE p == n - 1
    <3>4. p \in Nat /\ p <= Len(name) /\ p <= Len(s) /\ p + 1 = n /\ 1 <= p + 1
      BY <2>4, <2>7, <3>1, <3>2
    <3> HIDE DEF p
    <3>5. Front(name) = SubSeq(name, 1, p)
      BY <3>1, <3>2 DEF Front, p
    <3>6. ~ Hyphens(Front(name))
      <4>1. /\ Front(name) \in Seq(Chars) /\ Len(Front(name)) = p - 1 + 1
            /\ \A k \in 1..p : Front(name)[k - 1 + 1] = name[k]
        <5>1. 1 \in 1..(Len(name) + 1) /\ p \in (1 - 1)..Len(name)
          BY <3>1, <3>4, <2>7
        <5>2. QED
          BY <3>1, <3>5, <5>1, CutIs
      <4>2. Len(Front(name)) = p /\ \A k \in 1..p : Front(name)[k] = name[k]
        <5>1. p - 1 + 1 = p /\ \A k \in 1..p : k - 1 + 1 = k
          BY <3>4
        <5>2. QED
          BY <4>1, <5>1
      <4>3. ASSUME NEW k \in 1..(p - 1), Front(name)[k] = "-", Front(name)[k + 1] = "-" PROVE FALSE
        <5>1. k \in 1..p /\ k + 1 \in 1..p /\ k \in 1..(n - 1)
          BY <3>4
        <5>2. name[k] = "-" /\ name[k + 1] = "-"
          BY <4>2, <4>3, <5>1
        <5>3. QED
          BY <2>11, <3>1, <5>1, <5>2 DEF Hyphens
      <4>4. QED
        BY <4>2, <4>3 DEF Hyphens
    <3>7. Hosted(name, 1, p)
      BY <2>7, <2>11, <3>1, <3>4, <3>5, <3>6, CutByPlaces
    <3>8. Hosted(s, 1, p)
      <4>1. \A k \in 1..p : s[k + 0] = name[k]
        BY <3>1, <3>4
      <4>2. Hosted(s, 1 + 0, p + 0)
        <5>1. 1 \in Nat /\ 0 \in Int /\ p + 0 <= Len(s)
          BY <3>4
        <5>2. QED
          BY <2>4, <3>4, <3>7, <4>1, <5>1, HostedElsewhere
      <4>3. 1 + 0 = 1 /\ p + 0 = p
        BY <3>4
      <4>4. QED
        BY <4>2, <4>3
    <3>9. hostname(s, 1) = NoMatch
      <4>1. p + 1 <= Len(s) /\ s[p + 1] = "." /\ Ended(s, p + 1)
        BY <2>7, <3>3, <3>4
      <4>2. QED
        BY <2>4, <2>7, <3>4, <3>8, <4>1, DottedRefused
    <3>10. CASE e = NoMatch
      BY <2>2, <3>10 DEF s
    <3>11. CASE e # NoMatch
      <4>1. e = IPv4address(s, 1) /\ e # NoMatch
        BY <3>9, <3>11 DEF Host, e
      <4>2. e \in 2..(Len(s) + 1) /\ \E x, y, z \in Nat : DotsAt(s, 1, x, y, z, e - 1)
        <5>1. e \in (1 + 1)..(Len(s) + 1) /\ \E x, y, z \in Nat : DotsAt(s, 1, x, y, z, e - 1)
          BY <2>4, <4>1, AddressIs
        <5>2. QED
          BY <5>1
      <4>3. e - 1 \in Nat /\ 1 <= (e - 1) + 1 /\ e - 1 <= Len(s)
        BY <2>4, <4>2
      <4>4. IsAddress(SubSeq(s, 1, e - 1))
        BY <2>4, <2>7, <4>2, <4>3, CutByPlaces
      <4>5. QED
        BY <2>2, <3>11, <4>4 DEF s
    <3>12. QED
      BY <3>10, <3>11
  <2>12. QED
    BY <2>6, <2>10, <2>11
<1>2. InputKept /\ HostInv => HostsRecognised
  <2>1. HostsRecognised <=> (Returned("parse_host_header") => Right)
    BY DEF HostsRecognised
  <2>2. QED
    BY <1>1, <2>1
<1>3. QED
  BY <1>2, InputStays, HostReturned, PTL

-----------------------------------------------------------------------------
(* Request URIs, as the property has them and by their places. *)

LEMMA UriChars ==
    /\ \A c \in AlNum : c \in PathChars /\ c \in QueryChars
    /\ \A c \in PathChars : c # "SP" /\ c # "?" /\ c \in QueryChars
    /\ \A c \in QueryChars : c # "SP"
    /\ "/" \in PathChars /\ "?" \in QueryChars
    /\ "SP" \notin AlNum /\ "/" \notin AlNum
<1>1. \A c \in PathChars : c \in AlNum \/ c \in {"-", ".", ":", "/", ";", "escape"}
  BY Zenon DEF PathChars
<1>2. \A c \in {"-", ".", ":", "/", ";", "escape"} : c # "SP" /\ c # "?"
  BY Zenon
<1>3. \A c \in PathChars : c # "SP" /\ c # "?"
  BY <1>1, <1>2, HostChars
<1>4. \A c \in QueryChars : c \in PathChars \/ c = "?"
  BY Zenon DEF QueryChars
<1>5. "?" # "SP"
  BY Zenon
<1>6. "/" \in PathChars /\ "?" \in QueryChars
  BY Zenon DEF PathChars, QueryChars
<1>7. \A c \in PathChars : c \in QueryChars
  BY Zenon DEF QueryChars
<1>8. \A c \in AlNum : c \in PathChars
  BY Zenon DEF PathChars
<1>9. "SP" \notin AlNum /\ "/" \notin AlNum
  BY HostChars
<1>10. QED
  BY <1>3, <1>4, <1>5, <1>6, <1>7, <1>8, <1>9

LEMMA CharsOfCut ==
    ASSUME NEW V, NEW s \in Seq(V), NEW a \in 1..(Len(s) + 1), NEW b \in (a - 1)..Len(s), NEW C
    PROVE  ToSet(SubSeq(s, a, b)) \subseteq C <=> \A k \in a..b : s[k] \in C
<1> DEFINE c == SubSeq(s, a, b)
<1>1. /\ DOMAIN c = 1..(b - a + 1)
      /\ \A k \in 1..(b - a + 1) : c[k] = s[a + k - 1] /\ a + k - 1 \in a..b
      /\ \A k \in a..b : c[k - a + 1] = s[k] /\ k - a + 1 \in 1..(b - a + 1)
  BY CutIs
<1> HIDE DEF c
<1>2. ToSet(c) \subseteq C <=> \A k \in DOMAIN c : c[k] \in C
  BY DEF ToSet
<1>3. ASSUME \A k \in DOMAIN c : c[k] \in C, NEW k \in a..b PROVE s[k] \in C
  <2>1. k - a + 1 \in DOMAIN c /\ c[k - a + 1] = s[k]
    BY <1>1
  <2>2. QED
    BY <1>3, <2>1
<1>4. ASSUME \A k \in a..b : s[k] \in C, NEW k \in DOMAIN c PROVE c[k] \in C
  <2>1. c[k] = s[a + k - 1] /\ a + k - 1 \in a..b
    BY <1>1
  <2>2. QED
    BY <1>4, <2>1
<1>5. QED
  BY <1>2, <1>3, <1>4 DEF c

\* The places 2 to h of u are a host, the port ends at p, the path at q, and the
\* query with the string.
HostRead(u, h) ==
    Hosted(u, 2, h) \/ \E x, y, z \in Nat : DotsAt(u, 2, x, y, z, h)

Reads(u, h, p, q) ==
    /\ h <= p /\ p <= q /\ q <= Len(u)
    /\ \/ h = 0 /\ p = 0
       \/ /\ h > 0 /\ u[1] = "http://" /\ HostRead(u, h)
          /\ \/ p = h
             \/ p > h + 1 /\ u[h + 1] = ":" /\ \A k \in (h + 2)..p : u[k] \in Digit
    /\ \/ q > p /\ u[p + 1] = "/" /\ \A k \in (p + 1)..q : u[k] \in PathChars
       \/ q = p /\ h > 0 /\ q = Len(u)
    /\ q = Len(u) \/ (u[q + 1] = "?" /\ \A k \in (q + 2)..Len(u) : u[k] \in QueryChars)

Reading(u, h, p, q) ==
    [host |-> SubSeq(u, 2, h), port |-> SubSeq(u, h + 2, p), path |-> SubSeq(u, p + 1, q)]

\* Addresses have no hyphens, and so a host is one by its places.
LEMMA HostByPlaces ==
    ASSUME NEW V, NEW u \in Seq(V), NEW h \in Nat, h > 0, h <= Len(u)
    PROVE  IsHost(SubSeq(u, 2, h)) /\ ~Hyphens(SubSeq(u, 2, h)) <=> HostRead(u, h)
<1> DEFINE c == SubSeq(u, 2, h)
<1>1. /\ IsHostname(c) /\ ~Hyphens(c) <=> Hosted(u, 2, h)
      /\ IsAddress(c) <=> \E x, y, z \in Nat : DotsAt(u, 2, x, y, z, h)
  <2>1. 2 \in Nat \ {0} /\ 2 <= h + 1
    OBVIOUS
  <2>2. QED
    BY <2>1, CutByPlaces
<1>2. c \in Seq(V)
  <2>1. 2 \in 1..(Len(u) + 1) /\ h \in (2 - 1)..Len(u)
    OBVIOUS
  <2>2. QED
    BY <2>1, CutIs
<1> HIDE DEF c
<1>3. ASSUME IsAddress(c) PROVE ~Hyphens(c)
  <2>1. PICK x, y, z \in Nat : DotsAt(c, 1, x, y, z, Len(c))
    BY <1>2, <1>3, AddressByPlaces
  <2>2. \A k \in 1..Len(c) : c[k] \in {"."} \/ c[k] \in Digit
    BY <2>1 DEF DotsAt
  <2>3. \A k \in 1..Len(c) : c[k] # "-"
    BY <2>2, HostChars
  <2>4. \A k \in 1..(Len(c) - 1) : k \in 1..Len(c)
    BY <1>2
  <2>5. QED
    BY <2>3, <2>4 DEF Hyphens
<1>4. QED
  BY <1>1, <1>3 DEF IsHost, HostRead, c

LEMMA ReadingsAre ==
    ASSUME NEW V, NEW u \in Seq(V)
    PROVE  \A r : r \in Readings(u) <=>
                      \E h, p, q \in Nat : Reads(u, h, p, q) /\ r = Reading(u, h, p, q)
<1> DEFINE Cut(a, b) == SubSeq(u, a + 1, b)
           Good(h, p, q, e) ==
               /\ \/ h = 0 /\ p = 0
                  \/ /\ u # <<>> /\ u[1] = "http://" /\ IsHost(Cut(1, h)) /\ ~Hyphens(Cut(1, h))
                     /\ \/ p = h
                        \/ p > h + 1 /\ u[h + 1] = ":" /\ ToSet(Cut(h + 1, p)) \subseteq Digit
               /\ \/ q > p /\ u[p + 1] = "/" /\ ToSet(Cut(p, q)) \subseteq PathChars
                  \/ q = p /\ h > 0 /\ e = q
               /\ e = q \/ (u[q + 1] = "?" /\ ToSet(Cut(q + 1, e)) \subseteq QueryChars)
           Part(t) == [host |-> Cut(1, t[1]), port |-> Cut(t[1] + 1, t[2]), path |-> Cut(t[2], t[3])]
           T == {t \in (0..Len(u)) \X (0..Len(u)) \X (0..Len(u)) :
                     t[1] <= t[2] /\ t[2] <= t[3] /\ Good(t[1], t[2], t[3], Len(u))}
<1>1. Readings(u) = {Part(t) : t \in T}
  BY DEF Readings
<1>2. ASSUME NEW h \in 0..Len(u), NEW p \in 0..Len(u), NEW q \in 0..Len(u), h <= p, p <= q
      PROVE  /\ Good(h, p, q, Len(u)) <=> Reads(u, h, p, q)
             /\ Part(<<h, p, q>>) = Reading(u, h, p, q)
  <2>1. Len(u) \in Nat /\ h + 1 + 1 = h + 2 /\ 1 + 1 = 2 /\ q + 1 + 1 = q + 2
    BY <1>2
  <2>2. Cut(1, h) = SubSeq(u, 2, h) /\ Cut(h + 1, p) = SubSeq(u, h + 2, p)
        /\ Cut(q + 1, Len(u)) = SubSeq(u, q + 2, Len(u)) /\ Cut(p, q) = SubSeq(u, p + 1, q)
    BY <2>1
  <2>3. Part(<<h, p, q>>) = Reading(u, h, p, q)
    BY <2>2 DEF Reading
  <2>4. ~ IsHost(SubSeq(u, 2, 0))
    <3>1. SubSeq(u, 2, 0) = <<>>
      BY SubSeqEmpty
    <3>2. ~ IsHostname(<<>>)
      BY DEF IsHostname
    <3>3. ~ IsAddress(<<>>)
      <4>1. DOMAIN <<>> = {}
        OBVIOUS
      <4>2. QED
        BY <4>1, Zenon DEF IsAddress
    <3>4. QED
      BY <3>1, <3>2, <3>3 DEF IsHost
  <2>5. h > 0 => (IsHost(Cut(1, h)) /\ ~Hyphens(Cut(1, h)) <=> HostRead(u, h)) /\ u # <<>>
    <3>1. h > 0 => h \in Nat /\ h <= Len(u) /\ u # <<>>
      BY <1>2
    <3> HIDE DEF Cut
    <3>2. QED
      BY <2>2, <3>1, HostByPlaces
  <2>6. h = 0 => ~ IsHost(Cut(1, h))
    BY <2>2, <2>4
  <2>7. p > h + 1 => (ToSet(Cut(h + 1, p)) \subseteq Digit <=> \A k \in (h + 2)..p : u[k] \in Digit)
    <3>1. p > h + 1 => h + 2 \in 1..(Len(u) + 1) /\ p \in ((h + 2) - 1)..Len(u)
      BY <1>2, <2>1
    <3> HIDE DEF Cut
    <3>2. QED
      BY <2>2, <3>1, CharsOfCut
  <2>8. ToSet(Cut(p, q)) \subseteq PathChars <=> \A k \in (p + 1)..q : u[k] \in PathChars
    <3>1. p + 1 \in 1..(Len(u) + 1) /\ q \in ((p + 1) - 1)..Len(u)
      BY <1>2, <2>1
    <3> HIDE DEF Cut
    <3>2. QED
      BY <2>2, <3>1, CharsOfCut
  <2>9. Len(u) # q => (ToSet(Cut(q + 1, Len(u))) \subseteq QueryChars <=>
                          \A k \in (q + 2)..Len(u) : u[k] \in QueryChars)
    <3>1. Len(u) # q => q + 2 \in 1..(Len(u) + 1) /\ Len(u) \in ((q + 2) - 1)..Len(u)
      BY <1>2, <2>1
    <3> HIDE DEF Cut
    <3>2. QED
      BY <2>2, <3>1, CharsOfCut
  <2> HIDE DEF Cut
  <2>10. h <= p /\ p <= q /\ q <= Len(u) /\ (h > 0 \/ h = 0)
    BY <1>2
  <2>11. Good(h, p, q, Len(u)) <=> Reads(u, h, p, q)
    BY <2>5, <2>6, <2>7, <2>8, <2>9, <2>10 DEF Reads
  <2>12. QED
    BY <2>3, <2>11
<1>3. ASSUME NEW r, r \in Readings(u)
      PROVE  \E h, p, q \in Nat : Reads(u, h, p, q) /\ r = Reading(u, h, p, q)
  <2>1. PICK t \in T : r = Part(t)
    BY <1>1, <1>3
  <2>2. /\ t[1] \in 0..Len(u) /\ t[2] \in 0..Len(u) /\ t[3] \in 0..Len(u)
        /\ t[1] <= t[2] /\ t[2] <= t[3] /\ Good(t[1], t[2], t[3], Len(u))
        /\ t = <<t[1], t[2], t[3]>>
    <3> HIDE DEF Good
    <3>1. QED
      OBVIOUS
  <2> HIDE DEF Good, Part, T
  <2>3. Reads(u, t[1], t[2], t[3]) /\ r = Reading(u, t[1], t[2], t[3])
    BY <1>2, <2>1, <2>2
  <2>4. t[1] \in Nat /\ t[2] \in Nat /\ t[3] \in Nat
    BY <2>2
  <2>5. QED
    BY <2>3, <2>4
<1>4. ASSUME NEW r, NEW h \in Nat, NEW p \in Nat, NEW q \in Nat, Reads(u, h, p, q),
             r = Reading(u, h, p, q)
      PROVE  r \in Readings(u)
  <2>1. h \in 0..Len(u) /\ p \in 0..Len(u) /\ q \in 0..Len(u) /\ h <= p /\ p <= q
    BY <1>4 DEF Reads
  <2>2. Good(h, p, q, Len(u)) /\ Part(<<h, p, q>>) = r
    <3> HIDE DEF Good, Part
    <3>1. QED
      BY <1>2, <1>4, <2>1
  <2>3. <<h, p, q>> \in T
    <3> HIDE DEF Good
    <3>1. QED
      BY <2>1, <2>2
  <2> HIDE DEF Good, Part, T
  <2>4. QED
    BY <1>1, <2>2, <2>3
<1>5. QED
  BY <1>3, <1>4

-----------------------------------------------------------------------------
(* The request line s of the URI u. *)

IsLine(s, u) ==
    /\ Len(s) = Len(u) + 6
    /\ \A k \in 1..Len(u) : s[k + 2] = u[k]
    /\ \A k \in 3..(Len(u) + 2) : s[k] # "SP" /\ u[k - 2] = s[k]
    /\ s[Len(u) + 3] = "SP" /\ s[Len(u) + 4] = "HTTP/1.1"
    /\ s[Len(u) + 5] = "CR" /\ s[Len(u) + 6] = "LF"

LEMMA LineIs ==
    ASSUME NEW V, NEW u \in Seq(V), "SP" \notin ToSet(u)
    PROVE  /\ \E W : request_line(u) \in Seq(W)
           /\ IsLine(request_line(u), u)
<1> DEFINE W == V \cup {"GET", "SP", "HTTP/1.1", "CR", "LF"}
           s == request_line(u)
           front == <<"GET", "SP">>
           back == <<"SP", "HTTP/1.1", "CR", "LF">>
<1>1. /\ u \in Seq(W) /\ front \in Seq(W) /\ back \in Seq(W) /\ Len(front) = 2 /\ Len(back) = 4
      /\ Len(u) \in Nat
  BY SeqMonotonic
<1>2. back[1] = "SP" /\ back[2] = "HTTP/1.1" /\ back[3] = "CR" /\ back[4] = "LF"
  OBVIOUS
<1>3. s = (front \o u) \o back
  BY DEF request_line
<1> HIDE DEF W, s, front, back
<1>4. /\ front \o u \in Seq(W) /\ Len(front \o u) = Len(u) + 2
      /\ \A k \in 1..(Len(u) + 2) : (front \o u)[k] = IF k <= 2 THEN front[k] ELSE u[k - 2]
  <2>1. /\ front \o u \in Seq(W) /\ Len(front \o u) = Len(front) + Len(u)
        /\ \A k \in 1..(Len(front) + Len(u)) :
               (front \o u)[k] = IF k <= Len(front) THEN front[k] ELSE u[k - Len(front)]
    BY <1>1, ConcatProperties
  <2>2. Len(front) = 2 /\ 2 + Len(u) = Len(u) + 2
    BY <1>1
  <2>3. QED
    BY <2>1, <2>2
<1>5. /\ s \in Seq(W) /\ Len(s) = Len(u) + 6
      /\ \A k \in 1..(Len(u) + 6) :
             s[k] = IF k <= Len(u) + 2 THEN (front \o u)[k] ELSE back[k - (Len(u) + 2)]
  <2> DEFINE t == front \o u
  <2>1. t \in Seq(W) /\ Len(t) = Len(u) + 2 /\ s = t \o back
    BY <1>3, <1>4
  <2> HIDE DEF t
  <2>2. /\ s \in Seq(W) /\ Len(s) = Len(t) + Len(back)
        /\ \A k \in 1..(Len(t) + Len(back)) :
               s[k] = IF k <= Len(t) THEN t[k] ELSE back[k - Len(t)]
    BY <1>1, <2>1, ConcatProperties
  <2>3. Len(t) + Len(back) = Len(u) + 6
    BY <1>1, <2>1
  <2>4. \A k \in 1..(Len(u) + 6) : s[k] = IF k <= Len(u) + 2 THEN t[k] ELSE back[k - (Len(u) + 2)]
    BY <2>1, <2>2, <2>3
  <2>5. QED
    BY <2>2, <2>3, <2>4 DEF t
<1>6. \A k \in 1..Len(u) : u[k] # "SP"
  BY DEF ToSet
<1>7. ASSUME NEW k \in 1..Len(u) PROVE s[k + 2] = u[k]
  <2>1. k + 2 \in 1..(Len(u) + 2) /\ k + 2 \in 1..(Len(u) + 6) /\ ~ k + 2 <= 2 /\ (k + 2) - 2 = k
    BY <1>1
  <2>2. QED
    BY <1>4, <1>5, <2>1
<1>8. ASSUME NEW k \in 3..(Len(u) + 2) PROVE s[k] # "SP" /\ u[k - 2] = s[k]
  <2>1. k - 2 \in 1..Len(u) /\ (k - 2) + 2 = k
    BY <1>1
  <2>2. QED
    BY <1>6, <1>7, <2>1
<1>9. ASSUME NEW k \in 1..4 PROVE s[Len(u) + 2 + k] = back[k]
  <2>1. /\ Len(u) + 2 + k \in 1..(Len(u) + 6) /\ ~ Len(u) + 2 + k <= Len(u) + 2
        /\ (Len(u) + 2 + k) - (Len(u) + 2) = k
    BY <1>1
  <2>2. QED
    BY <1>5, <2>1
<1>10. /\ Len(u) + 2 + 1 = Len(u) + 3 /\ Len(u) + 2 + 2 = Len(u) + 4
       /\ Len(u) + 2 + 3 = Len(u) + 5 /\ Len(u) + 2 + 4 = Len(u) + 6
  BY <1>1
<1>11. /\ s[Len(u) + 3] = "SP" /\ s[Len(u) + 4] = "HTTP/1.1"
       /\ s[Len(u) + 5] = "CR" /\ s[Len(u) + 6] = "LF"
  <2>1. 1 \in 1..4 /\ 2 \in 1..4 /\ 3 \in 1..4 /\ 4 \in 1..4
    OBVIOUS
  <2>2. QED
    BY <1>2, <1>9, <1>10, <2>1
<1>12. QED
  BY <1>5, <1>7, <1>8, <1>11 DEF IsLine, s

\* The line is accepted if and only if the URI ends where it should.
LEMMA LineAccepted ==
    ASSUME NEW W, NEW s \in Seq(W), NEW V, NEW u \in Seq(V), IsLine(s, u), NEW p \in Nat,
           p = NoMatch \/ p >= 3
    PROVE  CRLF(s, one(s, one(s, p, {"SP"}), {"HTTP/1.1"})) # NoMatch <=> p = Len(u) + 3
<1> DEFINE x == one(s, p, {"SP"})
           y == one(s, x, {"HTTP/1.1"})
<1>1. x = IF p \in 1..Len(s) /\ s[p] = "SP" THEN p + 1 ELSE NoMatch
  BY OneIs
<1>2. x \in Nat
  BY <1>1 DEF NoMatch
<1> HIDE DEF x
<1>3. y = IF x \in 1..Len(s) /\ s[x] = "HTTP/1.1" THEN x + 1 ELSE NoMatch
  BY <1>2, OneIs
<1>4. y \in Nat
  BY <1>2, <1>3 DEF NoMatch
<1> HIDE DEF y
<1>5. CRLF(s, y) = IF y \in 1..(Len(s) - 1) /\ s[y] = "CR" /\ s[y + 1] = "LF" THEN y + 2 ELSE NoMatch
  BY <1>4, CRLFIs
<1>6. /\ Len(s) = Len(u) + 6 /\ Len(u) \in Nat
      /\ \A k \in 3..(Len(u) + 2) : s[k] # "SP"
      /\ s[Len(u) + 3] = "SP" /\ s[Len(u) + 4] = "HTTP/1.1"
      /\ s[Len(u) + 5] = "CR" /\ s[Len(u) + 6] = "LF"
  BY DEF IsLine
<1>7. ASSUME p = Len(u) + 3 PROVE CRLF(s, y) # NoMatch
  <2>1. x = Len(u) + 4
    BY <1>1, <1>6, <1>7
  <2>2. y = Len(u) + 5
    BY <1>3, <1>6, <2>1
  <2>3. y + 1 = Len(u) + 6 /\ y \in 1..(Len(s) - 1)
    BY <1>6, <2>2
  <2>4. QED
    BY <1>5, <1>6, <2>2, <2>3 DEF NoMatch
<1>8. ASSUME CRLF(s, y) # NoMatch PROVE p = Len(u) + 3
  <2>1. y \in 1..(Len(s) - 1)
    BY <1>5, <1>8
  <2>2. x \in 1..Len(s) /\ s[x] = "HTTP/1.1" /\ y = x + 1
    BY <1>3, <2>1 DEF NoMatch
  <2>3. p \in 1..Len(s) /\ s[p] = "SP" /\ x = p + 1
    BY <1>1, <2>2 DEF NoMatch
  <2>4. p >= 3 /\ p <= Len(u) + 4
    BY <1>6, <2>1, <2>2, <2>3 DEF NoMatch
  <2>5. ~ p <= Len(u) + 2
    BY <1>6, <2>3, <2>4
  <2>6. p # Len(u) + 4
    BY <1>6, <2>3
  <2>7. QED
    BY <1>6, <2>4, <2>5, <2>6
<1>9. QED
  BY <1>7, <1>8 DEF x, y

LEMMA ManyTaken ==
    ASSUME NEW V, NEW s \in Seq(V), NEW j \in 1..(Len(s) + 1), NEW C, NEW m \in j..(Len(s) + 1),
           \A k \in j..(m - 1) : s[k] \in C, ~ at(s, m, C)
    PROVE  many(s, j, C) = m
<1> DEFINE d == many(s, j, C)
<1>1. d \in j..(Len(s) + 1) /\ (\A k \in j..(d - 1) : s[k] \in C) /\ ~ at(s, d, C)
  BY ManyIs
<1> HIDE DEF d
<1>2. ~ d < m
  <2> SUFFICES ASSUME d < m PROVE FALSE
    OBVIOUS
  <2>1. d \in j..(m - 1) /\ d \in 1..Len(s)
    BY <1>1
  <2>2. QED
    BY <1>1, <2>1 DEF at
<1>3. ~ m < d
  <2> SUFFICES ASSUME m < d PROVE FALSE
    OBVIOUS
  <2>1. m \in j..(d - 1) /\ m \in 1..Len(s)
    BY <1>1
  <2>2. QED
    BY <1>1, <2>1 DEF at
<1>4. d = m
  BY <1>1, <1>2, <1>3
<1>5. QED
  BY <1>4 DEF d

\* Without a place to begin at there is no host.
LEMMA NoHost ==
    ASSUME NEW V, NEW s \in Seq(V)
    PROVE  Host(s, NoMatch) = NoMatch
<1>1. subdomains(s, NoMatch) = NoMatch
  BY DEF subdomains
<1>2. toplabel(s, NoMatch) = NoMatch
  BY DEF toplabel, one, at, label_rest, NoMatch
<1>3. hostname(s, NoMatch) = NoMatch
  BY <1>1, <1>2 DEF hostname, optional, one, at, NoMatch
<1>4. IPv4address(s, NoMatch) = NoMatch
  BY AddressIs DEF NoMatch
<1>5. QED
  BY <1>3, <1>4 DEF Host

\* The parts of a reading are what the rules take, one after the other.
LEMMA ReadingTaken ==
    ASSUME NEW W, NEW s \in Seq(W), NEW V, NEW u \in Seq(V), IsLine(s, u),
           NEW h \in Nat, NEW p \in Nat, NEW q \in Nat, Reads(u, h, p, q)
    PROVE  LET host == Host(s, one(s, 3, {"http://"}))
               abs  == IF host # NoMatch THEN port(s, host) ELSE 3
               path == abs_path(s, abs)
           IN  /\ host = IF h = 0 THEN NoMatch ELSE h + 3
               /\ abs = p + 3
               /\ path = IF q = p THEN NoMatch ELSE q + 3
               /\ Request_URI(s, 3).end = Len(u) + 3
<1> DEFINE host == Host(s, one(s, 3, {"http://"}))
           abs  == IF host # NoMatch THEN port(s, host) ELSE 3
           path == abs_path(s, abs)
           L == Len(u)
<1>1. /\ Len(s) = L + 6 /\ L \in Nat
      /\ \A k \in 1..L : s[k + 2] = u[k]
      /\ s[L + 3] = "SP"
  BY DEF IsLine
<1>2. /\ h <= p /\ p <= q /\ q <= L
      /\ \/ h = 0 /\ p = 0
         \/ /\ h > 0 /\ u[1] = "http://" /\ HostRead(u, h)
            /\ \/ p = h
               \/ p > h + 1 /\ u[h + 1] = ":" /\ \A k \in (h + 2)..p : u[k] \in Digit
      /\ \/ q > p /\ u[p + 1] = "/" /\ \A k \in (p + 1)..q : u[k] \in PathChars
         \/ q = p /\ h > 0 /\ q = L
      /\ q = L \/ (u[q + 1] = "?" /\ \A k \in (q + 2)..L : u[k] \in QueryChars)
  BY DEF Reads
<1> HIDE DEF L
<1>3. s[q + 3] = IF q = L THEN "SP" ELSE "?"
  <2>1. q # L => q + 1 \in 1..L /\ (q + 1) + 2 = q + 3
    BY <1>1, <1>2
  <2>2. QED
    BY <1>1, <1>2, <2>1
<1>4. s[p + 3] \in {"SP", "/"} /\ (q > p => s[p + 3] = "/") /\ (q = p => s[p + 3] = "SP")
  <2>1. q > p => p + 1 \in 1..L /\ (p + 1) + 2 = p + 3
    BY <1>1, <1>2
  <2>2. QED
    BY <1>1, <1>2, <2>1
<1>5. host = IF h = 0 THEN NoMatch ELSE h + 3
  <2>1. CASE h = 0
    <3>1. 1 \in 1..L /\ u[1] = "/" /\ 1 + 2 = 3
      BY <1>1, <1>2, <2>1
    <3>2. s[3] = "/"
      BY <1>1, <3>1
    <3>3. one(s, 3, {"http://"}) = NoMatch
      <4>1. "/" \notin {"http://"}
        BY Zenon
      <4>2. ~ at(s, 3, {"http://"})
        BY <3>2, <4>1 DEF at
      <4>3. QED
        BY <4>2 DEF one
    <3>4. Host(s, NoMatch) = NoMatch
      BY NoHost
    <3>5. QED
      BY <2>1, <3>3, <3>4
  <2>2. CASE h # 0
    <3>1. /\ h > 0 /\ u[1] = "http://" /\ HostRead(u, h)
          /\ \/ p = h
             \/ p > h + 1 /\ u[h + 1] = ":"
      BY <1>2, <2>2
    <3>2. one(s, 3, {"http://"}) = 4
      <4>1. 1 \in 1..L /\ 1 + 2 = 3 /\ 3 \in 1..Len(s)
        BY <1>1, <1>2, <3>1
      <4>2. s[3] = "http://"
        BY <1>1, <3>1, <4>1
      <4>3. QED
        BY <4>1, <4>2 DEF one, at
    <3>3. s[h + 3] \in {"SP", "/", ":"}
      <4>1. p # h => h + 1 \in 1..L /\ (h + 1) + 2 = h + 3
        BY <1>1, <1>2, <3>1
      <4>2. QED
        BY <1>1, <1>4, <3>1, <4>1
    <3>4. Ended(s, h + 2)
      <4>1. \A c \in {"SP", "/", ":"} : c \notin AlNum \cup {"-", "."}
        BY HostChars
      <4>2. h + 2 \in Nat /\ (h + 2) + 1 = h + 3
        OBVIOUS
      <4>3. s[(h + 2) + 1] \notin AlNum \cup {"-", "."}
        BY <3>3, <4>1, <4>2
      <4>4. QED
        BY <4>2, <4>3, EndedIs
    <3>5. Hosted(s, 4, h + 2) \/ \E x, y, z \in Nat : DotsAt(s, 4, x, y, z, h + 2)
      <4>1. /\ 2 \in Nat /\ 2 \in Int /\ \A k \in 2..h : s[k + 2] = u[k]
            /\ Len(s) \in Nat /\ h + 2 <= Len(s) /\ 2 + 2 = 4
        BY <1>1, <1>2
      <4>2. ASSUME Hosted(u, 2, h) PROVE Hosted(s, 4, h + 2)
        <5>1. Hosted(s, 2 + 2, h + 2)
          BY <4>1, <4>2, HostedElsewhere
        <5>2. QED
          BY <4>1, <5>1
      <4>3. ASSUME NEW x \in Nat, NEW y \in Nat, NEW z \in Nat, DotsAt(u, 2, x, y, z, h)
            PROVE  \E i1, i2, i3 \in Nat : DotsAt(s, 4, i1, i2, i3, h + 2)
        <5>1. DotsAt(s, 2 + 2, x + 2, y + 2, z + 2, h + 2)
          BY <4>1, <4>3, DotsElsewhere
        <5>2. DotsAt(s, 4, x + 2, y + 2, z + 2, h + 2) /\ x + 2 \in Nat /\ y + 2 \in Nat /\ z + 2 \in Nat
          BY <4>1, <5>1
        <5>3. QED
          BY <5>2
      <4>4. QED
        BY <3>1, <4>2, <4>3 DEF HostRead
    <3>6. Host(s, 4) = (h + 2) + 1
      <4>1. 4 \in Nat \ {0} /\ h + 2 \in Nat
        OBVIOUS
      <4>2. QED
        BY <3>4, <3>5, <4>1, HostTaken
    <3>7. QED
      BY <2>2, <3>2, <3>6
  <2>3. QED
    BY <2>1, <2>2
<1>6. abs = p + 3
  <2>1. CASE h = 0
    BY <1>2, <1>5, <2>1
  <2>2. CASE h # 0
    <3>1. host = h + 3 /\ host # NoMatch
      BY <1>5, <2>2 DEF NoMatch
    <3>2. abs = optional(h + 3, many1(s, one(s, h + 3, {":"}), Digit))
      BY <3>1 DEF port
    <3> HIDE DEF abs, host
    <3>3. h + 3 \in 1..Len(s) /\ h + 3 \in Int
      BY <1>1, <1>2
    <3>4. one(s, h + 3, {":"}) = IF s[h + 3] \in {":"} THEN (h + 3) + 1 ELSE NoMatch
      BY <3>3, OneIs
    <3>5. CASE p = h
      <4>1. s[h + 3] \notin {":"}
        BY <1>4, <3>5
      <4>2. many1(s, NoMatch, Digit) = NoMatch
        BY DigitsIs DEF at, NoMatch
      <4>3. QED
        BY <3>2, <3>4, <3>5, <4>1, <4>2 DEF optional
    <3>6. CASE p # h
      <4>1. p > h + 1 /\ u[h + 1] = ":" /\ \A k \in (h + 2)..p : u[k] \in Digit
        BY <1>2, <2>2, <3>6
      <4>2. h + 1 \in 1..L /\ (h + 1) + 2 = h + 3 /\ (h + 3) + 1 = h + 4
        BY <1>1, <1>2, <4>1
      <4>3. one(s, h + 3, {":"}) = h + 4
        BY <1>1, <3>4, <4>1, <4>2
      <4>4. ASSUME NEW k \in (h + 4)..((p + 3) - 1) PROVE s[k] \in Digit
        <5>1. k - 2 \in (h + 2)..p /\ k - 2 \in 1..L /\ (k - 2) + 2 = k
          BY <1>1, <1>2
        <5>2. s[(k - 2) + 2] = u[k - 2]
          BY <1>1, <5>1
        <5>3. QED
          BY <4>1, <5>1, <5>2
      <4>5. ~ at(s, p + 3, Digit)
        <5>1. "SP" \notin Digit /\ "/" \notin Digit
          BY UriChars, HostChars
        <5>2. QED
          BY <1>4, <5>1 DEF at
      <4>6. h + 4 \in Nat \ {0} /\ p + 3 \in ((h + 4) + 1)..(Len(s) + 1)
        BY <1>1, <1>2, <4>1
      <4>7. many1(s, h + 4, Digit) = p + 3
        BY <4>4, <4>5, <4>6, DigitsTaken
      <4>8. QED
        BY <3>2, <4>3, <4>7 DEF optional, NoMatch
    <3>7. QED
      BY <3>5, <3>6
  <2>3. QED
    BY <2>1, <2>2
<1>7. path = IF q = p THEN NoMatch ELSE q + 3
  <2>1. path = many(s, one(s, p + 3, {"/"}), PathChars)
    BY <1>6 DEF abs_path
  <2> HIDE DEF path, abs
  <2>2. p + 3 \in 1..Len(s) /\ p + 3 \in Int
    BY <1>1, <1>2
  <2>3. one(s, p + 3, {"/"}) = IF s[p + 3] \in {"/"} THEN (p + 3) + 1 ELSE NoMatch
    BY <2>2, OneIs
  <2>4. CASE q = p
    <3>1. s[p + 3] \notin {"/"}
      BY <1>4, <2>4
    <3>2. QED
      BY <2>1, <2>3, <2>4, <3>1 DEF many
  <2>5. CASE q # p
    <3>1. q > p /\ \A k \in (p + 1)..q : u[k] \in PathChars
      BY <1>2, <2>5
    <3>2. one(s, p + 3, {"/"}) = p + 4
      BY <1>4, <2>3, <3>1
    <3>3. ASSUME NEW k \in (p + 4)..((q + 3) - 1) PROVE s[k] \in PathChars
      <4>1. k - 2 \in (p + 1)..q /\ k - 2 \in 1..L /\ (k - 2) + 2 = k
        BY <1>1, <1>2
      <4>2. s[(k - 2) + 2] = u[k - 2]
        BY <1>1, <4>1
      <4>3. QED
        BY <3>1, <4>1, <4>2
    <3>4. ~ at(s, q + 3, PathChars)
      <4>1. "SP" \notin PathChars /\ "?" \notin PathChars
        BY UriChars
      <4>2. QED
        BY <1>3, <4>1 DEF at
    <3>5. p + 4 \in 1..(Len(s) + 1) /\ q + 3 \in (p + 4)..(Len(s) + 1)
      BY <1>1, <1>2, <3>1
    <3>6. many(s, p + 4, PathChars) = q + 3
      BY <3>3, <3>4, <3>5, ManyTaken
    <3>7. QED
      BY <2>1, <2>5, <3>2, <3>6
  <2>6. QED
    BY <2>4, <2>5
<1>8. query(s, q + 3) = L + 3
  <2>1. q + 3 \in 1..Len(s) /\ q + 3 \in Int
    BY <1>1, <1>2
  <2>2. one(s, q + 3, {"?"}) = IF s[q + 3] \in {"?"} THEN (q + 3) + 1 ELSE NoMatch
    BY <2>1, OneIs
  <2>3. CASE q = L
    <3>1. s[q + 3] \notin {"?"}
      <4>1. "SP" \notin {"?"}
        BY Zenon
      <4>2. QED
        BY <1>3, <2>3, <4>1
    <3>2. QED
      BY <2>2, <2>3, <3>1 DEF query, optional, many
  <2>4. CASE q # L
    <3>1. q < L /\ \A k \in (q + 2)..L : u[k] \in QueryChars
      BY <1>1, <1>2, <2>4
    <3>2. one(s, q + 3, {"?"}) = q + 4
      BY <1>3, <2>2, <2>4
    <3>3. ASSUME NEW k \in (q + 4)..((L + 3) - 1) PROVE s[k] \in QueryChars
      <4>1. k - 2 \in (q + 2)..L /\ k - 2 \in 1..L /\ (k - 2) + 2 = k
        BY <1>1, <1>2
      <4>2. s[(k - 2) + 2] = u[k - 2]
        BY <1>1, <4>1
      <4>3. QED
        BY <3>1, <4>1, <4>2
    <3>4. ~ at(s, L + 3, QueryChars)
      <4>1. "SP" \notin QueryChars
        BY UriChars
      <4>2. QED
        BY <1>1, <4>1 DEF at
    <3>5. q + 4 \in 1..(Len(s) + 1) /\ L + 3 \in (q + 4)..(Len(s) + 1)
      BY <1>1, <1>2, <3>1
    <3>6. many(s, q + 4, QueryChars) = L + 3
      BY <3>3, <3>4, <3>5, ManyTaken
    <3>7. QED
      BY <1>1, <3>2, <3>6 DEF query, optional, NoMatch
  <2>5. QED
    BY <2>3, <2>4
<1>9. Request_URI(s, 3).end = L + 3
  <2>1. Request_URI(s, 3).end = IF path # NoMatch THEN query(s, path)
                                ELSE IF host # NoMatch THEN abs ELSE NoMatch
    BY DEF Request_URI
  <2> HIDE DEF host, abs, path
  <2>2. CASE q = p
    <3>1. h > 0 /\ q = L /\ q = p
      BY <1>2, <2>2
    <3>2. host # NoMatch /\ path = NoMatch
      BY <1>5, <1>7, <3>1 DEF NoMatch
    <3>3. QED
      BY <1>6, <2>1, <3>1, <3>2
  <2>3. CASE q # p
    <3>1. path = q + 3 /\ path # NoMatch
      BY <1>7, <2>3 DEF NoMatch
    <3>2. QED
      BY <1>8, <2>1, <3>1
  <2>4. QED
    BY <2>2, <2>3
<1>10. QED
  BY <1>5, <1>6, <1>7, <1>9 DEF L

\* What the rules take, if they take all of the URI, is a reading of it.
LEMMA TakenReads ==
    ASSUME NEW W, NEW s \in Seq(W), NEW V, NEW u \in Seq(V), IsLine(s, u),
           Request_URI(s, 3).end = Len(u) + 3
    PROVE  \E h, p, q \in Nat : Reads(u, h, p, q)
<1> DEFINE o == one(s, 3, {"http://"})
           host == Host(s, o)
           abs  == IF host # NoMatch THEN port(s, host) ELSE 3
           path == abs_path(s, abs)
           L == Len(u)
           h == IF host = NoMatch THEN 0 ELSE host - 3
           p == abs - 3
           q == IF path = NoMatch THEN p ELSE path - 3
<1>1. /\ Len(s) = L + 6 /\ L \in Nat
      /\ \A k \in 1..L : s[k + 2] = u[k]
      /\ \A k \in 3..(L + 2) : s[k] # "SP" /\ u[k - 2] = s[k]
      /\ s[L + 3] = "SP"
  BY DEF IsLine
<1>2. L + 3 = IF path # NoMatch THEN query(s, path) ELSE IF host # NoMatch THEN abs ELSE NoMatch
  BY DEF Request_URI
<1> HIDE DEF L
\* No rule goes beyond the blank behind the URI.
<1>3. ASSUME NEW C, "SP" \notin C, NEW a \in 3..(L + 3), NEW b \in Int, b >= a,
             \A k \in a..(b - 1) : s[k] \in C
      PROVE  b <= L + 3
  <2> SUFFICES ASSUME b > L + 3 PROVE FALSE
    BY <1>1
  <2>1. L + 3 \in a..(b - 1)
    BY <1>1, <1>3
  <2>2. QED
    BY <1>1, <1>3, <2>1
<1>4. /\ host # NoMatch => /\ h \in 1..L /\ host = h + 3 /\ u[1] = "http://" /\ HostRead(u, h)
      /\ host = NoMatch => h = 0
  <2> SUFFICES ASSUME host # NoMatch
               PROVE  h \in 1..L /\ host = h + 3 /\ u[1] = "http://" /\ HostRead(u, h)
    BY DEF h
  <2>1. o = 4 /\ s[3] = "http://"
    <3>1. o = IF 3 \in 1..Len(s) /\ s[3] \in {"http://"} THEN 3 + 1 ELSE NoMatch
      BY OneIs
    <3>2. Host(s, NoMatch) = NoMatch
      BY NoHost
    <3> HIDE DEF o
    <3>3. o # NoMatch
      BY <3>2
    <3>4. QED
      BY <3>1, <3>3
  <2> HIDE DEF o
  <2>2. L >= 1 /\ u[1] = "http://"
    <3>1. s[3] # "SP"
      <4>1. "http://" # "SP"
        BY Zenon
      <4>2. QED
        BY <2>1, <4>1
    <3>2. L # 0
      BY <1>1, <3>1
    <3>3. 3 \in 3..(L + 2) /\ 3 - 2 = 1 /\ L >= 1
      BY <1>1, <3>2
    <3>4. QED
      BY <1>1, <2>1, <3>3
  <2>3. /\ host \in (4 + 1)..(Len(s) + 1)
        /\ \/ Hosted(s, 4, host - 1)
           \/ \E x, y, z \in Nat : DotsAt(s, 4, x, y, z, host - 1)
    <3>1. 4 \in 1..(Len(s) + 1) /\ Host(s, 4) # NoMatch /\ host = Host(s, 4)
      BY <1>1, <2>1
    <3> HIDE DEF host
    <3>2. QED
      BY <3>1, HostIs
  <2> HIDE DEF host
  <2>4. h = host - 3 /\ host = h + 3 /\ h >= 2 /\ h \in Nat /\ host - 1 = h + 2
    BY <2>3 DEF h
  <2> HIDE DEF h
  <2>5. \A k \in 4..(host - 1) : s[k] \in AlNum \cup {"-", "."}
    <3>1. CASE Hosted(s, 4, host - 1)
      BY <3>1 DEF Hosted, Placed
    <3>2. ASSUME NEW x \in Nat, NEW y \in Nat, NEW z \in Nat, DotsAt(s, 4, x, y, z, host - 1),
                 NEW k \in 4..(host - 1)
          PROVE  s[k] \in AlNum \cup {"-", "."}
      <4>1. s[k] \in {"."} \/ s[k] \in Digit
        BY <3>2 DEF DotsAt
      <4>2. QED
        BY <4>1, HostChars
    <3>3. QED
      BY <2>3, <3>1, <3>2
  <2>6. h <= L
    <3>1. "SP" \notin AlNum \cup {"-", "."}
      <4>1. "SP" \notin AlNum
        BY UriChars
      <4>2. QED
        BY <4>1
    <3>2. 4 \in 3..(L + 3) /\ host \in Int /\ host >= 4
      BY <1>1, <2>2, <2>4
    <3>3. host <= L + 3
      BY <1>3, <2>5, <3>1, <3>2
    <3>4. QED
      BY <1>1, <2>4, <3>3
  <2>7. HostRead(u, h)
    <3>1. /\ h + 2 \in Nat /\ -2 \in Int /\ 4 \in Nat /\ 4 + (-2) = 2 /\ (h + 2) + (-2) = h
          /\ \A k \in 4..(h + 2) : k + (-2) = k - 2 /\ k \in 3..(L + 2)
          /\ Len(u) \in Nat /\ (h + 2) + (-2) <= Len(u)
      BY <1>1, <2>4, <2>6 DEF L
    <3>2. \A k \in 4..(h + 2) : u[k + (-2)] = s[k]
      BY <1>1, <3>1
    <3>3. ASSUME Hosted(s, 4, h + 2) PROVE Hosted(u, 2, h)
      <4>1. Hosted(u, 4 + (-2), (h + 2) + (-2))
        BY <3>1, <3>2, <3>3, HostedElsewhere
      <4>2. QED
        BY <3>1, <4>1
    <3>4. ASSUME NEW x \in Nat, NEW y \in Nat, NEW z \in Nat, DotsAt(s, 4, x, y, z, h + 2)
          PROVE  \E i1, i2, i3 \in Nat : DotsAt(u, 2, i1, i2, i3, h)
      <4>1. DotsAt(u, 4 + (-2), x + (-2), y + (-2), z + (-2), (h + 2) + (-2))
        BY <3>1, <3>2, <3>4, DotsElsewhere
      <4>2. 4 < x /\ x + 1 < y /\ y + 1 < z
        BY <3>4 DEF DotsAt
      <4>3. x + (-2) \in Nat /\ y + (-2) \in Nat /\ z + (-2) \in Nat
        BY <4>2
      <4>4. QED
        BY <3>1, <4>1, <4>3
    <3>5. QED
      BY <2>3, <2>4, <3>3, <3>4 DEF HostRead
  <2>8. QED
    BY <2>2, <2>4, <2>6, <2>7
<1> HIDE DEF o, h
<1>5. /\ abs \in (h + 3)..(L + 3) /\ abs = p + 3 /\ p \in h..L
      /\ \/ h = 0 /\ p = 0 /\ host = NoMatch
         \/ host # NoMatch /\ p = h
         \/ host # NoMatch /\ p > h + 1 /\ u[h + 1] = ":" /\ \A k \in (h + 2)..p : u[k] \in Digit
  <2>1. CASE host = NoMatch
    <3>1. abs = 3 /\ h = 0
      BY <1>4, <2>1
    <3>2. QED
      BY <1>1, <2>1, <3>1
  <2>2. CASE host # NoMatch
    <3>1. h \in 1..L /\ host = h + 3
      BY <1>4, <2>2
    <3> DEFINE c == one(s, h + 3, {":"})
               m == many1(s, c, Digit)
    <3>2. abs = optional(h + 3, m)
      BY <2>2, <3>1 DEF port
    <3> HIDE DEF host, abs
    <3>3. c = IF s[h + 3] = ":" THEN h + 4 ELSE NoMatch
      <4>1. h + 3 \in 1..Len(s) /\ h + 3 \in Int /\ (h + 3) + 1 = h + 4
        BY <1>1, <3>1
      <4>2. c = IF s[h + 3] \in {":"} THEN (h + 3) + 1 ELSE NoMatch
        BY <4>1, OneIs
      <4>3. QED
        BY <4>1, <4>2
    <3>4. c \in Nat
      BY <3>1, <3>3 DEF NoMatch
    <3> HIDE DEF c
    <3>5. /\ m = NoMatch <=> ~ at(s, c, Digit)
          /\ m # NoMatch => m \in (c + 1)..(Len(s) + 1) /\ c \in 1..Len(s)
                            /\ \A k \in c..(m - 1) : s[k] \in Digit
      BY <3>4, DigitsIs
    <3> HIDE DEF m
    <3>6. CASE m = NoMatch
      <4>1. abs = h + 3
        BY <3>2, <3>6 DEF optional
      <4>2. QED
        BY <1>1, <2>2, <3>1, <4>1
    <3>7. CASE m # NoMatch
      <4>1. c = h + 4 /\ s[h + 3] = ":" /\ m \in (h + 5)..(Len(s) + 1) /\ abs = m
        <5>1. c # 0
          BY <3>5, <3>7
        <5>2. c = h + 4 /\ s[h + 3] = ":"
          BY <3>3, <5>1 DEF NoMatch
        <5>3. QED
          BY <1>1, <3>1, <3>2, <3>5, <3>7, <5>2 DEF optional
      <4>2. h < L /\ u[h + 1] = ":"
        <5>1. h # L
          <6>1. "SP" # ":"
            OBVIOUS
          <6>2. QED
            BY <1>1, <4>1, <6>1
        <5>2. h + 3 \in 3..(L + 2) /\ (h + 3) - 2 = h + 1 /\ h < L
          BY <1>1, <3>1, <5>1
        <5>3. QED
          BY <1>1, <4>1, <5>2
      <4>3. m <= L + 3
        <5>1. "SP" \notin Digit
          BY UriChars, HostChars
        <5>2. h + 4 \in 3..(L + 3) /\ m \in Int /\ m >= h + 4
          BY <1>1, <3>1, <4>1, <4>2
        <5>3. \A k \in (h + 4)..(m - 1) : s[k] \in Digit
          BY <3>5, <3>7, <4>1
        <5>4. QED
          BY <1>3, <5>1, <5>2, <5>3
      <4>4. p = m - 3 /\ p > h + 1 /\ p \in h..L /\ abs = p + 3 /\ abs \in (h + 3)..(L + 3)
        BY <1>1, <3>1, <4>1, <4>3
      <4> HIDE DEF p
      <4>5. ASSUME NEW k \in (h + 2)..p PROVE u[k] \in Digit
        <5>1. k \in 1..L /\ k + 2 \in (h + 4)..(m - 1)
          BY <1>1, <3>1, <4>1, <4>4
        <5>2. s[k + 2] \in Digit
          BY <3>5, <3>7, <4>1, <5>1
        <5>3. QED
          BY <1>1, <5>1, <5>2
      <4>6. QED
        BY <2>2, <4>2, <4>4, <4>5
    <3>8. QED
      BY <3>6, <3>7
  <2>3. QED
    BY <2>1, <2>2
<1>6. /\ h \in 0..L /\ (host = NoMatch <=> h = 0)
  BY <1>1, <1>4
<1> HIDE DEF host, abs, p
<1>7. CASE path = NoMatch
  <2>1. host # NoMatch /\ abs = L + 3
    BY <1>1, <1>2, <1>7 DEF NoMatch
  <2>2. p = L /\ h > 0 /\ p \in Nat /\ h \in Nat
    BY <1>1, <1>5, <1>6, <2>1
  <2>3. Reads(u, h, p, p)
    BY <1>4, <1>5, <1>6, <2>1, <2>2 DEF Reads, L
  <2>4. QED
    BY <2>2, <2>3
<1>8. CASE path # NoMatch
  <2> DEFINE c == one(s, p + 3, {"/"})
  <2>1. path = many(s, c, PathChars)
    BY <1>5 DEF abs_path
  <2> HIDE DEF path
  <2>2. p + 3 \in 1..Len(s) /\ p + 3 \in Int /\ p \in Nat /\ (p + 3) + 1 = p + 4
    BY <1>1, <1>5, <1>6
  <2>3. c = IF s[p + 3] \in {"/"} THEN (p + 3) + 1 ELSE NoMatch
    BY <2>2, OneIs
  <2> HIDE DEF c
  <2>4. c = p + 4 /\ s[p + 3] = "/"
    <3>1. c # NoMatch
      BY <1>8, <2>1 DEF many
    <3>2. QED
      BY <2>2, <2>3, <3>1
  <2>5. /\ path \in (p + 4)..(Len(s) + 1)
        /\ \A k \in (p + 4)..(path - 1) : s[k] \in PathChars
    <3>1. p + 4 \in 1..(Len(s) + 1)
      BY <2>2
    <3>2. QED
      BY <2>1, <2>4, <3>1, ManyIs
  <2>6. \A k \in (p + 3)..(path - 1) : s[k] \in PathChars
    <3>1. s[p + 3] \in PathChars
      BY <2>4, UriChars
    <3>2. \A k \in (p + 3)..(path - 1) : k = p + 3 \/ k \in (p + 4)..(path - 1)
      BY <2>2, <2>5
    <3>3. QED
      BY <2>5, <3>1, <3>2
  <2>7. path <= L + 3
    <3>1. "SP" \notin PathChars
      BY UriChars
    <3>2. p + 3 \in 3..(L + 3) /\ path \in Int /\ path >= p + 3
      BY <1>1, <1>5, <2>2, <2>5
    <3>3. QED
      BY <1>3, <2>6, <3>1, <3>2
  <2>8. q = path - 3 /\ q > p /\ q <= L /\ q \in Nat /\ path = q + 3
    BY <1>1, <1>8, <2>2, <2>5, <2>7
  <2> HIDE DEF q
  <2>9. u[p + 1] = "/" /\ \A k \in (p + 1)..q : u[k] \in PathChars
    <3>1. ASSUME NEW k \in (p + 1)..q PROVE u[k] = s[k + 2] /\ u[k] \in PathChars
      <4>1. k \in 1..L /\ k + 2 \in (p + 3)..(path - 1)
        BY <1>1, <2>2, <2>8
      <4>2. QED
        BY <1>1, <2>6, <4>1
    <3>2. p + 1 \in (p + 1)..q /\ (p + 1) + 2 = p + 3
      BY <2>2, <2>8
    <3>3. QED
      BY <2>4, <3>1, <3>2
  <2>10. q = L \/ (u[q + 1] = "?" /\ \A k \in (q + 2)..L : u[k] \in QueryChars)
    <3> SUFFICES ASSUME q # L
                 PROVE  u[q + 1] = "?" /\ \A k \in (q + 2)..L : u[k] \in QueryChars
      OBVIOUS
    <3> DEFINE d == one(s, q + 3, {"?"})
               e == many(s, d, QueryChars)
    <3>1. L + 3 = optional(q + 3, e)
      BY <1>2, <1>8, <2>8 DEF query
    <3>2. q + 1 \in 1..L /\ q + 3 \in 1..Len(s) /\ q + 3 \in Int /\ (q + 3) + 1 = q + 4
          /\ (q + 1) + 2 = q + 3
      BY <1>1, <2>8
    <3>3. d = IF s[q + 3] \in {"?"} THEN (q + 3) + 1 ELSE NoMatch
      BY <3>2, OneIs
    <3> HIDE DEF d, e
    <3>4. e # NoMatch /\ e = L + 3
      <4>1. e # NoMatch
        <5> SUFFICES ASSUME e = NoMatch PROVE FALSE
          OBVIOUS
        <5>1. L + 3 = q + 3
          BY <3>1 DEF optional
        <5>2. QED
          BY <1>1, <2>8, <5>1
      <4>2. QED
        BY <3>1, <4>1 DEF optional
    <3>5. d = q + 4 /\ s[q + 3] = "?"
      <4>1. d # NoMatch
        BY <3>4 DEF many, e
      <4>2. QED
        BY <3>2, <3>3, <4>1
    <3>6. \A k \in (q + 4)..(e - 1) : s[k] \in QueryChars
      <4>1. q + 4 \in 1..(Len(s) + 1)
        BY <3>2
      <4>2. QED
        BY <3>5, <4>1, ManyIs DEF e
    <3>7. ASSUME NEW k \in (q + 2)..L PROVE u[k] \in QueryChars
      <4>1. k \in 1..L /\ k + 2 \in (q + 4)..(e - 1)
        BY <1>1, <2>8, <3>4
      <4>2. s[k + 2] = u[k]
        BY <1>1, <4>1
      <4>3. QED
        BY <3>6, <4>1, <4>2
    <3>8. QED
      BY <1>1, <3>2, <3>5, <3>7
  <2>11. Reads(u, h, p, q)
    <3>1. h <= p /\ p <= q /\ q <= Len(u)
      BY <1>5, <1>6, <2>2, <2>8 DEF L
    <3>2. \/ h = 0 /\ p = 0
          \/ /\ h > 0 /\ u[1] = "http://" /\ HostRead(u, h)
             /\ \/ p = h
                \/ p > h + 1 /\ u[h + 1] = ":" /\ \A k \in (h + 2)..p : u[k] \in Digit
      BY <1>4, <1>5, <1>6
    <3>3. QED
      BY <2>8, <2>9, <2>10, <3>1, <3>2 DEF Reads, L
  <2>12. h \in Nat
    BY <1>6
  <2>13. QED
    BY <2>2, <2>8, <2>11, <2>12
<1>9. QED
  BY <1>7, <1>8

\* parse_request_line returns once.
LineInv ==
    Returned("parse_request_line") =>
        LET s   == request_line(input)
            uri == Request_URI(s, 3)
            end == CRLF(s, one(s, one(s, uri.end, {"SP"}), {"HTTP/1.1"}))
        IN  result = IF end = NoMatch THEN <<>> ELSE uri

LEMMA LineReturned == TextSpec => []LineInv
<1>1. TextInit => LineInv
  BY DEF TextInit, LineInv, Returned
<1>2. LineInv /\ [TextNext]_textVars => LineInv'
  <2>1. ASSUME TextNext, routine' = "parse_request_line"
        PROVE  /\ input' = input
               /\ LET s   == request_line(input)
                      uri == Request_URI(s, 3)
                      end == CRLF(s, one(s, one(s, uri.end, {"SP"}), {"HTTP/1.1"}))
                  IN  result' = IF end = NoMatch THEN <<>> ELSE uri
    BY <2>1, ParserActs DEF parse_request_line, Returns, input
  <2>2. ASSUME LineInv, UNCHANGED textVars PROVE LineInv'
    BY <2>2 DEF LineInv, textVars, vars, Returned, input
  <2>3. QED
    BY <2>1, <2>2 DEF LineInv, Returned
<1>3. QED
  BY <1>1, <1>2, PTL DEF TextSpec

\* Where the URI ends, if it does: behind its beginning.
LEMMA EndIs ==
    ASSUME NEW V, NEW s \in Seq(V), NEW W, NEW u \in Seq(W), IsLine(s, u)
    PROVE  LET e == Request_URI(s, 3).end IN e \in Nat /\ (e = NoMatch \/ e >= 3)
<1> DEFINE host == Host(s, one(s, 3, {"http://"}))
           abs  == IF host # NoMatch THEN port(s, host) ELSE 3
           path == abs_path(s, abs)
           e    == Request_URI(s, 3).end
<1>1. e = IF path # NoMatch THEN query(s, path) ELSE IF host # NoMatch THEN abs ELSE NoMatch
  BY DEF Request_URI
<1>2. Len(s) \in Nat /\ Len(s) >= 6
  BY DEF IsLine
<1>3. one(s, 3, {"http://"}) \in {NoMatch, 4}
  BY DEF one
<1>4. host # NoMatch => host \in 5..(Len(s) + 1)
  <2>1. Host(s, NoMatch) = NoMatch
    BY NoHost
  <2>2. 4 \in 1..(Len(s) + 1)
    BY <1>2
  <2>3. Host(s, 4) # NoMatch => Host(s, 4) \in (4 + 1)..(Len(s) + 1)
    BY <2>2, HostIs
  <2>4. QED
    BY <1>3, <2>1, <2>3
<1> HIDE DEF host
<1>5. abs \in 3..(Len(s) + 1)
  <2>1. CASE host = NoMatch
    BY <1>2, <2>1
  <2>2. CASE host # NoMatch
    <3> DEFINE c == one(s, host, {":"})
               m == many1(s, c, Digit)
    <3>1. abs = optional(host, m)
      BY <2>2 DEF port
    <3>2. c \in Nat /\ (c = NoMatch \/ c >= 3)
      <4>1. host \in Int /\ host >= 3
        BY <1>2, <1>4, <2>2
      <4>2. c = IF host \in 1..Len(s) /\ s[host] \in {":"} THEN host + 1 ELSE NoMatch
        BY <4>1, OneIs
      <4>3. QED
        BY <4>1, <4>2 DEF NoMatch
    <3> HIDE DEF c, abs
    <3>3. m # NoMatch => m \in (c + 1)..(Len(s) + 1) /\ c \in 1..Len(s)
      BY <3>2, DigitsIs
    <3> HIDE DEF m
    <3>4. CASE m = NoMatch
      BY <1>2, <1>4, <2>2, <3>1, <3>4 DEF optional
    <3>5. CASE m # NoMatch
      BY <1>2, <3>1, <3>2, <3>3, <3>5 DEF optional, NoMatch
    <3>6. QED
      BY <3>4, <3>5
  <2>3. QED
    BY <2>1, <2>2
<1> HIDE DEF abs
<1>6. path # NoMatch => path \in 3..(Len(s) + 1)
  <2> DEFINE c == one(s, abs, {"/"})
  <2>1. path = many(s, c, PathChars)
    BY DEF abs_path
  <2>2. c = IF abs \in 1..Len(s) /\ s[abs] \in {"/"} THEN abs + 1 ELSE NoMatch
    BY <1>2, <1>5, OneIs
  <2> HIDE DEF path, c
  <2>3. CASE c = NoMatch
    BY <2>1, <2>3 DEF many
  <2>4. CASE c # NoMatch
    <3>1. c \in 1..(Len(s) + 1) /\ c >= 3
      BY <1>2, <1>5, <2>2, <2>4
    <3>2. path \in c..(Len(s) + 1)
      BY <2>1, <3>1, ManyIs
    <3>3. QED
      BY <1>2, <3>1, <3>2
  <2>5. QED
    BY <2>3, <2>4
<1> HIDE DEF path
<1>7. path # NoMatch => query(s, path) \in Nat /\ query(s, path) >= 3
  <2> SUFFICES ASSUME path # NoMatch PROVE query(s, path) \in Nat /\ query(s, path) >= 3
    OBVIOUS
  <2> DEFINE c == one(s, path, {"?"})
             m == many(s, c, QueryChars)
  <2>1. query(s, path) = optional(path, m) /\ path \in Nat /\ path >= 3
    BY <1>2, <1>6 DEF query
  <2>2. c = IF path \in 1..Len(s) /\ s[path] \in {"?"} THEN path + 1 ELSE NoMatch
    BY <2>1, OneIs
  <2> HIDE DEF c
  <2>3. CASE c = NoMatch
    BY <2>1, <2>3 DEF many, optional
  <2>4. CASE c # NoMatch
    <3>1. c \in 1..(Len(s) + 1) /\ c >= 3
      BY <1>2, <2>1, <2>2, <2>4
    <3>2. m \in c..(Len(s) + 1)
      BY <3>1, ManyIs
    <3> HIDE DEF m
    <3>3. m \in Nat /\ m >= 3 /\ m # NoMatch
      BY <1>2, <3>1, <3>2 DEF NoMatch
    <3>4. QED
      BY <2>1, <3>3 DEF optional
  <2>5. QED
    BY <2>3, <2>4
<1> HIDE DEF e
<1>8. e \in Nat /\ (e = NoMatch \/ e >= 3)
  BY <1>1, <1>2, <1>5, <1>7 DEF NoMatch
<1>9. QED
  BY <1>8 DEF e

\* What is assigned is what the reading says.
LEMMA ReadingAssigned ==
    ASSUME NEW W, NEW s \in Seq(W), NEW V, NEW u \in Seq(V), IsLine(s, u),
           NEW h \in Nat, NEW p \in Nat, NEW q \in Nat, Reads(u, h, p, q)
    PROVE  LET uri == Request_URI(s, 3) IN
           Reading(u, h, p, q) = [host |-> uri.host, port |-> uri.port, path |-> uri.path]
<1> DEFINE host == Host(s, one(s, 3, {"http://"}))
           abs  == IF host # NoMatch THEN port(s, host) ELSE 3
           path == abs_path(s, abs)
           uri  == Request_URI(s, 3)
<1>1. /\ host = IF h = 0 THEN NoMatch ELSE h + 3
      /\ abs = p + 3
      /\ path = IF q = p THEN NoMatch ELSE q + 3
  BY ReadingTaken
<1>2. /\ uri.host = IF host = NoMatch THEN <<>> ELSE SubSeq(s, 4, host - 1)
      /\ uri.port = IF host = NoMatch THEN <<>> ELSE SubSeq(s, host + 1, abs - 1)
      /\ uri.path = IF path = NoMatch THEN <<>> ELSE SubSeq(s, abs, path - 1)
  BY DEF Request_URI
<1> HIDE DEF host, abs, path, uri
<1>3. /\ h <= p /\ p <= q /\ q <= Len(u) /\ Len(u) \in Nat /\ Len(s) = Len(u) + 6
      /\ h = 0 => p = 0
      /\ \A k \in 1..Len(u) : s[k + 2] = u[k]
  BY DEF Reads, IsLine
\* A part of the line is the part of the URI two places before.
<1>4. ASSUME NEW a \in 1..(Len(u) + 1), NEW b \in (a - 1)..Len(u)
      PROVE  SubSeq(s, a + 2, b + 2) = SubSeq(u, a, b)
  <2>1. a + 2 \in 1..(Len(s) + 1) /\ b + 2 \in ((a + 2) - 1)..Len(s) /\ a \in Nat /\ b \in Int
    BY <1>3
  <2> DEFINE c == SubSeq(u, a, b)
             t == SubSeq(s, a + 2, b + 2)
  <2>2. c \in Seq(V) /\ Len(c) = b - a + 1 /\ \A k \in 1..(b - a + 1) : c[k] = u[a + k - 1]
    BY CutIs
  <2>3. /\ t \in Seq(W) /\ Len(t) = (b + 2) - (a + 2) + 1
        /\ \A k \in 1..((b + 2) - (a + 2) + 1) : t[k] = s[(a + 2) + k - 1]
    BY <2>1, CutIs
  <2> HIDE DEF c, t
  <2>4. (b + 2) - (a + 2) + 1 = b - a + 1 /\ b - a + 1 \in Nat
    BY <2>1
  <2>5. ASSUME NEW k \in 1..(b - a + 1) PROVE c[k] = t[k]
    <3>1. a + k - 1 \in 1..Len(u) /\ (a + 2) + k - 1 = (a + k - 1) + 2
      BY <1>3, <2>1
    <3>2. s[(a + k - 1) + 2] = u[a + k - 1]
      BY <1>3, <3>1
    <3>3. QED
      BY <2>2, <2>3, <2>4, <3>1, <3>2
  <2>6. c = t
    <3>1. c \in Seq(V \cup W) /\ t \in Seq(V \cup W)
      BY <2>2, <2>3, SeqMonotonic
    <3>2. Len(c) = Len(t) /\ \A k \in 1..Len(c) : c[k] = t[k]
      BY <2>2, <2>3, <2>4, <2>5
    <3>3. QED
      BY <3>1, <3>2, SeqEqual
  <2>7. QED
    BY <2>6 DEF c, t
<1>5. uri.host = SubSeq(u, 2, h)
  <2>1. CASE h = 0
    <3>1. SubSeq(u, 2, h) = <<>>
      BY <2>1, SubSeqEmpty
    <3>2. QED
      BY <1>1, <1>2, <2>1, <3>1
  <2>2. CASE h # 0
    <3>1. host = h + 3 /\ host # NoMatch /\ host - 1 = h + 2 /\ 4 = 2 + 2
      BY <1>1, <2>2 DEF NoMatch
    <3>2. 2 \in 1..(Len(u) + 1) /\ h \in (2 - 1)..Len(u)
      BY <1>3, <2>2
    <3>3. SubSeq(s, 2 + 2, h + 2) = SubSeq(u, 2, h)
      BY <1>4, <3>2
    <3>4. QED
      BY <1>2, <3>1, <3>3
  <2>3. QED
    BY <2>1, <2>2
<1>6. uri.port = SubSeq(u, h + 2, p)
  <2>1. CASE h = 0
    <3>1. SubSeq(u, h + 2, p) = <<>>
      <4>1. h + 2 \in Int /\ p \in Int /\ p < h + 2
        BY <1>3, <2>1
      <4>2. QED
        BY <4>1, SubSeqEmpty
    <3>2. QED
      BY <1>1, <1>2, <2>1, <3>1
  <2>2. CASE h # 0
    <3>1. host = h + 3 /\ host # NoMatch /\ host + 1 = h + 4 /\ abs - 1 = p + 2
      BY <1>1, <2>2 DEF NoMatch
    <3>2. uri.port = SubSeq(s, h + 4, p + 2)
      BY <1>2, <3>1
    <3>3. CASE p = h
      <4>1. /\ h + 2 \in Int /\ p \in Int /\ p < h + 2
            /\ h + 4 \in Int /\ p + 2 \in Int /\ p + 2 < h + 4
        BY <3>3
      <4>2. SubSeq(u, h + 2, p) = <<>> /\ SubSeq(s, h + 4, p + 2) = <<>>
        BY <4>1, SubSeqEmpty
      <4>3. QED
        BY <3>2, <4>2
    <3>4. CASE p # h
      <4>1. h + 2 \in 1..(Len(u) + 1) /\ p \in ((h + 2) - 1)..Len(u) /\ (h + 2) + 2 = h + 4
        BY <1>3, <3>4
      <4>2. SubSeq(s, (h + 2) + 2, p + 2) = SubSeq(u, h + 2, p)
        BY <1>4, <4>1
      <4>3. QED
        BY <3>2, <4>1, <4>2
    <3>5. QED
      BY <3>3, <3>4
  <2>3. QED
    BY <2>1, <2>2
<1>7. uri.path = SubSeq(u, p + 1, q)
  <2>1. CASE q = p
    <3>1. p + 1 \in Int /\ q \in Int /\ q < p + 1
      BY <2>1
    <3>2. SubSeq(u, p + 1, q) = <<>>
      BY <3>1, SubSeqEmpty
    <3>3. QED
      BY <1>1, <1>2, <2>1, <3>2
  <2>2. CASE q # p
    <3>1. path = q + 3 /\ path # NoMatch /\ path - 1 = q + 2 /\ abs = (p + 1) + 2
      BY <1>1, <2>2 DEF NoMatch
    <3>2. p + 1 \in 1..(Len(u) + 1) /\ q \in ((p + 1) - 1)..Len(u)
      BY <1>3
    <3>3. SubSeq(s, (p + 1) + 2, q + 2) = SubSeq(u, p + 1, q)
      BY <1>4, <3>2
    <3>4. QED
      BY <1>2, <3>1, <3>3
  <2>3. QED
    BY <2>1, <2>2
<1>8. QED
  BY <1>5, <1>6, <1>7 DEF Reading, uri

\* parse_request_line accepts a URI if and only if it can be read, and assigns the
\* parts of that reading, which is the only one: URIsRecognised.
THEOREM URICorrect == TextSpec => []URIsRecognised
<1>1. ASSUME InputKept, LineInv, Returned("parse_request_line")
      PROVE  IF result = <<>> THEN Readings(input) = {}
             ELSE Readings(input) = {[host |-> result.host, port |-> result.port, path |-> result.path]}
  <2> DEFINE s   == request_line(input)
             uri == Request_URI(s, 3)
             end == CRLF(s, one(s, one(s, uri.end, {"SP"}), {"HTTP/1.1"}))
             parts == [host |-> uri.host, port |-> uri.port, path |-> uri.path]
  <2>1. input \in Seq(Chars)
    BY <1>1, InputIsText
  <2>2. "SP" \notin ToSet(input)
    <3>1. units \in Inputs["parse_request_line"]
      BY <1>1 DEF InputKept, Returned
    <3>2. QED
      BY <3>1, InputsAssumption DEF input
  <2>3. result = IF end = NoMatch THEN <<>> ELSE uri
    BY <1>1 DEF LineInv
  <2>4. PICK W : s \in Seq(W)
    BY <2>1, <2>2, LineIs
  <2>5. IsLine(s, input)
    BY <2>1, <2>2, LineIs
  <2>6. uri # <<>>
    <3>1. DOMAIN uri = {"host", "port", "path", "end"}
      BY DEF Request_URI
    <3>2. "host" \in DOMAIN uri
      BY <3>1
    <3> HIDE DEF uri
    <3>3. QED
      BY <3>2
  <2> HIDE DEF s
  <2>7. end # NoMatch <=> uri.end = Len(input) + 3
    <3>1. uri.end \in Nat /\ (uri.end = NoMatch \/ uri.end >= 3)
      BY <2>1, <2>4, <2>5, EndIs
    <3> HIDE DEF uri
    <3>2. QED
      BY <2>1, <2>4, <2>5, <3>1, LineAccepted
  <2> HIDE DEF end
  <2>8. \A r \in Readings(input) : uri.end = Len(input) + 3 /\ r = parts
    <3> SUFFICES ASSUME NEW r \in Readings(input)
                 PROVE  uri.end = Len(input) + 3 /\ r = parts
      OBVIOUS
    <3>1. PICK h, p, q \in Nat : Reads(input, h, p, q) /\ r = Reading(input, h, p, q)
      BY <2>1, ReadingsAre
    <3>2. uri.end = Len(input) + 3
      BY <2>1, <2>4, <2>5, <3>1, ReadingTaken
    <3>3. r = parts
      BY <2>1, <2>4, <2>5, <3>1, ReadingAssigned
    <3>4. QED
      BY <3>2, <3>3
  <2>9. CASE end = NoMatch
    <3>1. result = <<>> /\ uri.end # Len(input) + 3
      BY <2>3, <2>7, <2>9
    <3> HIDE DEF uri
    <3>2. Readings(input) = {}
      BY <2>8, <3>1
    <3>3. QED
      BY <3>1, <3>2
  <2>10. CASE end # NoMatch
    <3>1. result = uri /\ result # <<>> /\ uri.end = Len(input) + 3
      BY <2>3, <2>6, <2>7, <2>10
    <3>2. PICK h, p, q \in Nat : Reads(input, h, p, q)
      BY <2>1, <2>4, <2>5, <3>1, TakenReads
    <3>3. Reading(input, h, p, q) \in Readings(input)
      BY <2>1, <3>2, ReadingsAre
    <3>4. parts = [host |-> result.host, port |-> result.port, path |-> result.path]
      BY <3>1
    <3> HIDE DEF parts, uri
    <3>5. Readings(input) = {parts}
      BY <2>8, <3>3
    <3>6. QED
      BY <3>1, <3>4, <3>5
  <2>11. QED
    BY <2>9, <2>10
<1>2. InputKept /\ LineInv => URIsRecognised
  BY <1>1 DEF URIsRecognised
<1>3. QED
  BY <1>2, InputStays, LineReturned, PTL

=============================================================================
