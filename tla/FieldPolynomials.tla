-------------------------- MODULE FieldPolynomials --------------------------
(***************************************************************************)
(* What the proofs about the code's field arithmetic share: induction and  *)
(* recursion over natural numbers, residues modulo m, and polynomials over *)
(* them.  Nothing here is about this program.                              *)
(*                                                                         *)
(* A polynomial has n coefficients, the constant one first, and its values *)
(* are integers: what the code reduces at every step is congruent to them. *)
(***************************************************************************)
EXTENDS Integers, FiniteSets, FiniteSetTheorems, NaturalsInduction,
        WellFoundedInduction, TLAPS

\* A set of naturals that is not empty has a least element.
LEMMA LeastElement ==
    ASSUME NEW N, N \subseteq Nat, N # {}
    PROVE  \E m \in N : \A n \in N : m <= n
<1> DEFINE R == OpToRel(<, Nat)
<1>1. IsWellFoundedOn(R, Nat)
  BY NatLessThanWellFounded
<1>2. PICK m \in N : \A n \in N : ~ (<<n, m>> \in R)
  <2> HIDE DEF R
  <2> QED BY <1>1, WFMin
<1>3. ASSUME NEW n \in N PROVE m <= n
  <2>1. m \in Nat /\ n \in Nat
    OBVIOUS
  <2>2. ~ (n < m)
    BY <1>2, <2>1 DEF OpToRel
  <2> QED BY <2>1, <2>2
<1> QED BY <1>3

\* Induction up to n, for a property given as a set.
LEMMA IntervalInduction ==
    ASSUME NEW n \in Nat, NEW A, 0 \in A,
           \A i \in 1 .. n : i - 1 \in A => i \in A
    PROVE  0 .. n \subseteq A
<1> DEFINE B == (0 .. n) \ A
<1> SUFFICES ASSUME B # {} PROVE FALSE
  OBVIOUS
<1>0. B \subseteq Nat
  OBVIOUS
<1>1. PICK m \in B : \A i \in B : m <= i
  <2> HIDE DEF B
  <2> QED BY <1>0, LeastElement
<1>2. m \in 1 .. n /\ m - 1 \in 0 .. n /\ ~ (m <= m - 1)
  OBVIOUS
<1>3. m - 1 \in A
  BY <1>1, <1>2
<1> QED BY <1>2, <1>3

\* The function that a loop computes: its state after each of its n steps.
IsLoop(f, n, V, init, step) ==
    /\ f \in [0 .. n -> V]
    /\ f[0] = init
    /\ \A i \in 1 .. n : f[i] = step[i][f[i - 1]]

LEMMA LoopExists ==
    ASSUME NEW n \in Nat, NEW V, NEW init \in V, NEW step \in [1 .. n -> [V -> V]]
    PROVE  \E f : IsLoop(f, n, V, init, step)
<1> USE DEF IsLoop
<1> DEFINE A == {m \in 0 .. n : \E f : IsLoop(f, m, V, init, step)}
<1>1. 0 \in A
  <2> DEFINE f == [i \in 0 .. 0 |-> init]
  <2>1. f \in [0 .. 0 -> V] /\ f[0] = init /\ 1 .. 0 = {} /\ 0 \in 0 .. n
    OBVIOUS
  <2> HIDE DEF f
  <2> QED BY <2>1
<1>2. ASSUME NEW m \in 1 .. n, m - 1 \in A PROVE m \in A
  <2>1. PICK f : IsLoop(f, m - 1, V, init, step)
    BY <1>2
  <2> DEFINE g == [i \in 0 .. m |-> IF i = m THEN step[m][f[m - 1]] ELSE f[i]]
  <2>2. f[m - 1] \in V /\ step[m] \in [V -> V]
    BY <2>1
  <2>3. g \in [0 .. m -> V] /\ g[0] = init
    BY <2>1, <2>2
  <2>4. ASSUME NEW i \in 1 .. m PROVE g[i] = step[i][g[i - 1]]
    <3>1. CASE i = m
      BY <3>1
    <3>2. CASE i # m
      <4>1. i \in 1 .. m - 1 /\ i - 1 \in 0 .. m /\ i - 1 # m /\ i \in 0 .. m
        BY <3>2
      <4>2. g[i] = f[i] /\ g[i - 1] = f[i - 1]
        BY <3>2, <4>1
      <4> HIDE DEF g
      <4> QED BY <2>1, <4>1, <4>2
    <3> QED BY <3>1, <3>2
  <2> HIDE DEF g
  <2>5. IsLoop(g, m, V, init, step) /\ m \in 0 .. n
    BY <2>3, <2>4
  <2> HIDE DEF IsLoop
  <2> QED BY <2>5
<1> HIDE DEF A
<1>3. n \in A
  <2>1. \A m \in 1 .. n : m - 1 \in A => m \in A
    BY <1>2
  <2>2. 0 .. n \subseteq A
    BY <1>1, <2>1, IntervalInduction
  <2> QED BY <2>2
<1> HIDE DEF IsLoop
<1> QED BY <1>3 DEF A

\* A left fold is a loop: the table that it computes on the subsets of 1 .. n
\* holds the loop's states at the sets 1 .. i.
Greatest(s) == CHOOSE x \in s : \A y \in s : x >= y

IsFold(g, n, V, init, step) ==
    /\ g \in [SUBSET (1 .. n) -> V]
    /\ g = [s \in SUBSET (1 .. n) |->
               IF s = {} THEN init ELSE step[Greatest(s)][g[s \ {Greatest(s)}]]]

LEMMA GreatestIs ==
    ASSUME NEW n \in Nat, NEW s \in SUBSET (1 .. n), n \in s
    PROVE  Greatest(s) = n
<1>1. \A x \in s : x <= n /\ (x >= n => x = n)
  OBVIOUS
<1>2. \E x \in s : \A y \in s : x >= y
  BY <1>1
<1>3. Greatest(s) \in s /\ \A y \in s : Greatest(s) >= y
  BY <1>2, Zenon DEF Greatest
<1> QED BY <1>1, <1>3

LEMMA FoldExists ==
    ASSUME NEW n \in Nat, NEW V, NEW init \in V, NEW step \in [1 .. n -> [V -> V]]
    PROVE  \E g : IsFold(g, n, V, init, step)
<1> DEFINE A == {m \in 0 .. n : \E g : IsFold(g, m, V, init, step)}
<1>1. 0 \in A
  <2> DEFINE g == [s \in SUBSET (1 .. 0) |-> init]
  <2>1. \A s \in SUBSET (1 .. 0) : s = {}
    OBVIOUS
  <2>2. g = [s \in SUBSET (1 .. 0) |->
               IF s = {} THEN init ELSE step[Greatest(s)][g[s \ {Greatest(s)}]]]
    BY <2>1
  <2> HIDE DEF g
  <2>3. g \in [SUBSET (1 .. 0) -> V] /\ 0 \in 0 .. n
    BY <2>2
  <2>4. IsFold(g, 0, V, init, step)
    BY <2>2, <2>3 DEF IsFold
  <2> QED BY <2>3, <2>4
<1>2. ASSUME NEW m \in 1 .. n, m - 1 \in A PROVE m \in A
  <2>1. PICK g : IsFold(g, m - 1, V, init, step)
    BY <1>2
  <2> DEFINE h == [s \in SUBSET (1 .. m) |->
                     IF m \in s THEN step[m][g[s \ {m}]] ELSE g[s]]
             last(s) == IF s = {} THEN init ELSE step[Greatest(s)][h[s \ {Greatest(s)}]]
  <2>2. ASSUME NEW s \in SUBSET (1 .. m) PROVE h[s] = last(s)
    <3>1. CASE m \in s
      <4>1. Greatest(s) = m
        BY <3>1, GreatestIs
      <4>2. s \ {m} \in SUBSET (1 .. m) /\ m \notin s \ {m} /\ s # {}
        BY <3>1
      <4> QED BY <3>1, <4>1, <4>2
    <3>2. CASE m \notin s
      <4>1. s \in SUBSET (1 .. m - 1)
        BY <3>2
      <4>2. g[s] = IF s = {} THEN init ELSE step[Greatest(s)][g[s \ {Greatest(s)}]]
        BY <2>1, <4>1 DEF IsFold
      <4>3. h[s] = g[s] /\ h[s \ {Greatest(s)}] = g[s \ {Greatest(s)}]
        BY <3>2
      <4> HIDE DEF h
      <4> QED BY <4>2, <4>3
    <3> QED BY <3>1, <3>2
  <2>3. h = [s \in SUBSET (1 .. m) |-> h[s]]
    OBVIOUS
  <2>7. h \in [SUBSET (1 .. m) -> V]
    <3>1. ASSUME NEW s \in SUBSET (1 .. m) PROVE h[s] \in V
      <4>1. CASE m \in s
        <5>1. s \ {m} \in SUBSET (1 .. m - 1) /\ step[m] \in [V -> V]
          OBVIOUS
        <5>2. g[s \ {m}] \in V
          BY <2>1, <5>1 DEF IsFold
        <5> QED BY <4>1, <5>1, <5>2
      <4>2. CASE m \notin s
        <5>1. s \in SUBSET (1 .. m - 1)
          BY <4>2
        <5>2. g[s] \in V
          BY <2>1, <5>1 DEF IsFold
        <5> QED BY <4>2, <5>2
      <4> QED BY <4>1, <4>2
    <3> HIDE DEF h
    <3> QED BY <2>3, <3>1
  <2> HIDE DEF h
  <2>4. h = [s \in SUBSET (1 .. m) |-> last(s)]
    <3> HIDE DEF last
    <3> QED BY <2>2, <2>3
  <2>5. IsFold(h, m, V, init, step)
    BY <2>7, <2>4 DEF IsFold
  <2>6. m \in 0 .. n
    OBVIOUS
  <2> QED BY <2>5, <2>6
<1> HIDE DEF A
<1>3. n \in A
  <2>1. \A m \in 1 .. n : m - 1 \in A => m \in A
    BY <1>2
  <2>2. 0 .. n \subseteq A
    BY <1>1, <2>1, IntervalInduction
  <2> QED BY <2>2
<1> QED BY <1>3 DEF A

\* The greatest elements of the sets that a left fold goes through.
LEMMA InitialIntervals ==
    ASSUME NEW n \in Nat
    PROVE  /\ \A i \in 1 .. n : /\ 1 .. i \in SUBSET (1 .. n) /\ 1 .. i # {}
                                /\ Greatest(1 .. i) = i
                                /\ (1 .. i) \ {Greatest(1 .. i)} = 1 .. i - 1
           /\ \A s \in SUBSET (1 .. n) : s # {} => Greatest(s) \in s
<1>1. ASSUME NEW i \in 1 .. n
      PROVE  /\ 1 .. i \in SUBSET (1 .. n) /\ 1 .. i # {}
             /\ Greatest(1 .. i) = i
             /\ (1 .. i) \ {Greatest(1 .. i)} = 1 .. i - 1
  <2>1. i \in Nat /\ i \in 1 .. i /\ 1 .. i \in SUBSET (1 .. i)
    OBVIOUS
  <2>2. Greatest(1 .. i) = i
    BY <2>1, GreatestIs
  <2>3. (1 .. i) \ {i} = 1 .. i - 1 /\ 1 .. i \in SUBSET (1 .. n)
    OBVIOUS
  <2> QED BY <2>1, <2>2, <2>3
<1>2. ASSUME NEW s \in SUBSET (1 .. n), s # {} PROVE Greatest(s) \in s
  <2> DEFINE A == {n - x : x \in s}
  <2>1. A \subseteq Nat /\ A # {}
    <3>1. \A x \in s : n - x \in Nat
      OBVIOUS
    <3>2. PICK x \in s : TRUE
      BY <1>2
    <3>3. n - x \in A
      OBVIOUS
    <3> QED BY <3>1, <3>3
  <2>2. PICK m \in A : \A y \in A : m <= y
    BY <2>1, LeastElement
  <2>3. PICK x \in s : m = n - x
    BY <2>2
  <2>4. \A y \in s : n - x <= n - y
    BY <2>2, <2>3
  <2>5. \A y \in s : x >= y
    BY <2>4
  <2> QED BY <2>5, Zenon DEF Greatest
<1> QED BY <1>1, <1>2

IsFolding(g, n, V, init, step) ==
    /\ g[{}] = init
    /\ \A i \in 1 .. n : g[1 .. i - 1] \in V => g[1 .. i] = step[i][g[1 .. i - 1]]

LEMMA FoldIsLoop ==
    ASSUME NEW n \in Nat, NEW V, NEW init \in V, NEW step \in [1 .. n -> [V -> V]],
           NEW g, IsFolding(g, n, V, init, step)
    PROVE  \E f : IsLoop(f, n, V, init, step) /\ f[n] = g[1 .. n]
<1> DEFINE f == [i \in 0 .. n |-> g[1 .. i]]
<1>1. f[0] = init
  <2>1. 1 .. 0 = {}
    OBVIOUS
  <2> QED BY <2>1 DEF IsFolding
<1>2. ASSUME NEW i \in 1 .. n, f[i - 1] \in V PROVE f[i] = step[i][f[i - 1]]
  <2>1. f[i] = g[1 .. i] /\ f[i - 1] = g[1 .. i - 1]
    OBVIOUS
  <2> QED BY <1>2, <2>1 DEF IsFolding
<1>3. \A i \in 0 .. n : f[i] \in V
  <2> DEFINE A == {i \in 0 .. n : f[i] \in V}
  <2> HIDE DEF f
  <2>1. 0 \in A
    BY <1>1
  <2>2. ASSUME NEW i \in 1 .. n, i - 1 \in A PROVE i \in A
    BY <1>2, <2>2
  <2>3. \A i \in 1 .. n : i - 1 \in A => i \in A
    BY <2>2
  <2> HIDE DEF A
  <2>4. 0 .. n \subseteq A
    BY <2>1, <2>3, IntervalInduction
  <2> QED BY <2>4 DEF A
<1>4. f \in [0 .. n -> V] /\ f[n] = g[1 .. n]
  BY <1>3
<1> HIDE DEF f
<1>5. \A i \in 1 .. n : i - 1 \in 0 .. n
  OBVIOUS
<1>6. IsLoop(f, n, V, init, step)
  BY <1>1, <1>2, <1>3, <1>4, <1>5 DEF IsLoop
<1> QED BY <1>4, <1>6

-----------------------------------------------------------------------------
\* Congruence modulo m.
Congruent(m, a, b) == \E k \in Int : a - b = m * k

\* A multiple of m that is closer to zero than m is zero.
LEMMA SmallMultipleOf ==
    ASSUME NEW m \in Nat \ {0}, NEW d \in Int, -m < d, d < m, NEW k \in Int, d = m * k
    PROVE  d = 0
<1>1. CASE k = 0
  BY <1>1
<1>2. ASSUME k >= 1 PROVE m * k >= m
  BY <1>2
<1>3. ASSUME k <= -1 PROVE m * k <= -m
  BY <1>3
<1> QED BY <1>1, <1>2, <1>3

\* Division with remainder.
LEMMA Remainder ==
    ASSUME NEW a \in Int, NEW m \in Nat \ {0}
    PROVE  a % m \in 0 .. m - 1 /\ \E q \in Int : a = m * q + (a % m)
<1>1. a = m * (a \div m) + (a % m) /\ a \div m \in Int /\ a % m \in 0 .. m - 1
  OBVIOUS
<1> QED BY <1>1

LEMMA ResidueOf ==
    ASSUME NEW m \in Nat \ {0}, NEW a \in Int
    PROVE  a % m \in 0 .. m - 1 /\ Congruent(m, a, a % m)
<1> DEFINE r == a % m
<1>1. r \in 0 .. m - 1 /\ \E q \in Int : a = m * q + r
  BY Remainder
<1> HIDE DEF r
<1>2. PICK q \in Int : a = m * q + r
  BY <1>1
<1>3. m * q \in Int /\ r \in Int
  BY <1>1
<1>4. a - r = m * q
  BY <1>2, <1>3
<1>5. r \in 0 .. m - 1 /\ Congruent(m, a, r)
  BY <1>1, <1>4 DEF Congruent
<1> QED BY <1>5 DEF r

\* Congruence is compatible with sums and products.
LEMMA CongruentFacts ==
    ASSUME NEW m \in Nat \ {0}, NEW a \in Int, NEW b \in Int
    PROVE  /\ Congruent(m, a, a)
           /\ Congruent(m, a, b) => Congruent(m, b, a)
           /\ \A c \in Int : Congruent(m, a, b) /\ Congruent(m, b, c) => Congruent(m, a, c)
           /\ \A c \in Int, d \in Int :
                 Congruent(m, a, b) /\ Congruent(m, c, d)
                     => Congruent(m, a + c, b + d) /\ Congruent(m, a * c, b * d)
<1>1. Congruent(m, a, a)
  <2>1. a - a = m * 0
    OBVIOUS
  <2> QED BY <2>1 DEF Congruent
<1>2. ASSUME Congruent(m, a, b) PROVE Congruent(m, b, a)
  <2>1. PICK k \in Int : a - b = m * k
    BY <1>2 DEF Congruent
  <2>2. b - a = m * (-k)
    BY <2>1
  <2> QED BY <2>2 DEF Congruent
<1>3. ASSUME NEW c \in Int, Congruent(m, a, b), Congruent(m, b, c)
      PROVE  Congruent(m, a, c)
  <2>1. PICK k \in Int, l \in Int : a - b = m * k /\ b - c = m * l
    BY <1>3 DEF Congruent
  <2>2. a - c = m * (k + l)
    BY <2>1
  <2> QED BY <2>2 DEF Congruent
<1>4. ASSUME NEW c \in Int, NEW d \in Int, Congruent(m, a, b), Congruent(m, c, d)
      PROVE  Congruent(m, a + c, b + d) /\ Congruent(m, a * c, b * d)
  <2>1. PICK k \in Int, l \in Int : a - b = m * k /\ c - d = m * l
    BY <1>4 DEF Congruent
  <2>2. (a + c) - (b + d) = m * (k + l)
    BY <2>1
  <2>3. a = b + m * k /\ c = d + m * l
    BY <2>1
  <2>4. a * c - b * d = m * (k * d + l * b + m * (k * l))
    BY <2>3
  <2>5. k + l \in Int /\ k * d + l * b + m * (k * l) \in Int
    OBVIOUS
  <2> QED BY <2>2, <2>4, <2>5 DEF Congruent
<1> QED BY <1>1, <1>2, <1>3, <1>4

LEMMA CongruentTransitive ==
    ASSUME NEW m \in Nat \ {0}, NEW a \in Int, NEW b \in Int, NEW c \in Int,
           Congruent(m, a, b), Congruent(m, b, c)
    PROVE  Congruent(m, a, c)
  BY CongruentFacts

LEMMA CongruentSums ==
    ASSUME NEW m \in Nat \ {0}, NEW a \in Int, NEW b \in Int, NEW c \in Int, NEW d \in Int,
           Congruent(m, a, b), Congruent(m, c, d)
    PROVE  a + c \in Int /\ b + d \in Int /\ Congruent(m, a + c, b + d)
<1>1. a + c \in Int /\ b + d \in Int
  OBVIOUS
<1>2. Congruent(m, a + c, b + d)
  BY CongruentFacts
<1> QED BY <1>1, <1>2

LEMMA CongruentProducts ==
    ASSUME NEW m \in Nat \ {0}, NEW a \in Int, NEW b \in Int, NEW c \in Int, NEW d \in Int,
           Congruent(m, a, b), Congruent(m, c, d)
    PROVE  a * c \in Int /\ b * d \in Int /\ Congruent(m, a * c, b * d)
<1>1. a * c \in Int /\ b * d \in Int
  OBVIOUS
<1>2. Congruent(m, a * c, b * d)
  BY CongruentFacts
<1> QED BY <1>1, <1>2

LEMMA CongruentCancel ==
    ASSUME NEW m \in Nat \ {0}, NEW a \in Int, NEW b \in Int, NEW c \in Int,
           Congruent(m, a + b, c + b)
    PROVE  Congruent(m, a, c)
<1>1. PICK k \in Int : (a + b) - (c + b) = m * k
  BY DEF Congruent
<1>2. (a + b) - (c + b) = a - c
  OBVIOUS
<1>3. a - c = m * k
  BY <1>1, <1>2
<1> QED BY <1>3 DEF Congruent

LEMMA SameRemainder ==
    ASSUME NEW m \in Nat \ {0}, NEW a \in Int, NEW b \in Int
    PROVE  a % m = b % m <=> Congruent(m, a, b)
<1> DEFINE r == a % m
           s == b % m
<1>1. r \in 0 .. m - 1 /\ s \in 0 .. m - 1 /\ Congruent(m, a, r) /\ Congruent(m, b, s)
  BY ResidueOf
<1>2. r \in Int /\ s \in Int /\ r - s \in Int /\ -m < r - s /\ r - s < m
  BY <1>1
<1> HIDE DEF r, s
<1>3. ASSUME r = s PROVE Congruent(m, a, b)
  BY <1>1, <1>2, <1>3, CongruentFacts
<1>4. ASSUME Congruent(m, a, b) PROVE r = s
  <2>1. Congruent(m, r, s)
    BY <1>1, <1>2, <1>4, CongruentFacts
  <2>2. r - s = 0
    BY <2>1, <1>2, SmallMultipleOf DEF Congruent
  <2> QED BY <1>2, <2>2
<1> QED BY <1>3, <1>4 DEF r, s

\* Residues are equal if they are congruent.
LEMMA ResiduesDiffer ==
    ASSUME NEW m \in Nat \ {0}, NEW a \in 0 .. m - 1, NEW b \in 0 .. m - 1,
           Congruent(m, a, b)
    PROVE  a = b
<1>1. a \in Int /\ b \in Int /\ -m < a - b /\ a - b < m
  OBVIOUS
<1>2. a - b = 0
  BY <1>1, SmallMultipleOf DEF Congruent
<1> QED BY <1>1, <1>2

-----------------------------------------------------------------------------
\* Sums and products of the first i of n integers.
IsSums(r, n, f) ==
    r \in [0 .. n -> Int] /\ r[0] = 0 /\ \A i \in 1 .. n : r[i] = r[i - 1] + f[i]

Sums(n, f) == CHOOSE r : IsSums(r, n, f)

IsProducts(r, n, f) ==
    r \in [0 .. n -> Int] /\ r[0] = 1 /\ \A i \in 1 .. n : r[i] = r[i - 1] * f[i]

Products(n, f) == CHOOSE r : IsProducts(r, n, f)

LEMMA SumsAre ==
    ASSUME NEW n \in Nat, NEW f \in [1 .. n -> Int]
    PROVE  IsSums(Sums(n, f), n, f)
<1> DEFINE step == [i \in 1 .. n |-> [v \in Int |-> v + f[i]]]
<1>1. step \in [1 .. n -> [Int -> Int]]
  OBVIOUS
<1>2. \A i \in 1 .. n : \A v \in Int : step[i][v] = v + f[i]
  OBVIOUS
<1> HIDE DEF step
<1>3. PICK r \in [0 .. n -> Int] : r[0] = 0 /\ \A i \in 1 .. n : r[i] = step[i][r[i - 1]]
  <2> DEFINE V == Int
             init == 0
  <2>1. step \in [1 .. n -> [V -> V]] /\ init \in V
    BY <1>1
  <2> HIDE DEF V, init
  <2>2. \E r : IsLoop(r, n, V, init, step)
    BY <2>1, LoopExists
  <2> QED BY <2>2 DEF V, init, IsLoop
<1>4. IsSums(r, n, f)
  <2>1. \A i \in 1 .. n : r[i - 1] \in Int
    OBVIOUS
  <2> QED BY <1>2, <1>3, <2>1 DEF IsSums
<1> QED BY <1>4, Zenon DEF Sums

LEMMA ProductsAre ==
    ASSUME NEW n \in Nat, NEW f \in [1 .. n -> Int]
    PROVE  IsProducts(Products(n, f), n, f)
<1> DEFINE step == [i \in 1 .. n |-> [v \in Int |-> v * f[i]]]
<1>1. step \in [1 .. n -> [Int -> Int]]
  OBVIOUS
<1>2. \A i \in 1 .. n : \A v \in Int : step[i][v] = v * f[i]
  OBVIOUS
<1> HIDE DEF step
<1>3. PICK r \in [0 .. n -> Int] : r[0] = 1 /\ \A i \in 1 .. n : r[i] = step[i][r[i - 1]]
  <2> DEFINE V == Int
             init == 1
  <2>1. step \in [1 .. n -> [V -> V]] /\ init \in V
    BY <1>1
  <2> HIDE DEF V, init
  <2>2. \E r : IsLoop(r, n, V, init, step)
    BY <2>1, LoopExists
  <2> QED BY <2>2 DEF V, init, IsLoop
<1>4. IsProducts(r, n, f)
  <2>1. \A i \in 1 .. n : r[i - 1] \in Int
    OBVIOUS
  <2> QED BY <1>2, <1>3, <2>1 DEF IsProducts
<1> QED BY <1>4, Zenon DEF Products

\* A sum that is reduced modulo m at every step is congruent to the sum.
IsReducedSums(r, m, n, f) ==
    /\ r \in [0 .. n -> Int] /\ r[0] = 0
    /\ \A i \in 1 .. n : r[i] = (r[i - 1] + f[i]) % m

LEMMA ReducedSums ==
    ASSUME NEW m \in Nat \ {0}, NEW n \in Nat, NEW f \in [1 .. n -> Int],
           NEW r, IsReducedSums(r, m, n, f)
    PROVE  \A i \in 0 .. n : Congruent(m, r[i], Sums(n, f)[i])
<1> DEFINE s == Sums(n, f)
           A == {i \in 0 .. n : Congruent(m, r[i], s[i])}
<1> HIDE DEF s
<1>1. s \in [0 .. n -> Int] /\ s[0] = 0 /\ \A i \in 1 .. n : s[i] = s[i - 1] + f[i]
  BY SumsAre DEF IsSums, s
<1>2. 0 \in A
  <2>1. Congruent(m, 0, 0) /\ 0 \in 0 .. n
    <3>1. 0 - 0 = m * 0
      OBVIOUS
    <3> QED BY <3>1 DEF Congruent
  <2>2. r[0] = 0
    BY DEF IsReducedSums
  <2> QED BY <1>1, <2>1, <2>2
<1>3. ASSUME NEW i \in 1 .. n, i - 1 \in A PROVE i \in A
  <2>1. /\ r[i - 1] \in Int /\ s[i - 1] \in Int /\ f[i] \in Int
        /\ r[i] \in Int /\ s[i] \in Int
    <3>1. r \in [0 .. n -> Int] /\ i - 1 \in 0 .. n /\ i \in 0 .. n
      BY DEF IsReducedSums
    <3> QED BY <1>1, <3>1
  <2>2. r[i - 1] + f[i] \in Int /\ s[i - 1] + f[i] \in Int
    BY <2>1
  <2>3. Congruent(m, r[i - 1], s[i - 1]) /\ Congruent(m, f[i], f[i])
    BY <1>3, <2>1, CongruentFacts
  <2>4. Congruent(m, r[i - 1] + f[i], s[i - 1] + f[i])
    BY <2>1, <2>3, CongruentFacts
  <2>5. Congruent(m, r[i - 1] + f[i], r[i])
    <3>1. r[i] = (r[i - 1] + f[i]) % m
      BY DEF IsReducedSums
    <3> QED BY <2>2, <3>1, ResidueOf
  <2>6. Congruent(m, r[i], r[i - 1] + f[i])
    BY <2>1, <2>2, <2>5, CongruentFacts
  <2>7. Congruent(m, r[i], s[i - 1] + f[i])
    <3> DEFINE u == r[i - 1] + f[i]
               w == s[i - 1] + f[i]
    <3>1. /\ Congruent(m, r[i], u) /\ Congruent(m, u, w)
          /\ r[i] \in Int /\ u \in Int /\ w \in Int
      BY <2>1, <2>2, <2>4, <2>6
    <3> HIDE DEF u, w
    <3>2. Congruent(m, r[i], w)
      BY <3>1, CongruentFacts
    <3> QED BY <3>2 DEF w
  <2> QED BY <1>1, <2>7
<1>4. 0 .. n \subseteq A
  <2>1. \A i \in 1 .. n : i - 1 \in A => i \in A
    BY <1>3
  <2> HIDE DEF A
  <2> QED BY <1>2, <2>1, IntervalInduction
<1> QED BY <1>4 DEF s

\* A product that is reduced modulo m at every step is congruent to the product.
IsReducedProducts(r, m, n, f) ==
    /\ r \in [0 .. n -> Int] /\ r[0] = 1
    /\ \A i \in 1 .. n : r[i] = (r[i - 1] * f[i]) % m

LEMMA ReducedProducts ==
    ASSUME NEW m \in Nat \ {0}, NEW n \in Nat, NEW f \in [1 .. n -> Int],
           NEW r, IsReducedProducts(r, m, n, f)
    PROVE  \A i \in 0 .. n : Congruent(m, r[i], Products(n, f)[i])
<1> DEFINE s == Products(n, f)
           A == {i \in 0 .. n : Congruent(m, r[i], s[i])}
<1> HIDE DEF s
<1>1. s \in [0 .. n -> Int] /\ s[0] = 1 /\ \A i \in 1 .. n : s[i] = s[i - 1] * f[i]
  BY ProductsAre DEF IsProducts, s
<1>2. 0 \in A
  <2>1. Congruent(m, 1, 1) /\ 0 \in 0 .. n
    <3>1. 1 - 1 = m * 0
      OBVIOUS
    <3> QED BY <3>1 DEF Congruent
  <2>2. r[0] = 1
    BY DEF IsReducedProducts
  <2> QED BY <1>1, <2>1, <2>2
<1>3. ASSUME NEW i \in 1 .. n, i - 1 \in A PROVE i \in A
  <2>1. /\ r[i - 1] \in Int /\ s[i - 1] \in Int /\ f[i] \in Int
        /\ r[i] \in Int /\ s[i] \in Int
    <3>1. r \in [0 .. n -> Int] /\ i - 1 \in 0 .. n /\ i \in 0 .. n
      BY DEF IsReducedProducts
    <3> QED BY <1>1, <3>1
  <2>2. r[i - 1] * f[i] \in Int /\ s[i - 1] * f[i] \in Int
    BY <2>1
  <2>3. Congruent(m, r[i - 1], s[i - 1]) /\ Congruent(m, f[i], f[i])
    BY <1>3, <2>1, CongruentFacts
  <2>4. Congruent(m, r[i - 1] * f[i], s[i - 1] * f[i])
    BY <2>1, <2>3, CongruentFacts
  <2>5. Congruent(m, r[i - 1] * f[i], r[i])
    <3>1. r[i] = (r[i - 1] * f[i]) % m
      BY DEF IsReducedProducts
    <3> QED BY <2>2, <3>1, ResidueOf
  <2>6. Congruent(m, r[i], r[i - 1] * f[i])
    BY <2>1, <2>2, <2>5, CongruentFacts
  <2>7. Congruent(m, r[i], s[i - 1] * f[i])
    <3> DEFINE u == r[i - 1] * f[i]
               w == s[i - 1] * f[i]
    <3>1. /\ Congruent(m, r[i], u) /\ Congruent(m, u, w)
          /\ r[i] \in Int /\ u \in Int /\ w \in Int
      BY <2>1, <2>2, <2>4, <2>6
    <3> HIDE DEF u, w
    <3>2. Congruent(m, r[i], w)
      BY <3>1, CongruentFacts
    <3> QED BY <3>2 DEF w
  <2> QED BY <1>1, <2>7
<1>4. 0 .. n \subseteq A
  <2>1. \A i \in 1 .. n : i - 1 \in A => i \in A
    BY <1>3
  <2> HIDE DEF A
  <2> QED BY <1>2, <2>1, IntervalInduction
<1> QED BY <1>4 DEF s

\* The products of the first k factors do not depend on the others.
LEMMA SamePrefix ==
    ASSUME NEW n \in Nat, NEW f \in [1 .. n -> Int], NEW k \in 0 .. n,
           NEW g \in [1 .. k -> Int], \A i \in 1 .. k : g[i] = f[i]
    PROVE  Products(k, g)[k] = Products(n, f)[k]
<1> DEFINE p == Products(n, f)
           q == Products(k, g)
           A == {i \in 0 .. k : q[i] = p[i]}
<1>1. p[0] = 1 /\ \A i \in 1 .. n : p[i] = p[i - 1] * f[i]
  BY ProductsAre DEF IsProducts
<1>2. q[0] = 1 /\ \A i \in 1 .. k : q[i] = q[i - 1] * g[i]
  <2>1. k \in Nat
    OBVIOUS
  <2> QED BY <2>1, ProductsAre DEF IsProducts
<1> HIDE DEF p, q
<1>3. 0 \in A
  BY <1>1, <1>2
<1>4. ASSUME NEW i \in 1 .. k, i - 1 \in A PROVE i \in A
  <2>1. i \in 1 .. n /\ q[i - 1] = p[i - 1] /\ g[i] = f[i]
    BY <1>4
  <2> QED BY <1>1, <1>2, <2>1
<1>5. k \in A
  <2>1. k \in Nat /\ \A i \in 1 .. k : i - 1 \in A => i \in A
    BY <1>4
  <2> HIDE DEF A
  <2>2. 0 .. k \subseteq A
    BY <1>3, <2>1, IntervalInduction
  <2> QED BY <2>1, <2>2
<1> QED BY <1>5 DEF p, q

\* Sums and products of congruent numbers are congruent.
LEMMA SameSums ==
    ASSUME NEW m \in Nat \ {0}, NEW n \in Nat,
           NEW f \in [1 .. n -> Int], NEW g \in [1 .. n -> Int],
           \A i \in 1 .. n : Congruent(m, f[i], g[i])
    PROVE  \A i \in 0 .. n : Congruent(m, Sums(n, f)[i], Sums(n, g)[i])
<1> DEFINE A == {i \in 0 .. n : Congruent(m, Sums(n, f)[i], Sums(n, g)[i])}
<1>1. IsSums(Sums(n, f), n, f) /\ IsSums(Sums(n, g), n, g)
  BY SumsAre
<1>2. 0 \in A
  <2>1. Congruent(m, 0, 0)
    BY CongruentFacts
  <2> QED BY <1>1, <2>1 DEF IsSums
<1>3. ASSUME NEW i \in 1 .. n, i - 1 \in A PROVE i \in A
  <2> DEFINE a == Sums(n, f)[i - 1]
             b == Sums(n, g)[i - 1]
  <2>1. /\ a \in Int /\ b \in Int /\ f[i] \in Int /\ g[i] \in Int
        /\ Sums(n, f)[i] = a + f[i] /\ Sums(n, g)[i] = b + g[i]
    BY <1>1 DEF IsSums
  <2>2. Congruent(m, a, b) /\ Congruent(m, f[i], g[i])
    BY <1>3
  <2> HIDE DEF a, b
  <2>3. Congruent(m, a + f[i], b + g[i])
    BY <2>1, <2>2, CongruentFacts
  <2> QED BY <2>1, <2>3
<1>4. \A i \in 1 .. n : i - 1 \in A => i \in A
  BY <1>3
<1> HIDE DEF A
<1>5. 0 .. n \subseteq A
  BY <1>2, <1>4, IntervalInduction
<1> QED BY <1>5 DEF A

LEMMA SameProducts ==
    ASSUME NEW m \in Nat \ {0}, NEW n \in Nat,
           NEW f \in [1 .. n -> Int], NEW g \in [1 .. n -> Int],
           \A i \in 1 .. n : Congruent(m, f[i], g[i])
    PROVE  \A i \in 0 .. n : Congruent(m, Products(n, f)[i], Products(n, g)[i])
<1> DEFINE A == {i \in 0 .. n : Congruent(m, Products(n, f)[i], Products(n, g)[i])}
<1>1. IsProducts(Products(n, f), n, f) /\ IsProducts(Products(n, g), n, g)
  BY ProductsAre
<1>2. 0 \in A
  <2>1. 1 - 1 = m * 0
    OBVIOUS
  <2>2. Congruent(m, 1, 1)
    BY <2>1 DEF Congruent
  <2> QED BY <1>1, <2>2 DEF IsProducts
<1>3. ASSUME NEW i \in 1 .. n, i - 1 \in A PROVE i \in A
  <2> DEFINE a == Products(n, f)[i - 1]
             b == Products(n, g)[i - 1]
  <2>1. /\ a \in Int /\ b \in Int /\ f[i] \in Int /\ g[i] \in Int
        /\ Products(n, f)[i] = a * f[i] /\ Products(n, g)[i] = b * g[i]
    BY <1>1 DEF IsProducts
  <2>2. Congruent(m, a, b) /\ Congruent(m, f[i], g[i])
    BY <1>3
  <2> HIDE DEF a, b
  <2>3. Congruent(m, a * f[i], b * g[i])
    BY <2>1, <2>2, CongruentFacts
  <2> QED BY <2>1, <2>3
<1>4. \A i \in 1 .. n : i - 1 \in A => i \in A
  BY <1>3
<1> HIDE DEF A
<1>5. 0 .. n \subseteq A
  BY <1>2, <1>4, IntervalInduction
<1> QED BY <1>5 DEF A

-----------------------------------------------------------------------------
\* The polynomials of n coefficients, the powers of x and the value at x.
Poly(n) == [1 .. n -> Int]

Powers(n, x) == Products(n, [i \in 1 .. n |-> x])

Terms(n, c, x) == [i \in 1 .. n |-> c[i] * Powers(n, x)[i - 1]]

Value(n, c, x) == Sums(n, Terms(n, c, x))[n]

LEMMA PowersAre ==
    ASSUME NEW n \in Nat, NEW x \in Int
    PROVE  /\ Powers(n, x) \in [0 .. n -> Int]
           /\ Powers(n, x)[0] = 1
           /\ \A i \in 1 .. n : Powers(n, x)[i] = Powers(n, x)[i - 1] * x
<1> DEFINE f == [i \in 1 .. n |-> x]
<1>1. f \in [1 .. n -> Int] /\ \A i \in 1 .. n : f[i] = x
  OBVIOUS
<1>2. Powers(n, x) = Products(n, f)
  BY DEF Powers
<1> HIDE DEF f
<1>3. IsProducts(Powers(n, x), n, f)
  BY <1>1, <1>2, ProductsAre
<1> QED BY <1>1, <1>3 DEF IsProducts

\* The values of the first i terms of a polynomial.
LEMMA PartialValues ==
    ASSUME NEW n \in Nat, NEW c \in Poly(n), NEW x \in Int
    PROVE  /\ Terms(n, c, x) \in [1 .. n -> Int]
           /\ Sums(n, Terms(n, c, x)) \in [0 .. n -> Int]
           /\ Sums(n, Terms(n, c, x))[0] = 0
           /\ \A i \in 1 .. n : Sums(n, Terms(n, c, x))[i] =
                 Sums(n, Terms(n, c, x))[i - 1] + c[i] * Powers(n, x)[i - 1]
           /\ Value(n, c, x) \in Int
<1>1. \A i \in 1 .. n : c[i] \in Int /\ Powers(n, x)[i - 1] \in Int
  <2>1. Powers(n, x) \in [0 .. n -> Int]
    BY PowersAre
  <2>2. \A i \in 1 .. n : i - 1 \in 0 .. n
    OBVIOUS
  <2> QED BY <2>1, <2>2 DEF Poly
<1>2. \A i \in 1 .. n : c[i] * Powers(n, x)[i - 1] \in Int
  BY <1>1
<1>3. /\ Terms(n, c, x) \in [1 .. n -> Int]
      /\ \A i \in 1 .. n : Terms(n, c, x)[i] = c[i] * Powers(n, x)[i - 1]
  BY <1>2 DEF Terms
<1>4. IsSums(Sums(n, Terms(n, c, x)), n, Terms(n, c, x))
  BY <1>3, SumsAre
<1>5. Sums(n, Terms(n, c, x)) \in [0 .. n -> Int]
  BY <1>4 DEF IsSums
<1>6. Value(n, c, x) \in Int
  BY <1>5 DEF Value
<1> QED BY <1>3, <1>4, <1>5, <1>6 DEF IsSums

\* Polynomials with congruent coefficients have congruent values.
LEMMA SameValues ==
    ASSUME NEW m \in Nat \ {0}, NEW n \in Nat, NEW c \in Poly(n), NEW d \in Poly(n),
           NEW x \in Int, \A i \in 1 .. n : Congruent(m, c[i], d[i])
    PROVE  Congruent(m, Value(n, c, x), Value(n, d, x))
<1>1. Terms(n, c, x) \in [1 .. n -> Int] /\ Terms(n, d, x) \in [1 .. n -> Int]
  BY PartialValues
<1>2. ASSUME NEW i \in 1 .. n PROVE Congruent(m, Terms(n, c, x)[i], Terms(n, d, x)[i])
  <2> DEFINE w == Powers(n, x)[i - 1]
  <2>1. w \in Int /\ c[i] \in Int /\ d[i] \in Int
    <3>1. Powers(n, x) \in [0 .. n -> Int]
      BY PowersAre
    <3>2. i - 1 \in 0 .. n
      OBVIOUS
    <3> QED BY <3>1, <3>2 DEF Poly
  <2>2. Terms(n, c, x)[i] = c[i] * w /\ Terms(n, d, x)[i] = d[i] * w
    BY DEF Terms
  <2> HIDE DEF w
  <2>3. Congruent(m, w, w)
    BY <2>1, CongruentFacts
  <2>4. Congruent(m, c[i] * w, d[i] * w)
    BY <2>1, <2>3, CongruentFacts
  <2> QED BY <2>2, <2>4
<1>3. \A i \in 0 .. n :
         Congruent(m, Sums(n, Terms(n, c, x))[i], Sums(n, Terms(n, d, x))[i])
  BY <1>1, <1>2, SameSums
<1> QED BY <1>3 DEF Value

\* The value of p + k d.
LEMMA CombinedValue ==
    ASSUME NEW n \in Nat, NEW p \in Poly(n), NEW d \in Poly(n), NEW k \in Int
    PROVE  /\ [i \in 1 .. n |-> p[i] + k * d[i]] \in Poly(n)
           /\ \A x \in Int : Value(n, [i \in 1 .. n |-> p[i] + k * d[i]], x) =
                 Value(n, p, x) + k * Value(n, d, x)
<1> DEFINE q == [i \in 1 .. n |-> p[i] + k * d[i]]
<1>1. \A i \in 1 .. n : p[i] \in Int /\ d[i] \in Int /\ q[i] = p[i] + k * d[i]
  BY DEF Poly
<1>2. q \in Poly(n)
  BY <1>1 DEF Poly
<1> HIDE DEF q
<1>3. ASSUME NEW x \in Int PROVE Value(n, q, x) = Value(n, p, x) + k * Value(n, d, x)
  <2> DEFINE vp == Sums(n, Terms(n, p, x))
             vd == Sums(n, Terms(n, d, x))
             vq == Sums(n, Terms(n, q, x))
             w == Powers(n, x)
             A == {i \in 0 .. n : vq[i] = vp[i] + k * vd[i]}
  <2>1. /\ vp \in [0 .. n -> Int] /\ vp[0] = 0
        /\ \A i \in 1 .. n : vp[i] = vp[i - 1] + p[i] * w[i - 1]
    BY PartialValues
  <2>2. /\ vd \in [0 .. n -> Int] /\ vd[0] = 0
        /\ \A i \in 1 .. n : vd[i] = vd[i - 1] + d[i] * w[i - 1]
    BY PartialValues
  <2>3. /\ vq \in [0 .. n -> Int] /\ vq[0] = 0
        /\ \A i \in 1 .. n : vq[i] = vq[i - 1] + q[i] * w[i - 1]
    BY <1>2, PartialValues
  <2>4. w \in [0 .. n -> Int]
    BY PowersAre
  <2>5. Value(n, p, x) = vp[n] /\ Value(n, d, x) = vd[n] /\ Value(n, q, x) = vq[n]
    BY DEF Value
  <2> HIDE DEF vp, vd, vq, w
  <2>6. 0 \in A
    BY <2>1, <2>2, <2>3
  <2>7. ASSUME NEW i \in 1 .. n, i - 1 \in A PROVE i \in A
    <3> DEFINE a == vp[i - 1]  b == vd[i - 1]  z == w[i - 1]  e == p[i]  f == d[i]
    <3>1. a \in Int /\ b \in Int /\ z \in Int /\ e \in Int /\ f \in Int
      BY <1>1, <2>1, <2>2, <2>4
    <3>2. /\ vq[i] = (a + k * b) + (e + k * f) * z
          /\ vp[i] = a + e * z /\ vd[i] = b + f * z
      BY <1>1, <2>1, <2>2, <2>3, <2>7
    <3> HIDE DEF a, b, z, e, f
    <3>3. (a + k * b) + (e + k * f) * z = (a + e * z) + k * (b + f * z)
      BY <3>1
    <3> QED BY <3>2, <3>3
  <2>8. \A i \in 1 .. n : i - 1 \in A => i \in A
    BY <2>7
  <2> HIDE DEF A
  <2>9. 0 .. n \subseteq A
    BY <2>6, <2>8, IntervalInduction
  <2> QED BY <2>5, <2>9 DEF A
<1> QED BY <1>2, <1>3 DEF q

\* A polynomial's value at zero is its first coefficient, and a constant has
\* that value everywhere.
LEMMA ValueAtZero ==
    ASSUME NEW n \in Nat \ {0}, NEW c \in Poly(n), NEW x \in Int,
           x = 0 \/ \A i \in 2 .. n : c[i] = 0
    PROVE  Value(n, c, x) = c[1]
<1> DEFINE v == Sums(n, Terms(n, c, x))
           w == Powers(n, x)
           A == {i \in 0 .. n : i = 0 \/ v[i] = c[1]}
<1>1. /\ v \in [0 .. n -> Int] /\ v[0] = 0
      /\ \A i \in 1 .. n : v[i] = v[i - 1] + c[i] * w[i - 1]
  BY PartialValues
<1>2. w \in [0 .. n -> Int] /\ w[0] = 1
  BY PowersAre
<1>3. \A i \in 1 .. n : w[i] = w[i - 1] * x
  BY PowersAre
<1>4. Value(n, c, x) = v[n] /\ \A i \in 1 .. n : c[i] \in Int
  BY DEF Value, Poly
<1> HIDE DEF v, w
<1>5. 0 \in A
  OBVIOUS
<1>6. ASSUME NEW i \in 1 .. n, i - 1 \in A PROVE i \in A
  <2>1. CASE i = 1
    <3>1. v[1] = 0 + c[1] * 1
      BY <1>1, <1>2, <2>1
    <3> QED BY <1>4, <2>1, <3>1
  <2>2. CASE i # 1
    <3>1. i \in 2 .. n /\ i - 1 \in 1 .. n /\ (i - 1) - 1 \in 0 .. n
      BY <2>2
    <3>2. v[i] = c[1] + c[i] * w[i - 1]
      BY <1>1, <1>6, <2>2
    <3>3. c[i] * w[i - 1] = 0
      <4>1. w[i - 1] = w[(i - 1) - 1] * x /\ w[(i - 1) - 1] \in Int /\ w[i - 1] \in Int
        <5> DEFINE j == i - 1
        <5>1. j \in 1 .. n /\ j \in 0 .. n /\ j - 1 \in 0 .. n
          BY <3>1
        <5> HIDE DEF j
        <5>2. w[j] = w[j - 1] * x /\ w[j - 1] \in Int /\ w[j] \in Int
          BY <1>2, <1>3, <5>1
        <5> QED BY <5>2 DEF j
      <4>2. c[i] \in Int
        BY <1>4
      <4>3. CASE x = 0
        BY <4>1, <4>2, <4>3
      <4>4. CASE c[i] = 0
        BY <4>1, <4>4
      <4> QED BY <3>1, <4>3, <4>4
    <3>4. c[1] \in Int
      BY <1>4
    <3> QED BY <3>2, <3>3, <3>4
  <2> QED BY <2>1, <2>2
<1>7. \A i \in 1 .. n : i - 1 \in A => i \in A
  BY <1>6
<1> HIDE DEF A
<1>8. 0 .. n \subseteq A
  BY <1>5, <1>7, IntervalInduction
<1>9. n \in A /\ n # 0
  BY <1>8
<1> QED BY <1>4, <1>9 DEF A

\* The value of (a - b x) d, where the product has no more coefficients.
Times(n, d, a, b) == [i \in 1 .. n |-> a * d[i] - b * (IF i = 1 THEN 0 ELSE d[i - 1])]

LEMMA TimesValue ==
    ASSUME NEW n \in Nat \ {0}, NEW d \in Poly(n), NEW a \in Int, NEW b \in Int,
           b = 0 \/ d[n] = 0
    PROVE  /\ Times(n, d, a, b) \in Poly(n)
           /\ \A x \in Int : Value(n, Times(n, d, a, b), x) = (a - b * x) * Value(n, d, x)
<1> DEFINE q == Times(n, d, a, b)
           low(i) == IF i = 1 THEN 0 ELSE d[i - 1]
<1>1. \A i \in 1 .. n : d[i] \in Int /\ low(i) \in Int /\ q[i] = a * d[i] - b * low(i)
  BY DEF Poly, Times
<1>2. q \in Poly(n)
  <2>1. \A i \in 1 .. n : a * d[i] - b * low(i) \in Int
    BY <1>1
  <2> QED BY <2>1 DEF Poly, Times
<1> HIDE DEF q
<1>3. ASSUME NEW x \in Int PROVE Value(n, q, x) = (a - b * x) * Value(n, d, x)
  <2> DEFINE vd == Sums(n, Terms(n, d, x))
             vq == Sums(n, Terms(n, q, x))
             w == Powers(n, x)
             A == {i \in 0 .. n : i = 0 \/ vq[i] = a * vd[i] - b * (x * vd[i - 1])}
  <2>1. /\ vd \in [0 .. n -> Int] /\ vd[0] = 0
        /\ \A i \in 1 .. n : vd[i] = vd[i - 1] + d[i] * w[i - 1]
    BY PartialValues
  <2>2. /\ vq \in [0 .. n -> Int] /\ vq[0] = 0
        /\ \A i \in 1 .. n : vq[i] = vq[i - 1] + q[i] * w[i - 1]
    BY <1>2, PartialValues
  <2>3. w \in [0 .. n -> Int] /\ w[0] = 1
    BY PowersAre
  <2>4. \A i \in 1 .. n : w[i] = w[i - 1] * x
    BY PowersAre
  <2>5. Value(n, d, x) = vd[n] /\ Value(n, q, x) = vq[n]
    BY DEF Value
  <2> HIDE DEF vd, vq, w
  <2>6. 0 \in A
    OBVIOUS
  <2>7. ASSUME NEW i \in 1 .. n, i - 1 \in A PROVE i \in A
    <3>1. CASE i = 1
      <4>1. vq[1] = 0 + (a * d[1] - b * 0) * 1 /\ vd[1] = 0 + d[1] * 1 /\ d[1] \in Int
        BY <1>1, <2>1, <2>2, <2>3, <3>1
      <4>2. vq[1] = a * vd[1] - b * (x * vd[0])
        BY <2>1, <4>1
      <4> QED BY <3>1, <4>2
    <3>2. CASE i # 1
      <4> DEFINE j == i - 1
                 u == vd[j - 1]  e == d[i]  f == d[j]  z == w[j - 1]
      <4>1. j \in 1 .. n /\ j - 1 \in 0 .. n /\ j # 0 /\ j = i - 1
        BY <3>2
      <4>2. low(i) = d[j]
        BY <3>2
      <4> HIDE DEF j, low
      <4>3. u \in Int /\ e \in Int /\ f \in Int /\ z \in Int
        BY <1>1, <2>1, <2>3, <4>1
      <4>4. vd[j] = u + f * z /\ w[j] = z * x /\ vd[i] = vd[j] + e * w[j]
        BY <2>1, <2>4, <4>1
      <4>5. vq[j] = a * vd[j] - b * (x * u)
        BY <2>7, <4>1
      <4>6. vq[i] = vq[j] + (a * e - b * f) * w[j]
        BY <1>1, <2>2, <4>1, <4>2
      <4> HIDE DEF u, e, f, z
      <4>7. vq[i] = (a * (u + f * z) - b * (x * u)) + (a * e - b * f) * (z * x)
        BY <4>4, <4>5, <4>6
      <4>8. a * vd[i] - b * (x * vd[j]) = a * ((u + f * z) + e * (z * x)) - b * (x * (u + f * z))
        BY <4>4
      <4>9. vq[i] = a * vd[i] - b * (x * vd[j])
        BY <4>3, <4>7, <4>8
      <4> QED BY <4>1, <4>9
    <3> QED BY <3>1, <3>2
  <2>8. \A i \in 1 .. n : i - 1 \in A => i \in A
    BY <2>7
  <2> HIDE DEF A
  <2>9. 0 .. n \subseteq A
    BY <2>6, <2>8, IntervalInduction
  <2>10. vq[n] = a * vd[n] - b * (x * vd[n - 1])
    BY <2>9 DEF A
  <2> DEFINE y == vd[n - 1]
  <2>11. /\ y \in Int /\ d[n] \in Int /\ w[n - 1] \in Int
         /\ vd[n] = y + d[n] * w[n - 1] /\ vd[n] \in Int
    BY <1>1, <2>1, <2>3
  <2> HIDE DEF y
  <2>12. CASE b = 0
    BY <2>5, <2>10, <2>11, <2>12 DEF y
  <2>13. CASE d[n] = 0
    <3>1. vd[n] = y
      BY <2>11, <2>13
    <3>2. vq[n] = a * y - b * (x * y)
      BY <2>10, <3>1 DEF y
    <3>3. a * y - b * (x * y) = (a - b * x) * y
      BY <2>11
    <3> QED BY <2>5, <3>1, <3>2, <3>3
  <2> QED BY <2>12, <2>13
<1> QED BY <1>2, <1>3 DEF q

\* Division by x - a: the quotient of a polynomial whose coefficients vanish
\* above the l-th has those above the one before vanish.
IsQuotient(n, c, a, l, q, rem) ==
    /\ q \in Poly(n) /\ rem \in Int
    /\ \A i \in 1 .. n : i >= l => q[i] = 0
    /\ \A i \in 1 .. n : c[i] = (IF i = 1 THEN rem ELSE q[i - 1]) - a * q[i]
    /\ \A x \in Int : Value(n, c, x) = (x - a) * Value(n, q, x) + rem

LEMMA Division ==
    ASSUME NEW n \in Nat \ {0}, NEW c \in Poly(n), NEW a \in Int, NEW l \in 1 .. n,
           \A i \in 1 .. n : i > l => c[i] = 0
    PROVE  \E q, rem : IsQuotient(n, c, a, l, q, rem)
<1> DEFINE step == [j \in 1 .. n |-> [v \in Int |-> c[(n + 1) - j] + a * v]]
           V == Int
           init == 0
<1>0. \A i \in 1 .. n : c[i] \in Int
  BY DEF Poly
<1>1. ASSUME NEW j \in 1 .. n, NEW v \in Int PROVE c[(n + 1) - j] + a * v \in Int
  <2>1. (n + 1) - j \in 1 .. n
    OBVIOUS
  <2>2. c[(n + 1) - j] \in Int
    BY <1>0, <2>1
  <2> QED BY <2>2
<1>2. step \in [1 .. n -> [V -> V]] /\ init \in V
  BY <1>1
<1>3. \A j \in 1 .. n : \A v \in Int : step[j][v] = c[(n + 1) - j] + a * v
  OBVIOUS
<1> HIDE DEF step, V, init
\* From the last coefficient to the remainder.
<1>4. PICK f : IsLoop(f, n, V, init, step)
  BY <1>2, LoopExists
<1>5. f \in [0 .. n -> Int] /\ f[0] = 0
  BY <1>4 DEF IsLoop, V, init
<1>6. ASSUME NEW j \in 1 .. n PROVE f[j] = c[(n + 1) - j] + a * f[j - 1]
  <2>1. f[j] = step[j][f[j - 1]] /\ j - 1 \in 0 .. n
    BY <1>4 DEF IsLoop
  <2> QED BY <1>3, <1>5, <2>1
<1> DEFINE q == [i \in 1 .. n |-> f[n - i]]
           rem == f[n]
<1>7. q \in Poly(n) /\ rem \in Int
  <2>1. \A i \in 1 .. n : n - i \in 0 .. n
    OBVIOUS
  <2> QED BY <1>5, <2>1 DEF Poly
<1>8. ASSUME NEW i \in 1 .. n
      PROVE  c[i] = (IF i = 1 THEN rem ELSE q[i - 1]) - a * q[i]
  <2> DEFINE j == (n + 1) - i
  <2>1. j \in 1 .. n /\ (n + 1) - j = i /\ j - 1 = n - i /\ n - i \in 0 .. n
    OBVIOUS
  <2> HIDE DEF j
  <2>2. f[j] = c[i] + a * f[n - i] /\ f[n - i] \in Int /\ c[i] \in Int
    BY <1>0, <1>5, <1>6, <2>1
  <2>3. q[i] = f[n - i]
    OBVIOUS
  <2>4. f[j] = IF i = 1 THEN rem ELSE q[i - 1]
    <3>1. CASE i = 1
      BY <3>1 DEF j
    <3>2. CASE i # 1
      <4>1. i - 1 \in 1 .. n /\ n - (i - 1) = j
        BY <3>2 DEF j
      <4> QED BY <3>2, <4>1
    <3> QED BY <3>1, <3>2
  <2> HIDE DEF q, rem
  <2>5. c[i] = f[j] - a * q[i]
    BY <2>2, <2>3
  <2> QED BY <2>4, <2>5
<1> HIDE DEF q, rem
<1>9. \A i \in 1 .. n : i >= l => q[i] = 0
  <2> DEFINE A == {j \in 0 .. n : j <= n - l => f[j] = 0}
  <2>1. 0 \in A
    BY <1>5
  <2>2. ASSUME NEW j \in 1 .. n, j - 1 \in A PROVE j \in A
    <3> SUFFICES ASSUME j <= n - l PROVE f[j] = 0
      OBVIOUS
    <3>1. (n + 1) - j \in 1 .. n /\ (n + 1) - j > l /\ j - 1 <= n - l
      OBVIOUS
    <3>2. c[(n + 1) - j] = 0 /\ f[j - 1] = 0
      BY <2>2, <3>1
    <3> QED BY <1>6, <3>2
  <2>3. \A j \in 1 .. n : j - 1 \in A => j \in A
    BY <2>2
  <2> HIDE DEF A
  <2>4. 0 .. n \subseteq A
    BY <2>1, <2>3, IntervalInduction
  <2>5. ASSUME NEW i \in 1 .. n, i >= l PROVE q[i] = 0
    <3>1. n - i \in 0 .. n /\ n - i <= n - l
      BY <2>5
    <3>2. f[n - i] = 0
      BY <2>4, <3>1 DEF A
    <3> QED BY <3>2 DEF q
  <2> QED BY <2>5
<1>10. ASSUME NEW x \in Int PROVE Value(n, c, x) = (x - a) * Value(n, q, x) + rem
  <2> DEFINE t == Times(n, q, -a, -1)
             e == [i \in 1 .. n |-> IF i = 1 THEN rem ELSE 0]
             s == [i \in 1 .. n |-> t[i] + 1 * e[i]]
  <2>1. q[n] = 0 /\ -a \in Int /\ -1 \in Int
    BY <1>9
  <2>2. t \in Poly(n) /\ Value(n, t, x) = ((-a) - (-1) * x) * Value(n, q, x)
    <3>1. /\ Times(n, q, -a, -1) \in Poly(n)
          /\ \A y \in Int : Value(n, Times(n, q, -a, -1), y)
                               = ((-a) - (-1) * y) * Value(n, q, y)
      BY <1>7, <2>1, TimesValue
    <3> QED BY <3>1
  <2>3. e \in Poly(n) /\ e[1] = rem /\ \A i \in 2 .. n : e[i] = 0
    BY <1>7 DEF Poly
  <2>4. \A i \in 1 .. n : t[i] = (-a) * q[i] - (-1) * (IF i = 1 THEN 0 ELSE q[i - 1])
    BY DEF Times
  <2>5. \A i \in 1 .. n : e[i] = IF i = 1 THEN rem ELSE 0
    OBVIOUS
  <2>6. \A i \in 1 .. n : s[i] = t[i] + 1 * e[i]
    OBVIOUS
  <2>7. \A i \in 1 .. n : t[i] \in Int /\ e[i] \in Int
    BY <2>2, <2>3 DEF Poly
  <2> HIDE DEF t, e
  <2>8. Value(n, e, x) = rem
    BY <2>3, ValueAtZero
  <2>9. s \in Poly(n) /\ Value(n, s, x) = Value(n, t, x) + 1 * Value(n, e, x)
    <3>1. 1 \in Int
      OBVIOUS
    <3> QED BY <2>2, <2>3, <3>1, CombinedValue
  <2> HIDE DEF s
  <2>10. ASSUME NEW i \in 1 .. n PROVE s[i] = c[i]
    <3>1. q[i] \in Int /\ (i # 1 => q[i - 1] \in Int)
      BY <1>7 DEF Poly
    <3>2. s[i] = t[i] + e[i]
      BY <2>6, <2>7
    <3>3. t[i] = (IF i = 1 THEN 0 ELSE q[i - 1]) - a * q[i]
      BY <2>4, <3>1
    <3> QED BY <1>7, <1>8, <2>5, <3>1, <3>2, <3>3
  <2>11. s = c
    BY <2>9, <2>10 DEF Poly
  <2>12. Value(n, q, x) \in Int /\ Value(n, t, x) \in Int
    BY <1>7, <2>2, PartialValues
  <2>13. Value(n, c, x) = ((-a) - (-1) * x) * Value(n, q, x) + rem
    BY <1>7, <2>2, <2>8, <2>9, <2>11, <2>12
  <2>14. (-a) - (-1) * x = x - a
    OBVIOUS
  <2> QED BY <2>13, <2>14
<1>11. IsQuotient(n, c, a, l, q, rem)
  BY <1>7, <1>8, <1>9, <1>10 DEF IsQuotient
<1> QED BY <1>11

-----------------------------------------------------------------------------
\* Where a product vanishes only with a factor, a polynomial whose
\* coefficients vanish above the l-th has fewer than l roots or is zero.
NoZeroDivisorsMod(m) ==
    \A a, b \in Int : Congruent(m, a * b, 0) => Congruent(m, a, 0) \/ Congruent(m, b, 0)

LEMMA FewRoots ==
    ASSUME NEW m \in Nat \ {0}, NoZeroDivisorsMod(m), NEW n \in Nat \ {0},
           NEW xs \in [1 .. n -> Int],
           \A j, k \in 1 .. n : j # k => ~ Congruent(m, xs[j] - xs[k], 0),
           NEW c \in Poly(n), \A j \in 1 .. n : Congruent(m, Value(n, c, xs[j]), 0)
    PROVE  \A i \in 1 .. n : Congruent(m, c[i], 0)
<1> DEFINE Short(d, l) == \A i \in 1 .. n : i > l => d[i] = 0
           Roots(d, l) == \A j \in 1 .. l : Congruent(m, Value(n, d, xs[j]), 0)
           Zero(d) == \A i \in 1 .. n : Congruent(m, d[i], 0)
           A == {l \in 0 .. n : \A d \in Poly(n) : Short(d, l) /\ Roots(d, l) => Zero(d)}
<1>1. 0 \in A
  <2>1. 0 - 0 = m * 0
    OBVIOUS
  <2>2. Congruent(m, 0, 0)
    BY <2>1 DEF Congruent
  <2>3. ASSUME NEW d \in Poly(n), Short(d, 0) PROVE Zero(d)
    <3>1. \A i \in 1 .. n : d[i] = 0
      BY <2>3
    <3> QED BY <2>2, <3>1
  <2>4. 0 \in 0 .. n
    OBVIOUS
  <2> HIDE DEF Short, Roots, Zero
  <2> QED BY <2>3, <2>4
<1>2. ASSUME NEW l \in 1 .. n, l - 1 \in A PROVE l \in A
  <2> SUFFICES ASSUME NEW d \in Poly(n), Short(d, l), Roots(d, l) PROVE Zero(d)
    OBVIOUS
  <2> DEFINE a == xs[l]
  <2>0. l \in 1 .. n /\ a \in Int
    OBVIOUS
  <2> HIDE DEF a
  <2>q. PICK q, rem : IsQuotient(n, d, a, l, q, rem)
    BY <2>0, Division
  <2>1. /\ q \in Poly(n) /\ rem \in Int
        /\ \A i \in 1 .. n : i >= l => q[i] = 0
        /\ \A i \in 1 .. n : d[i] = (IF i = 1 THEN rem ELSE q[i - 1]) - a * q[i]
        /\ \A x \in Int : Value(n, d, x) = (x - a) * Value(n, q, x) + rem
    BY <2>q DEF IsQuotient
  <2>2. Short(q, l - 1)
    BY <2>1
  <2>3. Congruent(m, rem, 0)
    <3>1. Value(n, d, a) = (a - a) * Value(n, q, a) + rem /\ Value(n, q, a) \in Int
      BY <2>0, <2>1, PartialValues
    <3>2. Value(n, d, a) = rem
      BY <2>0, <2>1, <3>1
    <3>3. Congruent(m, Value(n, d, a), 0)
      BY DEF a
    <3> QED BY <3>2, <3>3
  <2>4. Roots(q, l - 1)
    <3> SUFFICES ASSUME NEW j \in 1 .. l - 1
                 PROVE  Congruent(m, Value(n, q, xs[j]), 0)
      OBVIOUS
    <3> DEFINE x == xs[j]
               v == Value(n, q, x)
    <3>1. j \in 1 .. n /\ j \in 1 .. l /\ j # l /\ x \in Int
      OBVIOUS
    <3>2. Congruent(m, Value(n, d, x), 0) /\ ~ Congruent(m, x - a, 0)
      BY <3>1 DEF a
    <3>3. v \in Int
      BY <2>1, <3>1, PartialValues
    <3>4. Value(n, d, x) = (x - a) * v + rem
      BY <2>1, <3>1
    <3> HIDE DEF x, v
    <3>5. Congruent(m, (x - a) * v, 0)
      <4> DEFINE y == (x - a) * v
      <4>1. y \in Int
        BY <2>0, <3>1, <3>3
      <4>2. Congruent(m, y + rem, 0)
        BY <3>2, <3>4
      <4> HIDE DEF y
      <4>3. PICK k \in Int, h \in Int : (y + rem) - 0 = m * k /\ rem - 0 = m * h
        BY <2>3, <4>2 DEF Congruent
      <4>4. y - 0 = m * (k - h) /\ k - h \in Int
        BY <2>1, <4>1, <4>3
      <4>5. Congruent(m, y, 0)
        BY <4>4 DEF Congruent
      <4> QED BY <4>5 DEF y
    <3>6. Congruent(m, v, 0)
      <4>1. x - a \in Int
        BY <2>0, <3>1
      <4> QED BY <3>2, <3>3, <3>5, <4>1 DEF NoZeroDivisorsMod
    <3> QED BY <3>6 DEF v, x
  <2>5. Zero(q)
    <3> HIDE DEF Short, Roots, Zero
    <3> QED BY <1>2, <2>1, <2>2, <2>4
  <2>6. ASSUME NEW i \in 1 .. n PROVE Congruent(m, d[i], 0)
    <3> DEFINE low == IF i = 1 THEN rem ELSE q[i - 1]
               high == q[i]
    <3>1. low \in Int /\ high \in Int
      <4>1. i # 1 => i - 1 \in 1 .. n
        OBVIOUS
      <4> QED BY <2>1, <4>1 DEF Poly
    <3>2. Congruent(m, low, 0) /\ Congruent(m, high, 0)
      <4>1. i # 1 => i - 1 \in 1 .. n
        OBVIOUS
      <4> QED BY <2>3, <2>5, <4>1
    <3>3. d[i] = low - a * high
      BY <2>1
    <3> HIDE DEF low, high
    <3>4. PICK k \in Int, h \in Int : low - 0 = m * k /\ high - 0 = m * h
      BY <3>2 DEF Congruent
    <3>5. low = m * k /\ high = m * h
      BY <3>1, <3>4
    <3>6. d[i] - 0 = m * (k - a * h)
      BY <2>0, <3>3, <3>5
    <3>7. k - a * h \in Int
      BY <2>0
    <3> QED BY <3>6, <3>7 DEF Congruent
  <2> QED BY <2>6
<1>3. \A l \in 1 .. n : l - 1 \in A => l \in A
  BY <1>2
<1> HIDE DEF A
<1>4. n \in A
  <2>1. n \in Nat /\ n \in 0 .. n
    OBVIOUS
  <2> HIDE DEF A
  <2>2. 0 .. n \subseteq A
    BY <1>1, <1>3, <2>1, IntervalInduction
  <2> QED BY <2>1, <2>2
<1>5. Short(c, n) /\ Roots(c, n)
  OBVIOUS
<1> HIDE DEF Short, Roots, Zero
<1>6. Zero(c)
  BY <1>4, <1>5 DEF A
<1> QED BY <1>6 DEF Zero

-----------------------------------------------------------------------------
\* The product of the factors a[j] - b[j] x is a polynomial, if it has few
\* enough that are not constant: degree counts them.
Factors(k, a, b, x) == [j \in 1 .. k |-> a[j] - b[j] * x]

LEMMA FactorsAre ==
    ASSUME NEW k \in Nat, NEW a \in [1 .. k -> Int], NEW b \in [1 .. k -> Int], NEW x \in Int
    PROVE  /\ Factors(k, a, b, x) \in [1 .. k -> Int]
           /\ IsProducts(Products(k, Factors(k, a, b, x)), k, Factors(k, a, b, x))
<1>1. \A j \in 1 .. k : a[j] - b[j] * x \in Int
  OBVIOUS
<1>2. Factors(k, a, b, x) \in [1 .. k -> Int]
  BY <1>1 DEF Factors
<1> QED BY <1>2, ProductsAre

CountsDegrees(degree, n, k, b) ==
    /\ degree \in [0 .. k -> 0 .. n - 1]
    /\ \A j \in 1 .. k : \/ degree[j] = degree[j - 1] + 1
                         \/ b[j] = 0 /\ degree[j] = degree[j - 1]

LEMMA ProductPolynomial ==
    ASSUME NEW n \in Nat \ {0}, NEW k \in Nat,
           NEW a \in [1 .. k -> Int], NEW b \in [1 .. k -> Int],
           NEW degree, CountsDegrees(degree, n, k, b)
    PROVE  \E d \in Poly(n) : \A x \in Int :
              Value(n, d, x) = Products(k, Factors(k, a, b, x))[k]
<1> USE DEF CountsDegrees
<1> DEFINE Short(d, j) == \A i \in 1 .. n : i > degree[j] + 1 => d[i] = 0
           Equal(d, j) == \A x \in Int : Value(n, d, x) = Products(k, Factors(k, a, b, x))[j]
           A == {j \in 0 .. k : \E d \in Poly(n) : Short(d, j) /\ Equal(d, j)}
<1>1. 0 \in A
  <2> DEFINE d == [i \in 1 .. n |-> IF i = 1 THEN 1 ELSE 0]
  <2>1. d \in Poly(n) /\ d[1] = 1 /\ \A i \in 2 .. n : d[i] = 0
    BY DEF Poly
  <2> HIDE DEF d
  <2>2. Short(d, 0)
    <3>1. degree[0] >= 0
      OBVIOUS
    <3> QED BY <2>1, <3>1
  <2>3. Equal(d, 0)
    <3> SUFFICES ASSUME NEW x \in Int
                 PROVE  Value(n, d, x) = Products(k, Factors(k, a, b, x))[0]
      OBVIOUS
    <3>1. Value(n, d, x) = 1
      BY <2>1, ValueAtZero
    <3>2. Products(k, Factors(k, a, b, x))[0] = 1
      BY FactorsAre DEF IsProducts
    <3> QED BY <3>1, <3>2
  <2> HIDE DEF Short, Equal
  <2> QED BY <2>1, <2>2, <2>3
<1>2. ASSUME NEW j \in 1 .. k, j - 1 \in A PROVE j \in A
  <2>1. PICK d \in Poly(n) : Short(d, j - 1) /\ Equal(d, j - 1)
    BY <1>2
  <2> DEFINE q == Times(n, d, a[j], b[j])
  <2>2. /\ a[j] \in Int /\ b[j] \in Int /\ j - 1 \in 0 .. k
        /\ degree[j] \in 0 .. n - 1 /\ degree[j - 1] \in 0 .. n - 1
    OBVIOUS
  <2>3. b[j] = 0 \/ d[n] = 0
    <3>1. CASE degree[j] = degree[j - 1] + 1
      <4>1. n > degree[j - 1] + 1 /\ n \in 1 .. n
        BY <2>2, <3>1
      <4> QED BY <2>1, <4>1
    <3> QED BY <3>1
  <2>4. /\ q \in Poly(n)
        /\ \A x \in Int : Value(n, q, x) = (a[j] - b[j] * x) * Value(n, d, x)
    BY <2>2, <2>3, TimesValue
  <2>5. \A i \in 1 .. n : q[i] = a[j] * d[i] - b[j] * (IF i = 1 THEN 0 ELSE d[i - 1])
    BY DEF Times
  <2> HIDE DEF q
  <2>6. Short(q, j)
    <3> SUFFICES ASSUME NEW i \in 1 .. n, i > degree[j] + 1 PROVE q[i] = 0
      OBVIOUS
    <3>0. degree[j] = degree[j - 1] + 1 \/ degree[j] = degree[j - 1]
      OBVIOUS
    <3>1. i > degree[j - 1] + 1 /\ i - 1 \in 1 .. n /\ i # 1
      BY <2>2, <3>0
    <3>2. d[i] = 0
      BY <2>1, <3>1
    <3>3. CASE degree[j] = degree[j - 1] + 1
      <4>1. i - 1 > degree[j - 1] + 1
        BY <2>2, <3>3
      <4>2. d[i - 1] = 0
        BY <2>1, <3>1, <4>1
      <4> QED BY <2>2, <2>5, <3>1, <3>2, <4>2
    <3>4. CASE b[j] = 0
      <4>1. d[i - 1] \in Int
        BY <3>1 DEF Poly
      <4>2. q[i] = a[j] * 0 - 0 * d[i - 1]
        BY <2>5, <3>1, <3>2, <3>4
      <4> QED BY <2>2, <4>1, <4>2
    <3> QED BY <3>3, <3>4
  <2>7. Equal(q, j)
    <3> SUFFICES ASSUME NEW x \in Int
                 PROVE  Value(n, q, x) = Products(k, Factors(k, a, b, x))[j]
      OBVIOUS
    <3> DEFINE g == Products(k, Factors(k, a, b, x))
    <3>1. g[j] = g[j - 1] * (a[j] - b[j] * x) /\ g[j - 1] \in Int
      <4>1. Factors(k, a, b, x)[j] = a[j] - b[j] * x
        BY DEF Factors
      <4>2. IsProducts(g, k, Factors(k, a, b, x))
        BY FactorsAre
      <4> HIDE DEF g
      <4> QED BY <2>2, <4>1, <4>2 DEF IsProducts
    <3>2. Value(n, d, x) = g[j - 1]
      BY <2>1
    <3>3. Value(n, q, x) = (a[j] - b[j] * x) * Value(n, d, x)
      BY <2>4
    <3> HIDE DEF g
    <3>4. a[j] - b[j] * x \in Int
      BY <2>2
    <3>5. Value(n, q, x) = g[j]
      BY <3>1, <3>2, <3>3, <3>4
    <3> QED BY <3>5 DEF g
  <2> HIDE DEF Short, Equal
  <2> QED BY <2>4, <2>6, <2>7
<1>3. \A j \in 1 .. k : j - 1 \in A => j \in A
  BY <1>2
<1> HIDE DEF A
<1>4. k \in A
  <2>1. 0 .. k \subseteq A
    BY <1>1, <1>3, IntervalInduction
  <2> QED BY <2>1
<1>5. PICK d \in Poly(n) : Short(d, k) /\ Equal(d, k)
  BY <1>4 DEF A
<1> QED BY <1>5

\* A product with a factor that vanishes, with none, and with units only.
LEMMA VanishingProduct ==
    ASSUME NEW m \in Nat \ {0}, NEW n \in Nat, NEW f \in [1 .. n -> Int],
           NEW k \in 1 .. n, Congruent(m, f[k], 0)
    PROVE  Congruent(m, Products(n, f)[n], 0)
<1> DEFINE g == Products(n, f)
           A == {j \in 0 .. n : j >= k => Congruent(m, g[j], 0)}
<1>1. g \in [0 .. n -> Int] /\ \A j \in 1 .. n : g[j] = g[j - 1] * f[j]
  BY ProductsAre DEF IsProducts
<1> HIDE DEF g
<1>2. 0 \in A
  OBVIOUS
<1>3. ASSUME NEW j \in 1 .. n, j - 1 \in A PROVE j \in A
  <2> SUFFICES ASSUME j >= k PROVE Congruent(m, g[j], 0)
    OBVIOUS
  <2> DEFINE u == g[j - 1]
             v == f[j]
  <2>1. u \in Int /\ v \in Int /\ g[j] = u * v
    BY <1>1
  <2>2. Congruent(m, u, 0) \/ Congruent(m, v, 0)
    BY <1>3
  <2> HIDE DEF u, v
  <2>3. ASSUME Congruent(m, u, 0) PROVE Congruent(m, u * v, 0)
    <3>1. PICK h \in Int : u - 0 = m * h
      BY <2>3 DEF Congruent
    <3>2. u = m * h
      BY <2>1, <3>1
    <3>3. u * v - 0 = m * (h * v) /\ h * v \in Int
      BY <2>1, <3>2
    <3> QED BY <3>3 DEF Congruent
  <2>4. ASSUME Congruent(m, v, 0) PROVE Congruent(m, u * v, 0)
    <3>1. PICK h \in Int : v - 0 = m * h
      BY <2>4 DEF Congruent
    <3>2. v = m * h
      BY <2>1, <3>1
    <3>3. u * v - 0 = m * (u * h) /\ u * h \in Int
      BY <2>1, <3>2
    <3> QED BY <3>3 DEF Congruent
  <2> QED BY <2>1, <2>2, <2>3, <2>4
<1>4. \A j \in 1 .. n : j - 1 \in A => j \in A
  BY <1>3
<1> HIDE DEF A
<1>5. 0 .. n \subseteq A
  BY <1>2, <1>4, IntervalInduction
<1>6. Congruent(m, g[n], 0)
  BY <1>5 DEF A
<1> QED BY <1>6 DEF g

LEMMA NonzeroProduct ==
    ASSUME NEW m \in Nat \ {0}, NoZeroDivisorsMod(m), ~ Congruent(m, 1, 0),
           NEW n \in Nat, NEW f \in [1 .. n -> Int],
           \A k \in 1 .. n : ~ Congruent(m, f[k], 0)
    PROVE  ~ Congruent(m, Products(n, f)[n], 0)
<1> DEFINE g == Products(n, f)
           A == {j \in 0 .. n : ~ Congruent(m, g[j], 0)}
<1>1. /\ g \in [0 .. n -> Int] /\ g[0] = 1
      /\ \A j \in 1 .. n : g[j] = g[j - 1] * f[j]
  BY ProductsAre DEF IsProducts
<1> HIDE DEF g
<1>2. 0 \in A
  BY <1>1
<1>3. ASSUME NEW j \in 1 .. n, j - 1 \in A PROVE j \in A
  <2>1. g[j - 1] \in Int /\ f[j] \in Int /\ g[j] = g[j - 1] * f[j]
    BY <1>1
  <2>2. ~ Congruent(m, g[j - 1], 0) /\ ~ Congruent(m, f[j], 0)
    BY <1>3
  <2>3. ~ Congruent(m, g[j - 1] * f[j], 0)
    BY <2>1, <2>2 DEF NoZeroDivisorsMod
  <2> QED BY <2>1, <2>3
<1>4. \A j \in 1 .. n : j - 1 \in A => j \in A
  BY <1>3
<1> HIDE DEF A
<1>5. 0 .. n \subseteq A
  BY <1>2, <1>4, IntervalInduction
<1>6. ~ Congruent(m, g[n], 0)
  BY <1>5 DEF A
<1> QED BY <1>6 DEF g

LEMMA UnitProduct ==
    ASSUME NEW m \in Nat \ {0}, NEW n \in Nat, NEW f \in [1 .. n -> Int],
           \A k \in 1 .. n : Congruent(m, f[k], 1)
    PROVE  Congruent(m, Products(n, f)[n], 1)
<1> DEFINE g == Products(n, f)
           A == {j \in 0 .. n : Congruent(m, g[j], 1)}
<1>1. /\ g \in [0 .. n -> Int] /\ g[0] = 1
      /\ \A j \in 1 .. n : g[j] = g[j - 1] * f[j]
  BY ProductsAre DEF IsProducts
<1> HIDE DEF g
<1>2. 0 \in A
  <2>1. 1 - 1 = m * 0
    OBVIOUS
  <2>2. Congruent(m, 1, 1)
    BY <2>1 DEF Congruent
  <2> QED BY <1>1, <2>2
<1>3. ASSUME NEW j \in 1 .. n, j - 1 \in A PROVE j \in A
  <2> DEFINE u == g[j - 1]
             v == f[j]
  <2>1. u \in Int /\ v \in Int /\ g[j] = u * v
    BY <1>1
  <2>2. Congruent(m, u, 1) /\ Congruent(m, v, 1)
    BY <1>3
  <2> HIDE DEF u, v
  <2>3. PICK h \in Int, k \in Int : u - 1 = m * h /\ v - 1 = m * k
    BY <2>2 DEF Congruent
  <2>4. u = m * h + 1 /\ v = m * k + 1
    BY <2>1, <2>3
  <2>5. u * v - 1 = m * ((h * (m * k) + h) + k) /\ (h * (m * k) + h) + k \in Int
    BY <2>1, <2>4
  <2>6. Congruent(m, u * v, 1)
    BY <2>5 DEF Congruent
  <2> QED BY <2>1, <2>6
<1>4. \A j \in 1 .. n : j - 1 \in A => j \in A
  BY <1>3
<1> HIDE DEF A
<1>5. 0 .. n \subseteq A
  BY <1>2, <1>4, IntervalInduction
<1>6. Congruent(m, g[n], 1)
  BY <1>5 DEF A
<1> QED BY <1>6 DEF g

-----------------------------------------------------------------------------
\* There are finitely many functions between finite sets.
LEMMA FiniteFunctions ==
    ASSUME NEW n \in Nat, NEW S, IsFiniteSet(S)
    PROVE  IsFiniteSet([1 .. n -> S])
<1> DEFINE A == {m \in 0 .. n : IsFiniteSet([1 .. m -> S])}
<1>1. 0 \in A
  <2>1. ASSUME NEW f \in [1 .. 0 -> S], NEW g \in [1 .. 0 -> S] PROVE f = g
    OBVIOUS
  <2>2. [1 .. 0 -> S] = {} \/ \E f : [1 .. 0 -> S] = {f}
    BY <2>1
  <2>3. IsFiniteSet([1 .. 0 -> S])
    <3>1. CASE [1 .. 0 -> S] = {}
      BY <3>1, FS_EmptySet
    <3>2. ASSUME NEW f, [1 .. 0 -> S] = {f} PROVE IsFiniteSet([1 .. 0 -> S])
      BY <3>2, FS_Singleton
    <3> QED BY <2>2, <3>1, <3>2
  <2> QED BY <2>3
<1>2. ASSUME NEW m \in 1 .. n, m - 1 \in A PROVE m \in A
  <2> DEFINE F == [1 .. m -> S]
             G == [1 .. m - 1 -> S]
             cut == [f \in F |-> <<[i \in 1 .. m - 1 |-> f[i]], f[m]>>]
  <2>1. IsFiniteSet(G \X S)
    BY <1>2, FS_Product
  <2>2. cut \in [F -> G \X S]
    <3>1. ASSUME NEW f \in F PROVE [i \in 1 .. m - 1 |-> f[i]] \in G /\ f[m] \in S
      OBVIOUS
    <3> QED BY <3>1
  <2>3. ASSUME NEW f \in F, NEW g \in F, cut[f] = cut[g] PROVE f = g
    <3>1. /\ [i \in 1 .. m - 1 |-> f[i]] = [i \in 1 .. m - 1 |-> g[i]]
          /\ f[m] = g[m]
      BY <2>3
    <3>2. \A i \in 1 .. m - 1 : f[i] = g[i]
      <4>1. ASSUME NEW i \in 1 .. m - 1 PROVE f[i] = g[i]
        <5>1. f[i] = [j \in 1 .. m - 1 |-> f[j]][i] /\ g[i] = [j \in 1 .. m - 1 |-> g[j]][i]
          OBVIOUS
        <5> QED BY <3>1, <5>1
      <4> QED BY <4>1
    <3>3. \A i \in 1 .. m : i \in 1 .. m - 1 \/ i = m
      OBVIOUS
    <3>4. \A i \in 1 .. m : f[i] = g[i]
      BY <3>1, <3>2, <3>3
    <3> QED BY <3>4
  <2> HIDE DEF cut, F, G
  <2>4. cut \in Injection(F, G \X S)
    BY <2>2, <2>3 DEF Injection, IsInjective
  <2>5. IsFiniteSet(F)
    BY <2>1, <2>4, FS_Injection
  <2>6. m \in 0 .. n
    OBVIOUS
  <2> QED BY <2>5, <2>6 DEF F
<1>3. n \in A
  <2>1. \A m \in 1 .. n : m - 1 \in A => m \in A
    BY <1>2
  <2> HIDE DEF A
  <2>2. 0 .. n \subseteq A
    BY <1>1, <2>1, IntervalInduction
  <2> QED BY <2>2
<1> QED BY <1>3
=============================================================================
