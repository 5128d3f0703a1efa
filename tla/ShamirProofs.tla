---------------------------- MODULE ShamirProofs ----------------------------
(***************************************************************************)
(* Proofs about secret sharing, for any prime field, any K and T and any   *)
(* bytes: interpolation at 0 of T values of a polynomial gives its         *)
(* constant term, fewer values fit every constant term in as many ways,    *)
(* and the bytes of a message survive the way into the field and back.     *)
(*                                                                         *)
(* What the code reduces modulo P at every step is congruent to a sum, a   *)
(* product or a polynomial's value over the integers; FieldPolynomials     *)
(* says what those are.                                                    *)
(***************************************************************************)
EXTENDS Shamir, FieldPolynomials

\* What the assumptions say of the parameters and of the field.
LEMMA Parameters ==
    /\ P \in Nat \ {0} /\ K \in Nat \ {0} /\ T \in Nat \ {0}
    /\ Base \in Nat \ {0} /\ ChunkSize \in Nat \ {0}
    /\ T <= K /\ K < P /\ P > 1
    /\ 0 \in Field /\ 1 \in Field /\ Field \subseteq Nat /\ Field \subseteq Int
    /\ \A a \in Int : a % P \in Field /\ Congruent(P, a, a % P)
    /\ \A a, b \in Field : Congruent(P, a, b) => a = b
<1>1. /\ P \in Nat \ {0} /\ K \in Nat \ {0} /\ T \in Nat \ {0}
      /\ Base \in Nat \ {0} /\ ChunkSize \in Nat \ {0}
      /\ T <= K /\ K < P
  BY ShamirAssumption
<1>2. P > 1 /\ 0 \in Field /\ 1 \in Field /\ Field \subseteq Nat /\ Field \subseteq Int
  BY <1>1 DEF Field
<1>3. \A a \in Int : a % P \in Field /\ Congruent(P, a, a % P)
  BY <1>1, ResidueOf DEF Field
<1>4. \A a, b \in Field : Congruent(P, a, b) => a = b
  BY <1>1, ResiduesDiffer DEF Field
<1> QED BY <1>1, <1>2, <1>3, <1>4

\* The modular sum and product of n integers are congruent to the sum and the
\* product: a fold from the left goes through the sequence in order.
LEMMA SumModIs ==
    ASSUME NEW n \in Nat, NEW f \in [1 .. n -> Int]
    PROVE  SumMod(f) \in Field /\ Congruent(P, SumMod(f), Sums(n, f)[n])
<1> DEFINE step == [i \in 1 .. n |-> [v \in Field |-> (v + f[i]) % P]]
           g == CHOOSE h : h = [s \in SUBSET DOMAIN f |->
                   IF s = {} THEN 0
                   ELSE (h[s \ {Greatest(s)}] + f[Greatest(s)]) % P]
<1>1. SumMod(f) = g[DOMAIN f] /\ DOMAIN f = 1 .. n
  <2>1. SumMod(f) = g[DOMAIN f]
    BY Zenon DEF SumMod, FoldLeft, MapThenFoldSet, Max, Greatest
  <2> QED BY <2>1
<1>2. ASSUME NEW i \in 1 .. n, NEW v \in Field
      PROVE  (v + f[i]) % P \in Field /\ step[i][v] = (v + f[i]) % P
  <2>1. v \in Int /\ f[i] \in Int
    BY Parameters
  <2>2. v + f[i] \in Int
    BY <2>1
  <2> QED BY <2>2, Parameters
<1>3. step \in [1 .. n -> [Field -> Field]] /\ 0 \in Field
  BY <1>2, Parameters
<1> HIDE DEF step
<1>4. PICK h : IsFold(h, n, Field, 0, step)
  BY <1>3, FoldExists
<1>5. h = [s \in SUBSET DOMAIN f |->
                   IF s = {} THEN 0
                   ELSE (h[s \ {Greatest(s)}] + f[Greatest(s)]) % P]
  <2>1. ASSUME NEW s \in SUBSET (1 .. n), s # {}
        PROVE  step[Greatest(s)][h[s \ {Greatest(s)}]] =
                   (h[s \ {Greatest(s)}] + f[Greatest(s)]) % P
    <3>1. Greatest(s) \in 1 .. n
      BY <2>1, InitialIntervals
    <3>2. h[s \ {Greatest(s)}] \in Field
      BY <1>4 DEF IsFold
    <3> QED BY <1>2, <3>1, <3>2
  <2>2. h = [s \in SUBSET (1 .. n) |->
               IF s = {} THEN 0 ELSE step[Greatest(s)][h[s \ {Greatest(s)}]]]
    BY <1>4, Zenon DEF IsFold
  <2> QED BY <1>1, <2>1, <2>2
<1>6. g = [s \in SUBSET DOMAIN f |->
                   IF s = {} THEN 0
                   ELSE (g[s \ {Greatest(s)}] + f[Greatest(s)]) % P]
  BY <1>5, Zenon
<1> HIDE DEF g
<1>7. g[{}] = 0
  BY <1>6
<1>8. ASSUME NEW i \in 1 .. n, g[1 .. i - 1] \in Field
      PROVE  g[1 .. i] = step[i][g[1 .. i - 1]]
  <2>1. /\ 1 .. i \in SUBSET (1 .. n) /\ 1 .. i # {}
        /\ Greatest(1 .. i) = i /\ (1 .. i) \ {Greatest(1 .. i)} = 1 .. i - 1
    BY InitialIntervals
  <2>2. g[1 .. i] = (g[1 .. i - 1] + f[i]) % P
    BY <1>1, <1>6, <2>1
  <2> QED BY <1>2, <1>8, <2>2
<1>9. PICK r : IsLoop(r, n, Field, 0, step) /\ r[n] = g[1 .. n]
  <2>1. IsFolding(g, n, Field, 0, step)
    BY <1>7, <1>8 DEF IsFolding
  <2> QED BY <1>3, <2>1, FoldIsLoop
<1>10. r \in [0 .. n -> Field] /\ r[0] = 0 /\ n \in 0 .. n
  BY <1>9 DEF IsLoop
<1>11. r \in [0 .. n -> Int]
  BY <1>10, Parameters
<1>12. \A i \in 1 .. n : r[i] = (r[i - 1] + f[i]) % P
  <2>1. \A i \in 1 .. n : r[i] = step[i][r[i - 1]] /\ r[i - 1] \in Field
    BY <1>9, <1>10 DEF IsLoop
  <2> QED BY <1>2, <2>1
<1>13. Congruent(P, r[n], Sums(n, f)[n])
  <2>1. IsReducedSums(r, P, n, f)
    BY <1>10, <1>11, <1>12 DEF IsReducedSums
  <2> QED BY <1>10, <2>1, Parameters, ReducedSums
<1> QED BY <1>1, <1>9, <1>10, <1>13

LEMMA ProductModIs ==
    ASSUME NEW n \in Nat, NEW f \in [1 .. n -> Int]
    PROVE  ProductMod(f) \in Field /\ Congruent(P, ProductMod(f), Products(n, f)[n])
<1> DEFINE step == [i \in 1 .. n |-> [v \in Field |-> (v * f[i]) % P]]
           g == CHOOSE h : h = [s \in SUBSET DOMAIN f |->
                   IF s = {} THEN 1
                   ELSE (h[s \ {Greatest(s)}] * f[Greatest(s)]) % P]
<1>1. ProductMod(f) = g[DOMAIN f] /\ DOMAIN f = 1 .. n
  <2>1. ProductMod(f) = g[DOMAIN f]
    BY Zenon DEF ProductMod, FoldLeft, MapThenFoldSet, Max, Greatest
  <2> QED BY <2>1
<1>2. ASSUME NEW i \in 1 .. n, NEW v \in Field
      PROVE  (v * f[i]) % P \in Field /\ step[i][v] = (v * f[i]) % P
  <2>1. v \in Int /\ f[i] \in Int
    BY Parameters
  <2>2. v * f[i] \in Int
    BY <2>1
  <2> QED BY <2>2, Parameters
<1>3. step \in [1 .. n -> [Field -> Field]] /\ 1 \in Field
  BY <1>2, Parameters
<1> HIDE DEF step
<1>4. PICK h : IsFold(h, n, Field, 1, step)
  BY <1>3, FoldExists
<1>5. h = [s \in SUBSET DOMAIN f |->
                   IF s = {} THEN 1
                   ELSE (h[s \ {Greatest(s)}] * f[Greatest(s)]) % P]
  <2>1. ASSUME NEW s \in SUBSET (1 .. n), s # {}
        PROVE  step[Greatest(s)][h[s \ {Greatest(s)}]] =
                   (h[s \ {Greatest(s)}] * f[Greatest(s)]) % P
    <3>1. Greatest(s) \in 1 .. n
      BY <2>1, InitialIntervals
    <3>2. h[s \ {Greatest(s)}] \in Field
      BY <1>4 DEF IsFold
    <3> QED BY <1>2, <3>1, <3>2
  <2>2. h = [s \in SUBSET (1 .. n) |->
               IF s = {} THEN 1 ELSE step[Greatest(s)][h[s \ {Greatest(s)}]]]
    BY <1>4, Zenon DEF IsFold
  <2> QED BY <1>1, <2>1, <2>2
<1>6. g = [s \in SUBSET DOMAIN f |->
                   IF s = {} THEN 1
                   ELSE (g[s \ {Greatest(s)}] * f[Greatest(s)]) % P]
  BY <1>5, Zenon
<1> HIDE DEF g
<1>7. g[{}] = 1
  BY <1>6
<1>8. ASSUME NEW i \in 1 .. n, g[1 .. i - 1] \in Field
      PROVE  g[1 .. i] = step[i][g[1 .. i - 1]]
  <2>1. /\ 1 .. i \in SUBSET (1 .. n) /\ 1 .. i # {}
        /\ Greatest(1 .. i) = i /\ (1 .. i) \ {Greatest(1 .. i)} = 1 .. i - 1
    BY InitialIntervals
  <2>2. g[1 .. i] = (g[1 .. i - 1] * f[i]) % P
    BY <1>1, <1>6, <2>1
  <2> QED BY <1>2, <1>8, <2>2
<1>9. PICK r : IsLoop(r, n, Field, 1, step) /\ r[n] = g[1 .. n]
  <2>1. IsFolding(g, n, Field, 1, step)
    BY <1>7, <1>8 DEF IsFolding
  <2> QED BY <1>3, <2>1, FoldIsLoop
<1>10. r \in [0 .. n -> Field] /\ r[0] = 1 /\ n \in 0 .. n
  BY <1>9 DEF IsLoop
<1>11. r \in [0 .. n -> Int]
  BY <1>10, Parameters
<1>12. \A i \in 1 .. n : r[i] = (r[i - 1] * f[i]) % P
  <2>1. \A i \in 1 .. n : r[i] = step[i][r[i - 1]] /\ r[i - 1] \in Field
    BY <1>9, <1>10 DEF IsLoop
  <2> QED BY <1>2, <2>1
<1>13. Congruent(P, r[n], Products(n, f)[n])
  <2>1. IsReducedProducts(r, P, n, f)
    BY <1>10, <1>11, <1>12 DEF IsReducedProducts
  <2> QED BY <1>10, <2>1, Parameters, ReducedProducts
<1> QED BY <1>1, <1>9, <1>10, <1>13

\* evaluate_polynomial computes a polynomial's value modulo P.
LEMMA EvaluateIs ==
    ASSUME NEW c \in [1 .. T -> Field], NEW x \in Int
    PROVE  /\ EvaluatePolynomial(c, x) \in Field
           /\ c \in Poly(T)
           /\ Congruent(P, EvaluatePolynomial(c, x), Value(T, c, x))
<1> DEFINE power(i) == ProductMod([j \in 1 .. i - 1 |-> x])
           f == [i \in 1 .. T |-> c[i] * power(i)]
           t == Terms(T, c, x)
<1>1. P \in Nat \ {0} /\ T \in Nat /\ Field \subseteq Int
  BY Parameters
<1>2. c \in [1 .. T -> Int] /\ c \in Poly(T)
  BY <1>1 DEF Poly
<1>3. Powers(T, x) \in [0 .. T -> Int]
  BY <1>1, PowersAre
<1>4. ASSUME NEW i \in 1 .. T
      PROVE  power(i) \in Int /\ Congruent(P, power(i), Powers(T, x)[i - 1])
  <2> DEFINE g == [j \in 1 .. i - 1 |-> x]
             h == [j \in 1 .. T |-> x]
  <2>1. /\ i - 1 \in Nat /\ i - 1 \in 0 .. T
        /\ g \in [1 .. i - 1 -> Int] /\ h \in [1 .. T -> Int]
        /\ \A j \in 1 .. i - 1 : g[j] = h[j]
    BY <1>1
  <2>2. Powers(T, x) = Products(T, h)
    BY DEF Powers
  <2> HIDE DEF g, h
  <2>3. Products(i - 1, g)[i - 1] = Products(T, h)[i - 1]
    BY <1>1, <2>1, SamePrefix
  <2>4. ProductMod(g) \in Field /\ Congruent(P, ProductMod(g), Products(i - 1, g)[i - 1])
    BY <2>1, ProductModIs
  <2> QED BY <1>1, <2>2, <2>3, <2>4 DEF g
<1> HIDE DEF power
<1>5. ASSUME NEW i \in 1 .. T
      PROVE  f[i] \in Int /\ t[i] \in Int /\ Congruent(P, f[i], t[i])
  <2>1. /\ c[i] \in Int /\ power(i) \in Int /\ Powers(T, x)[i - 1] \in Int
        /\ f[i] = c[i] * power(i) /\ t[i] = c[i] * Powers(T, x)[i - 1]
    <3>1. f[i] = c[i] * power(i) /\ t[i] = c[i] * Powers(T, x)[i - 1]
      BY DEF Terms
    <3>2. c[i] \in Int /\ power(i) \in Int /\ Powers(T, x)[i - 1] \in Int
      <4>1. c[i] \in Int /\ power(i) \in Int
        BY <1>2, <1>4
      <4>2. i - 1 \in 0 .. T
        BY <1>1
      <4>3. Powers(T, x)[i - 1] \in Int
        BY <1>3, <4>2
      <4> QED BY <4>1, <4>3
    <3> QED BY <3>1, <3>2
  <2>2. Congruent(P, c[i], c[i]) /\ Congruent(P, power(i), Powers(T, x)[i - 1])
    BY <1>1, <1>4, <2>1, CongruentFacts
  <2>3. Congruent(P, c[i] * power(i), c[i] * Powers(T, x)[i - 1])
    BY <1>1, <2>1, <2>2, CongruentFacts
  <2>4. c[i] * power(i) \in Int /\ c[i] * Powers(T, x)[i - 1] \in Int
    BY <2>1
  <2> QED BY <2>1, <2>3, <2>4
<1>6. EvaluatePolynomial(c, x) = SumMod(f)
  <2>1. DOMAIN c = 1 .. T
    OBVIOUS
  <2> QED BY <2>1 DEF EvaluatePolynomial, power
<1>7. f = [i \in 1 .. T |-> f[i]] /\ t = [i \in 1 .. T |-> t[i]]
  BY DEF Terms
<1>8. Value(T, c, x) = Sums(T, t)[T]
  BY DEF Value
<1> HIDE DEF f, t
<1>9. f \in [1 .. T -> Int] /\ t \in [1 .. T -> Int]
  BY <1>5, <1>7
<1>10. SumMod(f) \in Field /\ Congruent(P, SumMod(f), Sums(T, f)[T])
  BY <1>1, <1>9, SumModIs
<1>11. Congruent(P, Sums(T, f)[T], Sums(T, t)[T])
  <2>1. \A i \in 0 .. T : Congruent(P, Sums(T, f)[i], Sums(T, t)[i])
    BY <1>1, <1>5, <1>9, SameSums
  <2> QED BY <1>1, <2>1
<1>12. Sums(T, f)[T] \in Int /\ Sums(T, t)[T] \in Int /\ SumMod(f) \in Int
  <2>1. IsSums(Sums(T, f), T, f) /\ IsSums(Sums(T, t), T, t)
    BY <1>1, <1>9, SumsAre
  <2>2. Sums(T, f)[T] \in Int /\ Sums(T, t)[T] \in Int
    BY <1>1, <2>1 DEF IsSums
  <2>3. SumMod(f) \in Int
    BY <1>1, <1>10
  <2> QED BY <2>2, <2>3
<1>13. Congruent(P, SumMod(f), Sums(T, t)[T])
  BY <1>1, <1>10, <1>11, <1>12, CongruentFacts
<1> QED BY <1>2, <1>6, <1>8, <1>10, <1>13

\* Inverses are inverses, and so no product is zero of which no factor is.
LEMMA InverseIs ==
    ASSUME NEW a \in Field, a # 0
    PROVE  InverseMod(a) \in Field /\ Congruent(P, a * InverseMod(a), 1)
<1>1. \E b \in Field : (a * b) % P = 1
  BY FieldAssumption
<1>2. InverseMod(a) \in Field /\ (a * InverseMod(a)) % P = 1
  BY <1>1, Zenon DEF InverseMod
<1>3. a * InverseMod(a) \in Int
  <2>1. a \in Int /\ InverseMod(a) \in Int
    BY <1>2, Parameters
  <2> QED BY <2>1
<1> QED BY <1>2, <1>3, Parameters

LEMMA NoZeroDivisors == NoZeroDivisorsMod(P) /\ ~ Congruent(P, 1, 0)
<1>1. P \in Nat \ {0}
  BY Parameters
<1>2. ~ Congruent(P, 1, 0)
  BY Parameters
<1>3. ASSUME NEW a \in Int, NEW b \in Int, Congruent(P, a * b, 0), ~ Congruent(P, a, 0)
      PROVE  Congruent(P, b, 0)
  <2> DEFINE r == a % P
             v == InverseMod(r)
  <2>1. r \in Field /\ Congruent(P, a, r) /\ r \in Int
    BY Parameters
  <2>2. r # 0
    BY <1>3, <2>1
  <2>3. v \in Field /\ Congruent(P, r * v, 1) /\ v \in Int
    <3> HIDE DEF r
    <3> QED BY <2>1, <2>2, InverseIs, Parameters
  <2> HIDE DEF r, v
  <2>4. /\ a * v \in Int /\ r * v \in Int /\ a * b \in Int /\ (a * v) * b \in Int
        /\ (a * v) * b = (a * b) * v /\ (a * b) * v \in Int
    <3>1. a * v \in Int /\ r * v \in Int /\ a * b \in Int
      BY <2>1, <2>3
    <3>2. (a * v) * b = (a * b) * v
      BY <2>3
    <3> QED BY <2>3, <3>1, <3>2
  <2>5. Congruent(P, v, v) /\ Congruent(P, b, b)
    BY <1>1, <2>3, CongruentFacts
  <2>6. Congruent(P, a * v, r * v)
    BY <1>1, <2>1, <2>3, <2>5, CongruentFacts
  <2>7. Congruent(P, a * v, 1)
    BY <1>1, <2>3, <2>4, <2>6, CongruentTransitive
  <2>8. Congruent(P, (a * v) * b, 1 * b)
    BY <1>1, <2>4, <2>5, <2>7, CongruentProducts
  <2>9. Congruent(P, (a * b) * v, 0 * v)
    BY <1>1, <1>3, <2>3, <2>4, <2>5, CongruentProducts
  <2>10. 1 * b = b /\ 0 * v = 0
    BY <2>3
  <2> DEFINE w == (a * b) * v
  <2>11. w \in Int /\ Congruent(P, w, b) /\ Congruent(P, w, 0)
    BY <2>4, <2>8, <2>9, <2>10
  <2> HIDE DEF w
  <2>12. Congruent(P, b, w)
    BY <1>1, <2>11, CongruentFacts
  <2> QED BY <1>1, <2>11, <2>12, CongruentTransitive
<1> QED BY <1>2, <1>3, Zenon DEF NoZeroDivisorsMod

LEMMA Divide ==
    ASSUME NEW a \in Int, NEW b \in Int, ~ Congruent(P, a, 0)
    PROVE  \E k \in Int : Congruent(P, k * a, b)
<1> DEFINE r == a % P
           v == InverseMod(r)
           k == b * v
<1>1. P \in Nat \ {0}
  BY Parameters
<1>2. r \in Field /\ Congruent(P, a, r) /\ r \in Int
  BY Parameters
<1>3. r # 0
  BY <1>2
<1> HIDE DEF r
<1>4. v \in Int /\ Congruent(P, r * v, 1)
  BY <1>2, <1>3, InverseIs, Parameters
<1> HIDE DEF v
<1>5. Congruent(P, v, v) /\ Congruent(P, b, b)
  BY <1>1, <1>4, CongruentFacts
<1>6. Congruent(P, a * v, r * v) /\ a * v \in Int /\ r * v \in Int
  BY <1>1, <1>2, <1>4, <1>5, CongruentProducts
<1>7. Congruent(P, a * v, 1)
  BY <1>1, <1>4, <1>6, CongruentTransitive
<1>8. Congruent(P, b * (a * v), b * 1)
  BY <1>1, <1>5, <1>6, <1>7, CongruentProducts
<1>9. b * 1 = b /\ b * (a * v) = k * a /\ k \in Int
  BY <1>4
<1> QED BY <1>8, <1>9

\* Fewer than T points leave a polynomial that is zero at them and not at 0.
LEMMA VanishingPolynomial ==
    ASSUME NEW out \in SUBSET (1 .. K), Cardinality(out) < T
    PROVE  \E d \in Poly(T) : /\ ~ Congruent(P, d[1], 0)
                              /\ \A s \in out : Congruent(P, Value(T, d, s), 0)
<1> DEFINE k == Cardinality(out)
<1>1. /\ P \in Nat \ {0} /\ T \in Nat \ {0} /\ K \in Nat \ {0} /\ K < P
  BY Parameters
<1>2. k \in Nat /\ k <= T - 1 /\ ExistsBijection(1 .. k, out)
  <2>1. IsFiniteSet(out)
    <3>1. IsFiniteSet(1 .. K)
      BY <1>1, FS_Interval
    <3> QED BY <3>1, FS_Subset
  <2>2. k \in Nat /\ ExistsBijection(1 .. k, out)
    BY <2>1, FS_CardinalityType
  <2> QED BY <1>1, <2>2
<1> HIDE DEF k
<1>3. PICK a \in [1 .. k -> out] : \A s \in out : \E j \in 1 .. k : a[j] = s
  BY <1>2 DEF ExistsBijection, Bijection, Surjection
<1>4. a \in [1 .. k -> Int] /\ \A j \in 1 .. k : a[j] \in 1 .. K /\ a[j] \in Int
  <2>1. \A s \in out : s \in 1 .. K /\ s \in Int
    BY <1>1
  <2> QED BY <1>3, <2>1
<1> DEFINE b == [j \in 1 .. k |-> 1]
           degree == [j \in 0 .. k |-> j]
           factors(x) == Factors(k, a, b, x)
<1>5. b \in [1 .. k -> Int] /\ degree \in [0 .. k -> 0 .. T - 1]
      /\ \A j \in 1 .. k : b[j] = 1 /\ degree[j] = degree[j - 1] + 1
  BY <1>1, <1>2
<1>6. \A x \in Int : \A j \in 1 .. k : factors(x)[j] = a[j] - b[j] * x
  BY DEF Factors
<1> HIDE DEF b, degree, factors
<1>7. PICK d \in Poly(T) : \A x \in Int : Value(T, d, x) = Products(k, factors(x))[k]
  <2>1. CountsDegrees(degree, T, k, b)
    BY <1>5 DEF CountsDegrees
  <2>2. \E d \in Poly(T) : \A x \in Int :
           Value(T, d, x) = Products(k, Factors(k, a, b, x))[k]
    BY <1>1, <1>2, <1>4, <1>5, <2>1, ProductPolynomial
  <2> QED BY <2>2 DEF factors
<1>8. \A x \in Int : factors(x) \in [1 .. k -> Int]
  BY <1>2, <1>4, <1>5, FactorsAre DEF factors
<1>9. ASSUME NEW s \in out PROVE Congruent(P, Value(T, d, s), 0)
  <2>1. s \in Int
    BY <1>1
  <2>2. PICK j \in 1 .. k : a[j] = s
    BY <1>3
  <2>3. factors(s)[j] = 0
    <3>1. factors(s)[j] = s - 1 * s
      BY <1>5, <1>6, <2>1, <2>2
    <3> QED BY <2>1, <3>1
  <2>4. Congruent(P, factors(s)[j], 0)
    <3>1. 0 - 0 = P * 0
      BY <1>1
    <3> QED BY <2>3, <3>1 DEF Congruent
  <2>5. Congruent(P, Products(k, factors(s))[k], 0)
    BY <1>1, <1>2, <1>8, <2>1, <2>4, VanishingProduct
  <2> QED BY <1>7, <2>1, <2>5
<1>10. ~ Congruent(P, d[1], 0)
  <2>1. ASSUME NEW j \in 1 .. k PROVE ~ Congruent(P, factors(0)[j], 0)
    <3>1. factors(0)[j] = a[j]
      BY <1>4, <1>5, <1>6
    <3>2. a[j] \in Field /\ a[j] # 0 /\ 0 \in Field
      BY <1>1, <1>4 DEF Field
    <3> QED BY <3>1, <3>2, Parameters
  <2>2. ~ Congruent(P, Products(k, factors(0))[k], 0)
    <3> DEFINE f == factors(0)
    <3>1. f \in [1 .. k -> Int] /\ \A j \in 1 .. k : ~ Congruent(P, f[j], 0)
      BY <1>8, <2>1
    <3> HIDE DEF f
    <3>2. ~ Congruent(P, Products(k, f)[k], 0)
      BY <1>1, <1>2, <3>1, NoZeroDivisors, NonzeroProduct
    <3> QED BY <3>2 DEF f
  <2>3. Value(T, d, 0) = d[1]
    BY <1>1, ValueAtZero
  <2> QED BY <1>7, <2>2, <2>3
<1> QED BY <1>9, <1>10

\* The polynomials with constant term e that fit the shares s in out of c.
Fitting(out, c, e) ==
    {p \in Polynomials(e) :
        \A s \in out : EvaluatePolynomial(p, s) = EvaluatePolynomial(c, s)}

\* Adding the right multiple of that polynomial turns the polynomials that fit
\* one constant term into polynomials that fit the other.
LEMMA FittingInjects ==
    ASSUME NEW out \in SUBSET (1 .. K), Cardinality(out) < T,
           NEW c \in [1 .. T -> Field], NEW e1 \in Field, NEW e2 \in Field
    PROVE  /\ IsFiniteSet(Fitting(out, c, e2))
           /\ \E f : f \in Injection(Fitting(out, c, e1), Fitting(out, c, e2))
<1>1. /\ P \in Nat \ {0} /\ T \in Nat \ {0} /\ T \in Nat /\ Field \subseteq Int
      /\ e1 \in Int /\ e2 \in Int /\ \A s \in out : s \in Int
  BY Parameters
<1>2. PICK d \in Poly(T) : /\ ~ Congruent(P, d[1], 0)
                           /\ \A s \in out : Congruent(P, Value(T, d, s), 0)
  BY VanishingPolynomial
<1>3. \A i \in 1 .. T : d[i] \in Int
  BY DEF Poly
<1>4. PICK k \in Int : Congruent(P, k * d[1], e2 - e1)
  <2>1. d[1] \in Int /\ e2 - e1 \in Int
    BY <1>1, <1>3
  <2> QED BY <1>2, <2>1, Divide
<1> DEFINE sum(p) == [i \in 1 .. T |-> p[i] + k * d[i]]
           moved(p) == [i \in 1 .. T |-> (p[i] + k * d[i]) % P]
<1>5. ASSUME NEW p \in [1 .. T -> Field], NEW i \in 1 .. T
      PROVE  /\ p[i] \in Int /\ k * d[i] \in Int /\ sum(p)[i] \in Int
             /\ sum(p)[i] = p[i] + k * d[i]
             /\ moved(p)[i] \in Field /\ Congruent(P, sum(p)[i], moved(p)[i])
  <2>1. p[i] \in Int /\ d[i] \in Int
    BY <1>1, <1>3
  <2>2. k * d[i] \in Int
    BY <2>1
  <2>3. p[i] + k * d[i] \in Int
    BY <2>1, <2>2
  <2>4. sum(p)[i] = p[i] + k * d[i] /\ moved(p)[i] = (p[i] + k * d[i]) % P
    OBVIOUS
  <2> QED BY <2>1, <2>2, <2>3, <2>4, Parameters
<1>6. ASSUME NEW p \in [1 .. T -> Field] PROVE moved(p) \in [1 .. T -> Field]
  <2>1. \A i \in 1 .. T : (p[i] + k * d[i]) % P \in Field
    BY <1>5
  <2> QED BY <2>1
<1>7. ASSUME NEW p \in [1 .. T -> Field]
      PROVE  sum(p) \in Poly(T) /\ \A x \in Int : Value(T, sum(p), x) = Value(T, p, x) + k * Value(T, d, x)
  <2>1. p \in Poly(T)
    BY <1>1 DEF Poly
  <2> QED BY <1>1, <2>1, CombinedValue
<1> HIDE DEF sum, moved
<1>8. ASSUME NEW p \in [1 .. T -> Field], p[1] = e1 PROVE moved(p)[1] = e2
  <2>1. 1 \in 1 .. T
    BY <1>1
  <2>2. /\ sum(p)[1] = e1 + k * d[1] /\ k * d[1] \in Int /\ sum(p)[1] \in Int
        /\ moved(p)[1] \in Field /\ Congruent(P, sum(p)[1], moved(p)[1])
    BY <1>5, <1>8, <2>1
  <2>3. Congruent(P, e1, e1) /\ e2 - e1 \in Int /\ e1 + (e2 - e1) = e2
    <3>1. Congruent(P, e1, e1)
      BY <1>1, CongruentFacts
    <3>2. e2 - e1 \in Int /\ e1 + (e2 - e1) = e2
      BY <1>1
    <3> QED BY <3>1, <3>2
  <2>4. Congruent(P, e1 + k * d[1], e1 + (e2 - e1))
    BY <1>1, <1>4, <2>2, <2>3, CongruentSums
  <2>5. Congruent(P, sum(p)[1], e2)
    BY <2>2, <2>3, <2>4
  <2>6. moved(p)[1] \in Int /\ Congruent(P, moved(p)[1], sum(p)[1])
    BY <1>1, <2>2, CongruentFacts
  <2>7. Congruent(P, moved(p)[1], e2)
    BY <1>1, <2>2, <2>5, <2>6, CongruentTransitive
  <2> QED BY <2>2, <2>7, Parameters
<1>9. ASSUME NEW p \in [1 .. T -> Field], NEW s \in out
      PROVE  EvaluatePolynomial(moved(p), s) = EvaluatePolynomial(p, s)
  <2> DEFINE u == Value(T, p, s)
             v == Value(T, d, s)
             w == Value(T, sum(p), s)
             y == Value(T, moved(p), s)
  <2>1. s \in Int /\ p \in Poly(T) /\ sum(p) \in Poly(T) /\ moved(p) \in Poly(T)
    BY <1>1, <1>6, <1>7 DEF Poly
  <2>2. u \in Int /\ v \in Int /\ w \in Int /\ y \in Int
    BY <1>1, <2>1, PartialValues
  <2>3. /\ EvaluatePolynomial(p, s) \in Field /\ Congruent(P, EvaluatePolynomial(p, s), u)
        /\ EvaluatePolynomial(moved(p), s) \in Field
        /\ Congruent(P, EvaluatePolynomial(moved(p), s), y)
    BY <1>6, <2>1, EvaluateIs
  <2>4. Congruent(P, w, y)
    BY <1>1, <1>5, <2>1, SameValues
  <2>5. w = u + k * v /\ Congruent(P, v, 0)
    BY <1>2, <1>7, <2>1
  <2> HIDE DEF u, v, w, y
  <2>6. Congruent(P, w, u)
    <3>1. Congruent(P, k, k) /\ Congruent(P, u, u)
      BY <1>1, <2>2, CongruentFacts
    <3>2. Congruent(P, k * v, k * 0) /\ k * v \in Int /\ k * 0 \in Int
      BY <1>1, <2>2, <2>5, <3>1, CongruentProducts
    <3>3. Congruent(P, u + k * v, u + k * 0)
      BY <1>1, <2>2, <3>1, <3>2, CongruentSums
    <3>4. u + k * 0 = u
      BY <2>2
    <3> QED BY <2>5, <3>3, <3>4
  <2>7. Congruent(P, y, u)
    BY <1>1, <2>2, <2>4, <2>6, CongruentFacts
  <2> DEFINE l == EvaluatePolynomial(moved(p), s)
             r == EvaluatePolynomial(p, s)
  <2>8. l \in Field /\ r \in Field /\ l \in Int /\ r \in Int
        /\ Congruent(P, l, y) /\ Congruent(P, r, u)
    BY <1>1, <2>3
  <2> HIDE DEF l, r
  <2>9. Congruent(P, l, u) /\ Congruent(P, u, r)
    BY <1>1, <2>2, <2>7, <2>8, CongruentFacts
  <2>10. Congruent(P, l, r)
    BY <1>1, <2>2, <2>8, <2>9, CongruentTransitive
  <2>11. l = r
    BY <2>8, <2>10, Parameters
  <2> QED BY <2>11 DEF l, r
<1>10. ASSUME NEW p \in [1 .. T -> Field], NEW q \in [1 .. T -> Field], moved(p) = moved(q)
       PROVE  p = q
  <2>1. ASSUME NEW i \in 1 .. T PROVE p[i] = q[i]
    <3> DEFINE b == k * d[i]
               z == moved(p)[i]
    <3>1. /\ p[i] \in Field /\ q[i] \in Field /\ p[i] \in Int /\ q[i] \in Int /\ b \in Int
          /\ sum(p)[i] = p[i] + b /\ sum(q)[i] = q[i] + b
          /\ z \in Field /\ Congruent(P, sum(p)[i], z) /\ Congruent(P, sum(q)[i], z)
      BY <1>5, <1>10
    <3>2. z \in Int
      BY <1>1, <3>1
    <3> HIDE DEF b, z
    <3>3. p[i] + b \in Int /\ q[i] + b \in Int
      BY <3>1
    <3>4. Congruent(P, p[i] + b, z) /\ Congruent(P, q[i] + b, z)
      BY <3>1
    <3>5. Congruent(P, z, q[i] + b)
      BY <1>1, <3>2, <3>3, <3>4, CongruentFacts
    <3>6. Congruent(P, p[i] + b, q[i] + b)
      BY <1>1, <3>2, <3>3, <3>4, <3>5, CongruentTransitive
    <3>7. Congruent(P, p[i], q[i])
      BY <1>1, <3>1, <3>6, CongruentCancel
    <3> QED BY <3>1, <3>7, Parameters
  <2>2. p = [i \in 1 .. T |-> p[i]] /\ q = [i \in 1 .. T |-> q[i]]
    OBVIOUS
  <2> QED BY <2>1, <2>2
<1>11. IsFiniteSet(Fitting(out, c, e2))
  <2>1. IsFiniteSet(Field)
    BY <1>1, FS_Interval DEF Field
  <2>2. IsFiniteSet([1 .. T -> Field])
    BY <1>1, <2>1, FiniteFunctions
  <2>3. Fitting(out, c, e2) \in SUBSET [1 .. T -> Field]
    BY DEF Fitting, Polynomials
  <2> QED BY <2>2, <2>3, FS_Subset
<1> DEFINE F == Fitting(out, c, e1)
           G == Fitting(out, c, e2)
           f == [p \in F |-> moved(p)]
<1>12. ASSUME NEW p \in F PROVE moved(p) \in G /\ p \in [1 .. T -> Field]
  <2>1. p \in [1 .. T -> Field] /\ p[1] = e1
    BY DEF Fitting, Polynomials
  <2>2. moved(p) \in [1 .. T -> Field] /\ moved(p)[1] = e2
    BY <1>6, <1>8, <2>1
  <2>3. \A s \in out : EvaluatePolynomial(moved(p), s) = EvaluatePolynomial(c, s)
    BY <1>9, <2>1 DEF Fitting
  <2> QED BY <2>1, <2>2, <2>3 DEF Fitting, Polynomials
<1>13. f \in Injection(F, G)
  <2> HIDE DEF F, G
  <2>1. f \in [F -> G]
    BY <1>12
  <2>2. \A p, q \in F : f[p] = f[q] => p = q
    <3>1. ASSUME NEW p \in F, NEW q \in F, f[p] = f[q] PROVE p = q
      BY <1>10, <1>12, <3>1
    <3> QED BY <3>1
  <2> HIDE DEF f
  <2> QED BY <2>1, <2>2 DEF Injection, IsInjective
<1> QED BY <1>11, <1>13

\* For any fewer than T shares, as many polynomials of generate_polynomial fit
\* them with one constant term as with another.
THEOREM SameWays ==
    ASSUME NEW out \in SUBSET (1 .. K), Cardinality(out) < T,
           NEW c \in [1 .. T -> Field], NEW e1 \in Field, NEW e2 \in Field
    PROVE  Cardinality(Fitting(out, c, e1)) = Cardinality(Fitting(out, c, e2))
<1> DEFINE F == Fitting(out, c, e1)
           G == Fitting(out, c, e2)
<1>1. IsFiniteSet(F) /\ IsFiniteSet(G)
  BY FittingInjects
<1>2. PICK f : f \in Injection(F, G)
  BY FittingInjects
<1>3. PICK g : g \in Injection(G, F)
  BY FittingInjects
<1> HIDE DEF F, G
<1>4. Cardinality(F) <= Cardinality(G)
  BY <1>1, <1>2, FS_Injection
<1>5. Cardinality(G) <= Cardinality(F)
  BY <1>1, <1>3, FS_Injection
<1>6. Cardinality(F) \in Nat /\ Cardinality(G) \in Nat
  BY <1>1, FS_CardinalityType
<1>7. Cardinality(F) = Cardinality(G)
  BY <1>4, <1>5, <1>6
<1> QED BY <1>7 DEF F, G

-----------------------------------------------------------------------------
\* A difference in the field, and the inverse of one.
LEMMA MinusIs ==
    ASSUME NEW a \in Field, NEW b \in Field
    PROVE  /\ Minus(a, b) \in Field /\ Congruent(P, Minus(a, b), a - b)
           /\ a # b => Minus(a, b) # 0
<1>1. P \in Nat \ {0} /\ a \in Int /\ b \in Int /\ 0 \in Int
  BY Parameters
<1>2. a + P - b \in Int /\ a - b \in Int /\ (a + P - b) - (a - b) = P * 1
  BY <1>1
<1>3. Congruent(P, a + P - b, a - b)
  BY <1>2 DEF Congruent
<1> DEFINE u == a + P - b
           w == Minus(a, b)
<1>4. w \in Field /\ Congruent(P, u, w) /\ u \in Int
  BY <1>2, Parameters DEF Minus
<1>5. w \in Int /\ Congruent(P, u, a - b)
  BY <1>3, <1>4, Parameters
<1> HIDE DEF u, w
<1>6. Congruent(P, w, u)
  BY <1>1, <1>4, <1>5, CongruentFacts
<1>7. Congruent(P, w, a - b)
  BY <1>1, <1>2, <1>4, <1>5, <1>6, CongruentTransitive
<1>8. ASSUME w = 0 PROVE a = b
  <2>1. Congruent(P, 0, a - b)
    BY <1>7, <1>8
  <2>2. PICK k \in Int : 0 - (a - b) = P * k
    BY <2>1 DEF Congruent
  <2>3. b - a = P * k
    BY <1>1, <2>2
  <2>4. Congruent(P, b, a)
    BY <2>3 DEF Congruent
  <2> QED BY <2>4, Parameters
<1> QED BY <1>4, <1>7, <1>8 DEF w

\* The weight of the i-th value in the interpolation at 0.
Factor(xs, i, j) == Minus(0, xs[j]) * InverseMod(Minus(xs[i], xs[j]))

Basis(xs, i) == ProductMod([j \in 1 .. T |-> IF j = i THEN 1 ELSE Factor(xs, i, j)])

Distinct(xs) ==
    /\ xs \in [1 .. T -> 1 .. K]
    /\ \A i, j \in 1 .. T : i # j => xs[i] # xs[j]

\* It is the value at 0 of a polynomial that is 1 at the i-th point and 0 at
\* the others.
IsBasis(l, xs, i) ==
    /\ l \in Poly(T)
    /\ Congruent(P, Value(T, l, 0), Basis(xs, i))
    /\ Congruent(P, Value(T, l, xs[i]), 1)
    /\ \A m \in 1 .. T : m # i => Congruent(P, Value(T, l, xs[m]), 0)

LEMMA BasisExists ==
    ASSUME NEW xs, Distinct(xs), NEW i \in 1 .. T
    PROVE  Basis(xs, i) \in Int /\ \E l : IsBasis(l, xs, i)
<1>1. /\ P \in Nat \ {0} /\ T \in Nat \ {0} /\ T \in Nat /\ K \in Nat /\ K < P
      /\ i \in Nat
  BY Parameters
<1>2. /\ \A j \in 1 .. T : xs[j] \in Field /\ xs[j] \in Int
      /\ 0 \in Field
  <2>1. \A j \in 1 .. T : xs[j] \in 1 .. K
    BY DEF Distinct
  <2> QED BY <1>1, <2>1 DEF Field
<1> DEFINE v(j) == InverseMod(Minus(xs[i], xs[j]))
           a == [j \in 1 .. T |-> IF j = i THEN 1 ELSE Factor(xs, i, j)]
           b == [j \in 1 .. T |-> IF j = i THEN 0 ELSE 0 - v(j)]
           degree == [j \in 0 .. T |-> IF j < i THEN j ELSE j - 1]
           factors(x) == Factors(T, a, b, x)
<1>3. ASSUME NEW j \in 1 .. T, j # i
      PROVE  /\ v(j) \in Int /\ Minus(0, xs[j]) \in Int
             /\ Congruent(P, (xs[i] - xs[j]) * v(j), 1)
             /\ Congruent(P, Minus(0, xs[j]), 0 - xs[j])
             /\ a[j] = Minus(0, xs[j]) * v(j) /\ b[j] = 0 - v(j)
  <2> DEFINE d == Minus(xs[i], xs[j])
  <2>1. xs[i] # xs[j]
    BY <1>3 DEF Distinct
  <2>2. d \in Field /\ d # 0 /\ Congruent(P, d, xs[i] - xs[j])
    BY <1>2, <2>1, MinusIs
  <2>3. Minus(0, xs[j]) \in Field /\ Congruent(P, Minus(0, xs[j]), 0 - xs[j])
    BY <1>2, MinusIs
  <2>4. v(j) = InverseMod(d)
    OBVIOUS
  <2>5. a[j] = Minus(0, xs[j]) * v(j) /\ b[j] = 0 - v(j)
    BY <1>3 DEF Factor
  <2> DEFINE w == v(j)
  <2> HIDE DEF d, v, a, b
  <2>6. w \in Field /\ Congruent(P, d * w, 1)
    BY <2>2, <2>4, InverseIs
  <2>7. w \in Int /\ d \in Int /\ xs[i] - xs[j] \in Int
    <3>1. Field \subseteq Int
      BY Parameters
    <3>2. xs[i] - xs[j] \in Int
      BY <1>2
    <3> QED BY <2>2, <2>6, <3>1, <3>2
  <2> HIDE DEF w
  <2>8. Congruent(P, xs[i] - xs[j], d) /\ Congruent(P, w, w)
    BY <1>1, <2>2, <2>7, CongruentFacts
  <2>9. Congruent(P, (xs[i] - xs[j]) * w, d * w) /\ (xs[i] - xs[j]) * w \in Int /\ d * w \in Int
    BY <1>1, <2>7, <2>8, CongruentProducts
  <2>10. Congruent(P, (xs[i] - xs[j]) * w, 1)
    BY <1>1, <2>6, <2>9, CongruentTransitive
  <2> QED BY <2>3, <2>5, <2>7, <2>10, Parameters DEF w
<1>4. a[i] = 1 /\ b[i] = 0
  OBVIOUS
<1>5. degree \in [0 .. T -> 0 .. T - 1]
      /\ \A j \in 1 .. T : \/ degree[j] = degree[j - 1] + 1
                           \/ j = i /\ degree[j] = degree[j - 1]
  BY <1>1
<1>6. Basis(xs, i) = ProductMod(a)
  BY DEF Basis
<1>7. a = [j \in 1 .. T |-> a[j]] /\ b = [j \in 1 .. T |-> b[j]]
  OBVIOUS
<1> HIDE DEF v, a, b, degree
<1>8. \A j \in 1 .. T : a[j] \in Int /\ b[j] \in Int
  <2>1. ASSUME NEW j \in 1 .. T, j # i PROVE a[j] \in Int /\ b[j] \in Int
    <3>1. Minus(0, xs[j]) * v(j) \in Int /\ 0 - v(j) \in Int
      BY <1>3, <2>1
    <3> QED BY <1>3, <2>1, <3>1
  <2> QED BY <1>4, <2>1
<1>9. a \in [1 .. T -> Int] /\ b \in [1 .. T -> Int]
  BY <1>7, <1>8
<1>10. PICK l \in Poly(T) : \A x \in Int : Value(T, l, x) = Products(T, factors(x))[T]
  <2>1. CountsDegrees(degree, T, T, b)
    BY <1>4, <1>5 DEF CountsDegrees
  <2>2. \E l \in Poly(T) : \A x \in Int :
           Value(T, l, x) = Products(T, Factors(T, a, b, x))[T]
    BY <1>1, <1>9, <2>1, ProductPolynomial
  <2> QED BY <2>2
<1>11. \A x \in Int : factors(x) \in [1 .. T -> Int]
                      /\ \A j \in 1 .. T : factors(x)[j] = a[j] - b[j] * x
  <2>1. \A x \in Int : factors(x) \in [1 .. T -> Int]
    BY <1>1, <1>9, FactorsAre
  <2>2. \A x \in Int : \A j \in 1 .. T : factors(x)[j] = a[j] - b[j] * x
    BY DEF Factors
  <2> QED BY <2>1, <2>2
<1> HIDE DEF factors
\* A factor at x is congruent to (x - x_j) / (x_i - x_j).
<1>12. ASSUME NEW j \in 1 .. T, j # i, NEW x \in Int
       PROVE  Congruent(P, factors(x)[j], (x - xs[j]) * v(j))
  <2> DEFINE n == Minus(0, xs[j])
             w == v(j)
  <2>1. /\ n \in Int /\ w \in Int /\ xs[j] \in Int
        /\ Congruent(P, n, 0 - xs[j])
        /\ factors(x)[j] = n * w - (0 - w) * x
    BY <1>2, <1>3, <1>11, <1>12
  <2> HIDE DEF n, w
  <2>2. PICK k \in Int : n - (0 - xs[j]) = P * k
    BY <2>1 DEF Congruent
  <2>3. factors(x)[j] - (x - xs[j]) * w = (n + xs[j]) * w
    <3>1. n * w - (0 - w) * x = n * w + x * w
      BY <2>1
    <3>2. (x - xs[j]) * w = x * w - xs[j] * w
      BY <2>1
    <3>3. (n + xs[j]) * w = n * w + xs[j] * w
      BY <2>1
    <3>4. n * w \in Int /\ x * w \in Int /\ xs[j] * w \in Int
      BY <2>1
    <3> QED BY <2>1, <3>1, <3>2, <3>3, <3>4
  <2>4. n + xs[j] = P * k
    BY <2>1, <2>2
  <2>5. (n + xs[j]) * w = P * (k * w) /\ k * w \in Int
    BY <1>1, <2>1, <2>4
  <2>6. Congruent(P, factors(x)[j], (x - xs[j]) * w)
    BY <2>3, <2>5 DEF Congruent
  <2> QED BY <2>6 DEF w
<1>13. Congruent(P, Value(T, l, 0), Basis(xs, i)) /\ Basis(xs, i) \in Int
  <2>1. factors(0) = a
    <3>1. \A j \in 1 .. T : factors(0)[j] = a[j]
      <4>1. ASSUME NEW j \in 1 .. T PROVE factors(0)[j] = a[j]
        <5>1. factors(0)[j] = a[j] - b[j] * 0 /\ a[j] \in Int /\ b[j] \in Int
          BY <1>8, <1>11
        <5> QED BY <5>1
      <4> QED BY <4>1
    <3>2. factors(0) \in [1 .. T -> Int]
      BY <1>11
    <3> DEFINE f == factors(0)
    <3>3. f \in [1 .. T -> Int] /\ \A j \in 1 .. T : f[j] = a[j]
      BY <3>1, <3>2
    <3> HIDE DEF f
    <3>4. f = [j \in 1 .. T |-> f[j]]
      BY <3>3
    <3>5. f = a
      BY <1>7, <3>3, <3>4
    <3> QED BY <3>5 DEF f
  <2>2. Value(T, l, 0) = Products(T, a)[T]
    BY <1>10, <2>1
  <2>3. /\ Basis(xs, i) \in Field /\ Congruent(P, Basis(xs, i), Products(T, a)[T])
        /\ Basis(xs, i) \in Int
    <3>1. ProductMod(a) \in Field /\ Congruent(P, ProductMod(a), Products(T, a)[T])
      BY <1>1, <1>9, ProductModIs
    <3>2. \A r \in Field : r \in Int
      BY Parameters
    <3> QED BY <1>6, <3>1, <3>2
  <2>4. Value(T, l, 0) \in Int
    BY <1>1, PartialValues
  <2> QED BY <1>1, <2>2, <2>3, <2>4, CongruentFacts
<1>14. Congruent(P, Value(T, l, xs[i]), 1)
  <2> DEFINE f == factors(xs[i])
  <2>1. xs[i] \in Int /\ f \in [1 .. T -> Int]
    BY <1>2, <1>11
  <2>2. ASSUME NEW j \in 1 .. T PROVE Congruent(P, f[j], 1)
    <3>1. CASE j = i
      <4>1. f[j] = 1 - 0 * xs[i]
        BY <1>4, <1>11, <2>1, <3>1
      <4>2. f[j] - 1 = P * 0
        BY <1>1, <2>1, <4>1
      <4> QED BY <4>2 DEF Congruent
    <3>2. CASE j # i
      <4>1. /\ Congruent(P, f[j], (xs[i] - xs[j]) * v(j))
            /\ Congruent(P, (xs[i] - xs[j]) * v(j), 1)
        BY <1>3, <1>12, <2>1, <3>2
      <4>2. f[j] \in Int /\ (xs[i] - xs[j]) * v(j) \in Int
        <5>1. v(j) \in Int /\ xs[i] - xs[j] \in Int
          BY <1>2, <1>3, <3>2
        <5>2. (xs[i] - xs[j]) * v(j) \in Int
          BY <5>1
        <5>3. f[j] \in Int
          <6> HIDE DEF f
          <6> QED BY <2>1
        <5> QED BY <5>2, <5>3
      <4> HIDE DEF f
      <4> QED BY <1>1, <4>1, <4>2, CongruentTransitive
    <3> QED BY <3>1, <3>2
  <2> HIDE DEF f
  <2>3. Congruent(P, Products(T, f)[T], 1)
    BY <1>1, <2>1, <2>2, UnitProduct
  <2> QED BY <1>10, <2>1, <2>3 DEF f
<1>15. ASSUME NEW m \in 1 .. T, m # i PROVE Congruent(P, Value(T, l, xs[m]), 0)
  <2> DEFINE f == factors(xs[m])
  <2>1. xs[m] \in Int /\ f \in [1 .. T -> Int]
    BY <1>2, <1>11
  <2>2. Congruent(P, f[m], 0)
    <3>1. Congruent(P, f[m], (xs[m] - xs[m]) * v(m)) /\ v(m) \in Int
      BY <1>3, <1>12, <1>15, <2>1
    <3>2. (xs[m] - xs[m]) * v(m) = 0
      BY <2>1, <3>1
    <3> QED BY <3>1, <3>2
  <2> HIDE DEF f
  <2>3. Congruent(P, Products(T, f)[T], 0)
    BY <1>1, <2>1, <2>2, VanishingProduct
  <2> QED BY <1>10, <2>1, <2>3 DEF f
<1> QED BY <1>13, <1>14, <1>15 DEF IsBasis

\* lagrange_interpolate_at_zero, given the values of a polynomial with T
\* coefficients at T different indices, gives its constant term.
THEOREM InterpolationIs ==
    ASSUME NEW p \in [1 .. T -> Field], NEW xs, Distinct(xs)
    PROVE  LagrangeInterpolateAtZero(
               [i \in 1 .. T |-> <<xs[i], EvaluatePolynomial(p, xs[i])>>]) = p[1]
<1>1. /\ P \in Nat \ {0} /\ T \in Nat \ {0} /\ T \in Nat /\ K \in Nat /\ K < P
      /\ Field \subseteq Int
  BY Parameters
<1>2. \A j \in 1 .. T : xs[j] \in Field /\ xs[j] \in Int
  <2>1. \A j \in 1 .. T : xs[j] \in 1 .. K
    BY DEF Distinct
  <2> QED BY <1>1, <2>1 DEF Field
<1> DEFINE y == [i \in 1 .. T |-> EvaluatePolynomial(p, xs[i])]
           points == [i \in 1 .. T |-> <<xs[i], y[i]>>]
           f == [i \in 1 .. T |-> y[i] * Basis(xs, i)]
<1>3. LagrangeInterpolateAtZero(points) = SumMod(f)
  <2>1. \A i \in 1 .. T : points[i][1] = xs[i] /\ points[i][2] = y[i]
    OBVIOUS
  <2>2. DOMAIN points = 1 .. T
    OBVIOUS
  <2> HIDE DEF points, y
  <2>3. ASSUME NEW i \in 1 .. T
        PROVE  ProductMod([j \in DOMAIN points |->
                   IF j = i THEN 1
                   ELSE Minus(0, points[j][1])
                          * InverseMod(Minus(points[i][1], points[j][1]))]) = Basis(xs, i)
    <3>1. \A j \in 1 .. T :
             Minus(0, points[j][1]) * InverseMod(Minus(points[i][1], points[j][1]))
                = Factor(xs, i, j)
      BY <2>1 DEF Factor
    <3>2. [j \in DOMAIN points |->
                   IF j = i THEN 1
                   ELSE Minus(0, points[j][1])
                          * InverseMod(Minus(points[i][1], points[j][1]))]
            = [j \in 1 .. T |-> IF j = i THEN 1 ELSE Factor(xs, i, j)]
      BY <2>2, <3>1
    <3> QED BY <3>2 DEF Basis
  <2> QED BY <2>1, <2>2, <2>3 DEF LagrangeInterpolateAtZero
<1>4. \A i \in 1 .. T : y[i] \in Field /\ y[i] \in Int
                        /\ Congruent(P, y[i], Value(T, p, xs[i]))
  BY <1>1, <1>2, EvaluateIs
<1>5. p \in Poly(T) /\ p[1] \in Field /\ \A x \in Int : Value(T, p, x) \in Int
  <2>1. p \in Poly(T) /\ p[1] \in Field
    <3> HIDE DEF y, points, f
    <3>0. \A i \in 1 .. T : p[i] \in Field
      OBVIOUS
    <3>1. 1 \in 1 .. T
      BY <1>1
    <3>2. p \in [1 .. T -> Int]
      BY <1>1
    <3> QED BY <3>1, <3>2 DEF Poly
  <2> QED BY <1>1, <2>1, PartialValues
<1>6. points = [i \in 1 .. T |-> <<xs[i], EvaluatePolynomial(p, xs[i])>>]
  OBVIOUS
<1>7. \A i \in 1 .. T : f[i] = y[i] * Basis(xs, i)
  OBVIOUS
<1>8. f = [i \in 1 .. T |-> f[i]]
  OBVIOUS
<1> HIDE DEF y, points, f
<1>9. \A i \in 1 .. T : Basis(xs, i) \in Int /\ f[i] \in Int
  <2>1. ASSUME NEW i \in 1 .. T PROVE Basis(xs, i) \in Int /\ f[i] \in Int
    <3>1. Basis(xs, i) \in Int /\ y[i] \in Int
      BY <1>4, BasisExists
    <3>2. y[i] * Basis(xs, i) \in Int
      BY <3>1
    <3> QED BY <1>7, <3>1, <3>2
  <2> QED BY <2>1
<1>10. f \in [1 .. T -> Int]
  BY <1>8, <1>9
<1> DEFINE s == Sums(T, f)
<1>11. /\ s \in [0 .. T -> Int] /\ s[0] = 0 /\ s[T] \in Int
       /\ \A i \in 1 .. T : s[i] = s[i - 1] + f[i] /\ s[i - 1] \in Int
  <2>1. IsSums(s, T, f)
    BY <1>1, <1>10, SumsAre
  <2> HIDE DEF s
  <2>2. s \in [0 .. T -> Int] /\ s[0] = 0 /\ \A i \in 1 .. T : s[i] = s[i - 1] + f[i]
    BY <2>1 DEF IsSums
  <2>3. T \in 0 .. T /\ \A i \in 1 .. T : i - 1 \in 0 .. T
    BY <1>1
  <2> QED BY <2>2, <2>3
\* A polynomial through the first m points and zero at the others.
<1> DEFINE Through(d, m) ==
              /\ d \in Poly(T)
              /\ Congruent(P, Value(T, d, 0), s[m])
              /\ \A j \in 1 .. T :
                    Congruent(P, Value(T, d, xs[j]), IF j <= m THEN y[j] ELSE 0)
           A == {m \in 0 .. T : \E d : Through(d, m)}
<1> HIDE DEF s
<1>12. 0 \in A
  <2> DEFINE d == [i \in 1 .. T |-> 0]
  <2>1. d \in Poly(T) /\ d[1] = 0 /\ \A i \in 2 .. T : d[i] = 0
    BY <1>1 DEF Poly
  <2> HIDE DEF d
  <2>2. \A x \in Int : Value(T, d, x) = 0
    BY <1>1, <2>1, ValueAtZero
  <2>3. Congruent(P, 0, 0)
    <3>1. 0 - 0 = P * 0
      BY <1>1
    <3> QED BY <3>1 DEF Congruent
  <2>4. Congruent(P, Value(T, d, 0), s[0])
    BY <1>11, <2>2, <2>3
  <2>5. \A j \in 1 .. T : Congruent(P, Value(T, d, xs[j]), IF j <= 0 THEN y[j] ELSE 0)
    BY <1>2, <2>2, <2>3
  <2>6. Through(d, 0)
    BY <2>1, <2>4, <2>5
  <2> HIDE DEF Through
  <2> QED BY <1>1, <2>6
<1>13. ASSUME NEW m \in 1 .. T, m - 1 \in A PROVE m \in A
  <2>1. PICK d : Through(d, m - 1)
    BY <1>13
  <2>2. PICK l : IsBasis(l, xs, m)
    BY BasisExists
  <2> DEFINE k == y[m]
             e == [i \in 1 .. T |-> d[i] + k * l[i]]
  <2>3. k \in Int /\ l \in Poly(T) /\ Congruent(P, k, k)
    BY <1>1, <1>4, <2>2, CongruentFacts DEF IsBasis
  <2> HIDE DEF k
  <2>4. e \in Poly(T) /\ \A x \in Int : Value(T, e, x) = Value(T, d, x) + k * Value(T, l, x)
    BY <1>1, <2>1, <2>3, CombinedValue
  <2>5. \A x \in Int : Value(T, d, x) \in Int /\ Value(T, l, x) \in Int
    BY <1>1, <2>1, <2>3, PartialValues
  <2> HIDE DEF e
  <2>6. Congruent(P, Value(T, e, 0), s[m])
    <3> DEFINE u == Value(T, d, 0)
               v == Value(T, l, 0)
               w == Basis(xs, m)
               r == s[m - 1]
    <3>1. Congruent(P, v, w) /\ v \in Int /\ w \in Int
      BY <1>9, <2>2, <2>5 DEF IsBasis
    <3>2. Congruent(P, u, r) /\ u \in Int /\ r \in Int
      BY <1>11, <2>1, <2>5
    <3>3. Value(T, e, 0) = u + k * v /\ s[m] = r + k * w
      BY <1>7, <1>11, <2>4 DEF k
    <3> HIDE DEF u, v, w, r
    <3>4. Congruent(P, k * v, k * w) /\ k * v \in Int /\ k * w \in Int
      BY <1>1, <2>3, <3>1, CongruentProducts
    <3>5. Congruent(P, u + k * v, r + k * w)
      BY <1>1, <3>2, <3>4, CongruentSums
    <3> QED BY <3>3, <3>5
  <2>7. ASSUME NEW j \in 1 .. T
        PROVE  Congruent(P, Value(T, e, xs[j]), IF j <= m THEN y[j] ELSE 0)
    <3> DEFINE u == Value(T, d, xs[j])
               v == Value(T, l, xs[j])
    <3>1. /\ u \in Int /\ v \in Int /\ Value(T, e, xs[j]) = u + k * v
          /\ Congruent(P, u, IF j <= m - 1 THEN y[j] ELSE 0)
      BY <1>2, <2>1, <2>4, <2>5
    <3>2. /\ j = m => Congruent(P, v, 1)
          /\ j # m => Congruent(P, v, 0)
      BY <2>2 DEF IsBasis
    <3> HIDE DEF u, v
    <3>3. CASE j = m
      <4>1. Congruent(P, u, 0) /\ Congruent(P, v, 1)
        <5>1. ~ (j <= m - 1)
          BY <3>3
        <5> QED BY <3>1, <3>2, <3>3, <5>1
      <4>2. Congruent(P, k * v, k * 1) /\ k * v \in Int /\ k * 1 \in Int
        BY <1>1, <2>3, <3>1, <4>1, CongruentProducts
      <4>3. Congruent(P, u + k * v, 0 + k * 1)
        BY <1>1, <3>1, <4>1, <4>2, CongruentSums
      <4>4. 0 + k * 1 = y[j] /\ j <= m
        BY <2>3, <3>3 DEF k
      <4> QED BY <3>1, <4>3, <4>4
    <3>4. CASE j # m
      <4> DEFINE w == IF j <= m THEN y[j] ELSE 0
      <4>1. w \in Int /\ Congruent(P, u, w) /\ Congruent(P, v, 0)
        <5>1. j <= m - 1 <=> j <= m
          BY <3>4
        <5>2. y[j] \in Int
          BY <1>4
        <5> QED BY <3>1, <3>2, <3>4, <5>1, <5>2
      <4> HIDE DEF w
      <4>2. Congruent(P, k * v, k * 0) /\ k * v \in Int /\ k * 0 \in Int
        BY <1>1, <2>3, <3>1, <4>1, CongruentProducts
      <4>3. Congruent(P, u + k * v, w + k * 0)
        BY <1>1, <3>1, <4>1, <4>2, CongruentSums
      <4>4. w + k * 0 = w
        BY <2>3, <4>1
      <4> QED BY <3>1, <4>3, <4>4 DEF w
    <3> QED BY <3>3, <3>4
  <2>8. Through(e, m)
    BY <2>4, <2>6, <2>7
  <2>9. m \in 0 .. T
    OBVIOUS
  <2> HIDE DEF Through
  <2> QED BY <2>8, <2>9
<1>14. PICK d : Through(d, T)
  <2>1. \A m \in 1 .. T : m - 1 \in A => m \in A
    BY <1>13
  <2>2. 0 .. T \subseteq A
    <3> HIDE DEF A
    <3> QED BY <1>1, <1>12, <2>1, IntervalInduction
  <2>3. T \in A
    <3> HIDE DEF A
    <3> QED BY <1>1, <2>2
  <2> HIDE DEF Through
  <2> QED BY <2>3
\* It differs from p by a polynomial with T roots.
<1> DEFINE k == 0 - 1
           e == [i \in 1 .. T |-> d[i] + k * p[i]]
<1>15. k \in Int /\ d \in Poly(T)
  BY <1>14
<1> HIDE DEF k
<1>16. e \in Poly(T) /\ \A x \in Int : Value(T, e, x) = Value(T, d, x) + k * Value(T, p, x)
  <2>1. T \in Nat /\ d \in Poly(T) /\ p \in Poly(T) /\ k \in Int
    BY <1>1, <1>5, <1>15
  <2> HIDE DEF Through, A
  <2> QED BY <2>1, CombinedValue
<1>17. \A x \in Int : Value(T, d, x) \in Int
  BY <1>1, <1>15, PartialValues
<1>18. e[1] = d[1] + k * p[1] /\ 1 \in 1 .. T
  BY <1>1
<1> HIDE DEF e
<1>19. ASSUME NEW j \in 1 .. T PROVE Congruent(P, Value(T, e, xs[j]), 0)
  <2> DEFINE u == Value(T, d, xs[j])
             v == Value(T, p, xs[j])
  <2>1. /\ u \in Int /\ v \in Int /\ y[j] \in Int
        /\ Value(T, e, xs[j]) = u + k * v /\ Congruent(P, y[j], v)
    BY <1>2, <1>4, <1>5, <1>16, <1>17
  <2>2. Congruent(P, u, y[j])
    <3>1. j <= T
      BY <1>1
    <3> QED BY <1>14, <3>1
  <2> HIDE DEF u, v
  <2>3. Congruent(P, u, v)
    BY <1>1, <2>1, <2>2, CongruentTransitive
  <2>4. u + k * v = u - v
    BY <2>1 DEF k
  <2>5. PICK q \in Int : u - v = P * q
    BY <2>3 DEF Congruent
  <2>6. (u + k * v) - 0 = P * q
    BY <2>1, <2>4, <2>5
  <2> QED BY <2>1, <2>6 DEF Congruent
<1>20. Congruent(P, e[1], 0)
  <2>1. xs \in [1 .. T -> Int]
    <3>1. xs \in [1 .. T -> 1 .. K]
      BY DEF Distinct
    <3> QED BY <1>1, <1>2, <3>1
  <2>2. \A i, j \in 1 .. T : i # j => ~ Congruent(P, xs[i] - xs[j], 0)
    <3>1. ASSUME NEW i \in 1 .. T, NEW j \in 1 .. T, i # j, Congruent(P, xs[i] - xs[j], 0)
          PROVE  FALSE
      <4>1. PICK q \in Int : (xs[i] - xs[j]) - 0 = P * q
        BY <3>1 DEF Congruent
      <4>2. xs[i] - xs[j] = P * q
        BY <1>2, <4>1
      <4>3. Congruent(P, xs[i], xs[j])
        BY <4>2 DEF Congruent
      <4>4. xs[i] = xs[j]
        BY <1>2, <4>3, Parameters
      <4> QED BY <3>1, <4>4 DEF Distinct
    <3> QED BY <3>1
  <2>3. \A i \in 1 .. T : Congruent(P, e[i], 0)
    BY <1>1, <1>16, <1>19, <2>1, <2>2, NoZeroDivisors, FewRoots
  <2> QED BY <1>18, <2>3
<1>21. Congruent(P, d[1], p[1]) /\ d[1] \in Int /\ p[1] \in Int
  <2>1. d[1] \in Int /\ p[1] \in Int
    BY <1>5, <1>15, <1>18 DEF Poly
  <2>2. PICK q \in Int : e[1] - 0 = P * q
    BY <1>20 DEF Congruent
  <2>3. e[1] = d[1] - p[1]
    BY <1>18, <2>1 DEF k
  <2>4. d[1] - p[1] = P * q
    BY <2>1, <2>2, <2>3
  <2> QED BY <2>1, <2>4 DEF Congruent
<1>22. SumMod(f) \in Field /\ Congruent(P, SumMod(f), s[T])
  BY <1>1, <1>10, SumModIs DEF s
<1>23. Congruent(P, d[1], s[T])
  <2>1. Value(T, d, 0) = d[1]
    BY <1>1, <1>15, ValueAtZero
  <2> QED BY <1>14, <2>1
<1>24. SumMod(f) = p[1]
  <2> DEFINE r == SumMod(f)
  <2>1. r \in Field /\ r \in Int /\ Congruent(P, r, s[T])
    BY <1>1, <1>22
  <2> HIDE DEF r
  <2>2. Congruent(P, s[T], d[1])
    BY <1>1, <1>11, <1>21, <1>23, CongruentFacts
  <2>3. Congruent(P, r, d[1])
    BY <1>1, <1>11, <1>21, <2>1, <2>2, CongruentTransitive
  <2>4. Congruent(P, r, p[1])
    BY <1>1, <1>21, <2>1, <2>3, CongruentTransitive
  <2>5. r = p[1]
    BY <1>5, <2>1, <2>4, Parameters
  <2> QED BY <2>5 DEF r
<1> QED BY <1>3, <1>6, <1>24

-----------------------------------------------------------------------------
\* n bytes hold Base ^ n numbers.
LEMMA ByteRangeIs ==
    ASSUME NEW n \in Nat
    PROVE  \E q : /\ q \in [0 .. n -> Nat] /\ q[0] = 1 /\ q[n] = ByteRange(n)
                  /\ \A i \in 1 .. n : q[i] = q[i - 1] * Base
<1> DEFINE f == [i \in 1 .. n |-> Base]
           step == [i \in 1 .. n |-> [v \in Nat |-> v * Base]]
           g == CHOOSE h : h = [s \in SUBSET DOMAIN f |->
                   IF s = {} THEN 1 ELSE h[s \ {Greatest(s)}] * f[Greatest(s)]]
<1>1. ByteRange(n) = g[DOMAIN f] /\ DOMAIN f = 1 .. n
  <2>1. ByteRange(n) = g[DOMAIN f]
    BY Zenon DEF ByteRange, FoldLeft, MapThenFoldSet, Max, Greatest
  <2> QED BY <2>1
<1>2. \A i \in 1 .. n : \A v \in Nat :
         v * Base \in Nat /\ step[i][v] = v * Base /\ f[i] = Base
  BY Parameters
<1>3. step \in [1 .. n -> [Nat -> Nat]] /\ 1 \in Nat
  BY <1>2
<1> HIDE DEF step, f
<1>4. PICK h : IsFold(h, n, Nat, 1, step)
  BY <1>3, FoldExists
<1>5. h = [s \in SUBSET DOMAIN f |->
                   IF s = {} THEN 1 ELSE h[s \ {Greatest(s)}] * f[Greatest(s)]]
  <2>1. ASSUME NEW s \in SUBSET (1 .. n), s # {}
        PROVE  step[Greatest(s)][h[s \ {Greatest(s)}]] =
                   h[s \ {Greatest(s)}] * f[Greatest(s)]
    <3>1. Greatest(s) \in 1 .. n
      BY <2>1, InitialIntervals
    <3>2. h[s \ {Greatest(s)}] \in Nat
      BY <1>4 DEF IsFold
    <3> QED BY <1>2, <3>1, <3>2
  <2>2. h = [s \in SUBSET (1 .. n) |->
               IF s = {} THEN 1 ELSE step[Greatest(s)][h[s \ {Greatest(s)}]]]
    BY <1>4, Zenon DEF IsFold
  <2> QED BY <1>1, <2>1, <2>2
<1>6. g = [s \in SUBSET DOMAIN f |->
                   IF s = {} THEN 1 ELSE g[s \ {Greatest(s)}] * f[Greatest(s)]]
  BY <1>5, Zenon
<1> HIDE DEF g
<1>7. g[{}] = 1
  BY <1>6
<1>8. ASSUME NEW i \in 1 .. n, g[1 .. i - 1] \in Nat
      PROVE  g[1 .. i] = step[i][g[1 .. i - 1]]
  <2>1. /\ 1 .. i \in SUBSET (1 .. n) /\ 1 .. i # {}
        /\ Greatest(1 .. i) = i /\ (1 .. i) \ {Greatest(1 .. i)} = 1 .. i - 1
    BY InitialIntervals
  <2>2. g[1 .. i] = g[1 .. i - 1] * f[i]
    BY <1>1, <1>6, <2>1
  <2> QED BY <1>2, <1>8, <2>2
<1>9. PICK r : IsLoop(r, n, Nat, 1, step) /\ r[n] = g[1 .. n]
  <2> DEFINE V == Nat
  <2>1. IsFolding(g, n, V, 1, step)
    BY <1>7, <1>8 DEF IsFolding
  <2>2. step \in [1 .. n -> [V -> V]] /\ 1 \in V /\ n \in Nat
    BY <1>3
  <2> HIDE DEF V
  <2>3. \E r : IsLoop(r, n, V, 1, step) /\ r[n] = g[1 .. n]
    BY <2>1, <2>2, FoldIsLoop
  <2> QED BY <2>3 DEF V
<1>10. r \in [0 .. n -> Nat] /\ r[0] = 1
  BY <1>9 DEF IsLoop
<1>11. \A i \in 1 .. n : r[i] = r[i - 1] * Base
  <2>1. \A i \in 1 .. n : r[i] = step[i][r[i - 1]] /\ r[i - 1] \in Nat
    BY <1>9, <1>10 DEF IsLoop
  <2> QED BY <1>2, <2>1
<1> QED BY <1>1, <1>9, <1>10, <1>11

\* The bytes of an element, read back by division, are those it was made of.
IsHorner(r, n, bytes) ==
    /\ r \in [0 .. n -> Nat] /\ r[0] = 0
    /\ \A i \in 1 .. n : r[i] = r[i - 1] * Base + bytes[(n - i) + 1]

LEMMA FromLeBytesIs ==
    ASSUME NEW bytes \in [1 .. ChunkSize -> 0 .. Base - 1]
    PROVE  \E r : IsHorner(r, ChunkSize, bytes) /\ FromLeBytes(bytes) = r[ChunkSize] % P
<1> DEFINE n == ChunkSize
           f == Reverse(bytes)
           step == [i \in 1 .. n |-> [v \in Nat |-> v * Base + f[i]]]
           g == CHOOSE h : h = [s \in SUBSET DOMAIN f |->
                   IF s = {} THEN 0 ELSE h[s \ {Greatest(s)}] * Base + f[Greatest(s)]]
<1>0. n \in Nat /\ Len(bytes) = n
  BY Parameters
<1>1. FromLeBytes(bytes) = g[DOMAIN f] % P
  BY Zenon DEF FromLeBytes, FoldLeft, MapThenFoldSet, Max, Greatest
<1>2. DOMAIN f = 1 .. n /\ \A i \in 1 .. n : f[i] = bytes[(n - i) + 1] /\ f[i] \in Nat
  <2>1. f = [i \in 1 .. n |-> bytes[(n - i) + 1]]
    BY <1>0 DEF Reverse
  <2>2. ASSUME NEW i \in 1 .. n PROVE bytes[(n - i) + 1] \in Nat
    <3>1. (n - i) + 1 \in 1 .. n
      BY <1>0
    <3>2. bytes[(n - i) + 1] \in 0 .. Base - 1
      BY <3>1
    <3> QED BY <3>2
  <2> HIDE DEF f
  <2> QED BY <2>1, <2>2
<1> HIDE DEF f, n
<1>3. \A i \in 1 .. n : \A v \in Nat :
         v * Base + f[i] \in Nat /\ step[i][v] = v * Base + f[i]
  <2>1. ASSUME NEW i \in 1 .. n, NEW v \in Nat PROVE v * Base + f[i] \in Nat
    <3>1. v * Base \in Nat
      BY Parameters
    <3> QED BY <1>2, <3>1
  <2> QED BY <2>1
<1>4. step \in [1 .. n -> [Nat -> Nat]] /\ 0 \in Nat
  BY <1>3
<1> HIDE DEF step
<1>5. PICK h : IsFold(h, n, Nat, 0, step)
  BY <1>0, <1>4, FoldExists
<1>6. h = [s \in SUBSET DOMAIN f |->
                   IF s = {} THEN 0 ELSE h[s \ {Greatest(s)}] * Base + f[Greatest(s)]]
  <2>1. ASSUME NEW s \in SUBSET (1 .. n), s # {}
        PROVE  step[Greatest(s)][h[s \ {Greatest(s)}]] =
                   h[s \ {Greatest(s)}] * Base + f[Greatest(s)]
    <3>1. Greatest(s) \in 1 .. n
      BY <1>0, <2>1, InitialIntervals
    <3>2. h[s \ {Greatest(s)}] \in Nat
      BY <1>5 DEF IsFold
    <3> QED BY <1>3, <3>1, <3>2
  <2>2. h = [s \in SUBSET (1 .. n) |->
               IF s = {} THEN 0 ELSE step[Greatest(s)][h[s \ {Greatest(s)}]]]
    BY <1>5, Zenon DEF IsFold
  <2> QED BY <1>2, <2>1, <2>2
<1>7. g = [s \in SUBSET DOMAIN f |->
                   IF s = {} THEN 0 ELSE g[s \ {Greatest(s)}] * Base + f[Greatest(s)]]
  BY <1>6, Zenon
<1> HIDE DEF g
<1>8. g[{}] = 0
  BY <1>7
<1>9. ASSUME NEW i \in 1 .. n, g[1 .. i - 1] \in Nat
      PROVE  g[1 .. i] = step[i][g[1 .. i - 1]]
  <2>1. /\ 1 .. i \in SUBSET (1 .. n) /\ 1 .. i # {}
        /\ Greatest(1 .. i) = i /\ (1 .. i) \ {Greatest(1 .. i)} = 1 .. i - 1
    BY <1>0, InitialIntervals
  <2>2. g[1 .. i] = g[1 .. i - 1] * Base + f[i]
    BY <1>2, <1>7, <2>1
  <2> QED BY <1>3, <1>9, <2>2
<1>10. PICK r : IsLoop(r, n, Nat, 0, step) /\ r[n] = g[1 .. n]
  <2> DEFINE V == Nat
  <2>1. IsFolding(g, n, V, 0, step)
    BY <1>8, <1>9 DEF IsFolding
  <2>2. step \in [1 .. n -> [V -> V]] /\ 0 \in V /\ n \in Nat
    BY <1>0, <1>4
  <2> HIDE DEF V
  <2>3. \E r : IsLoop(r, n, V, 0, step) /\ r[n] = g[1 .. n]
    BY <2>1, <2>2, FoldIsLoop
  <2> QED BY <2>3 DEF V
<1>11. r \in [0 .. n -> Nat] /\ r[0] = 0
  BY <1>10 DEF IsLoop
<1>12. \A i \in 1 .. n : r[i] = r[i - 1] * Base + bytes[(n - i) + 1]
  <2>1. \A i \in 1 .. n : r[i] = step[i][r[i - 1]] /\ r[i - 1] \in Nat
    BY <1>0, <1>10, <1>11 DEF IsLoop
  <2>2. ASSUME NEW i \in 1 .. n PROVE r[i] = r[i - 1] * Base + bytes[(n - i) + 1]
    <3>1. r[i] = r[i - 1] * Base + f[i]
      BY <1>3, <2>1
    <3> QED BY <1>2, <3>1
  <2> QED BY <2>2
<1>13. IsHorner(r, n, bytes)
  BY <1>11, <1>12 DEF IsHorner
<1> QED BY <1>1, <1>2, <1>10, <1>13 DEF n

\* A remainder below the divisor and its quotient are unique.
LEMMA DigitOf ==
    ASSUME NEW a \in Nat, NEW m \in Nat \ {0}, NEW b \in 0 .. m - 1
    PROVE  (a * m + b) \div m = a /\ (a * m + b) % m = b
<1>1. a * m \in Nat
  OBVIOUS
<1>2. a * m + b \in Nat
  BY <1>1
<1> QED BY <1>1, <1>2

LEMMA BytesRoundTrip ==
    ASSUME NEW bytes \in [1 .. ChunkSize -> 0 .. Base - 1]
    PROVE  FromLeBytes(bytes) \in Field /\ ToLeBytes(FromLeBytes(bytes)) = bytes
<1> DEFINE n == ChunkSize
<1>1. /\ n \in Nat \ {0} /\ n \in Nat /\ P \in Nat \ {0} /\ Base \in Nat \ {0}
      /\ ByteRange(n) <= P
  BY ShamirAssumption
<1>2. PICK r : IsHorner(r, n, bytes) /\ FromLeBytes(bytes) = r[n] % P
  BY FromLeBytesIs
<1>3. PICK q : /\ q \in [0 .. n -> Nat] /\ q[0] = 1 /\ q[n] = ByteRange(n)
               /\ \A i \in 1 .. n : q[i] = q[i - 1] * Base
  BY <1>1, ByteRangeIs
<1> HIDE DEF n
<1>4. /\ r \in [0 .. n -> Nat] /\ r[0] = 0
      /\ \A i \in 1 .. n : r[i] = r[i - 1] * Base + bytes[(n - i) + 1]
  BY <1>2 DEF IsHorner
<1>5. \A i \in 1 .. n : bytes[(n - i) + 1] \in 0 .. Base - 1
  <2>1. \A i \in 1 .. n : (n - i) + 1 \in 1 .. n
    BY <1>1
  <2> QED BY <2>1 DEF n
<1> DEFINE A == {i \in 0 .. n : r[i] < q[i]}
<1>6. 0 \in A
  BY <1>1, <1>3, <1>4
<1>7. ASSUME NEW i \in 1 .. n, i - 1 \in A PROVE i \in A
  <2> DEFINE a == r[i - 1]
             b == bytes[(n - i) + 1]
             c == q[i - 1]
  <2>1. /\ a \in Nat /\ c \in Nat /\ a + 1 <= c /\ b \in 0 .. Base - 1
        /\ r[i] = a * Base + b /\ q[i] = c * Base
    BY <1>3, <1>4, <1>5, <1>7
  <2> HIDE DEF a, b, c
  <2>2. c = a + 1 + (c - a - 1) /\ c - a - 1 \in Nat
    BY <2>1
  <2>3. (c - a - 1) * Base \in Nat
    BY <1>1, <2>2
  <2>4. c * Base = a * Base + Base + (c - a - 1) * Base
    BY <1>1, <2>1
  <2>5. a * Base \in Nat
    BY <1>1, <2>1
  <2>6. r[i] < q[i]
    BY <1>1, <2>1, <2>3, <2>4, <2>5
  <2> QED BY <2>6
<1>8. r[n] < P /\ r[n] \in Nat
  <2>1. \A i \in 1 .. n : i - 1 \in A => i \in A
    BY <1>7
  <2>2. 0 .. n \subseteq A
    <3> HIDE DEF A
    <3> QED BY <1>1, <1>6, <2>1, IntervalInduction
  <2>3. n \in 0 .. n
    BY <1>1
  <2>4. r[n] < q[n] /\ r[n] \in Nat /\ q[n] \in Nat
    BY <1>3, <1>4, <2>2, <2>3
  <2> QED BY <1>1, <1>3, <2>4
<1>9. FromLeBytes(bytes) = r[n] /\ r[n] \in Field
  <2>1. r[n] % P = r[n]
    BY <1>1, <1>8
  <2> QED BY <1>1, <1>2, <1>8, <2>1 DEF Field
<1> DEFINE rest == CHOOSE t : t = [k \in 0 .. n |->
                      IF k = 0 THEN r[n] ELSE t[k - 1] \div Base]
<1>10. ToLeBytes(r[n]) = [k \in 1 .. n |-> rest[k - 1] % Base]
  BY Zenon DEF ToLeBytes, n
<1>11. \A i \in 1 .. n : r[i] \div Base = r[i - 1] /\ r[i] % Base = bytes[(n - i) + 1]
  <2>1. ASSUME NEW i \in 1 .. n
        PROVE  r[i] \div Base = r[i - 1] /\ r[i] % Base = bytes[(n - i) + 1]
    <3> DEFINE a == r[i - 1]
               b == bytes[(n - i) + 1]
    <3>1. a \in Nat /\ b \in 0 .. Base - 1 /\ r[i] = a * Base + b
      <4> HIDE DEF A, rest
      <4>1. i - 1 \in 0 .. n
        BY <1>1
      <4> QED BY <1>4, <1>5, <4>1
    <3> HIDE DEF a, b
    <3>2. r[i] \div Base = a /\ r[i] % Base = b
      <4>1. (a * Base + b) \div Base = a /\ (a * Base + b) % Base = b
        BY <1>1, <3>1, DigitOf
      <4> QED BY <3>1, <4>1
    <3> QED BY <3>2 DEF a, b
  <2> QED BY <2>1
<1>12. rest = [k \in 0 .. n |-> IF k = 0 THEN r[n] ELSE rest[k - 1] \div Base]
  <2> DEFINE t == [k \in 0 .. n |-> r[n - k]]
  <2>1. ASSUME NEW k \in 0 .. n, k # 0 PROVE t[k] = t[k - 1] \div Base
    <3>1. t[k] = r[n - k] /\ t[k - 1] = r[(n - k) + 1] /\ (n - k) + 1 \in 1 .. n
      BY <1>1, <2>1
    <3>2. r[(n - k) + 1] \div Base = r[((n - k) + 1) - 1]
      BY <1>11, <3>1
    <3>3. ((n - k) + 1) - 1 = n - k
      BY <1>1
    <3> QED BY <3>1, <3>2, <3>3
  <2>2. t[0] = r[n] /\ 0 \in 0 .. n
    BY <1>1
  <2>3. t = [k \in 0 .. n |-> t[k]]
    OBVIOUS
  <2> HIDE DEF t
  <2>4. t = [k \in 0 .. n |-> IF k = 0 THEN r[n] ELSE t[k - 1] \div Base]
    BY <2>1, <2>2, <2>3
  <2> QED BY <2>4, Zenon
<1> HIDE DEF rest
<1>13. ASSUME NEW k \in 1 .. n PROVE rest[k - 1] % Base = bytes[k]
  <2> DEFINE B == {j \in 0 .. n : rest[j] = r[n - j]}
  <2>1. 0 \in B
    BY <1>1, <1>12
  <2>2. ASSUME NEW j \in 1 .. n, j - 1 \in B PROVE j \in B
    <3>1. rest[j] = rest[j - 1] \div Base /\ rest[j - 1] = r[n - (j - 1)]
      BY <1>12, <2>2
    <3>2. (n - j) + 1 \in 1 .. n /\ n - (j - 1) = (n - j) + 1 /\ ((n - j) + 1) - 1 = n - j
      BY <1>1
    <3>3. r[(n - j) + 1] \div Base = r[n - j]
      BY <1>11, <3>2
    <3> QED BY <3>1, <3>2, <3>3
  <2>3. 0 .. n \subseteq B
    <3>1. \A j \in 1 .. n : j - 1 \in B => j \in B
      BY <2>2
    <3> HIDE DEF B
    <3> QED BY <1>1, <2>1, <3>1, IntervalInduction
  <2>4. k - 1 \in 0 .. n /\ n - (k - 1) = (n - k) + 1 /\ (n - k) + 1 \in 1 .. n
        /\ (n - ((n - k) + 1)) + 1 = k
    BY <1>1
  <2>5. rest[k - 1] = r[(n - k) + 1]
    BY <2>3, <2>4
  <2>6. r[(n - k) + 1] % Base = bytes[(n - ((n - k) + 1)) + 1]
    BY <1>11, <2>4
  <2> QED BY <2>4, <2>5, <2>6
<1>14. bytes = [k \in 1 .. n |-> bytes[k]]
  BY DEF n
<1>15. [k \in 1 .. n |-> rest[k - 1] % Base] = bytes
  BY <1>13, <1>14
<1> QED BY <1>9, <1>10, <1>15

LEMMA QuotientOf ==
    ASSUME NEW a \in Nat, NEW m \in Nat \ {0}
    PROVE  /\ a \div m \in Nat /\ a % m \in 0 .. m - 1
           /\ a = (a \div m) * m + (a % m)
<1>1. a = m * (a \div m) + (a % m) /\ a \div m \in Nat /\ a % m \in 0 .. m - 1
  OBVIOUS
<1>2. m * (a \div m) = (a \div m) * m
  BY <1>1
<1> QED BY <1>1, <1>2

\* The chunks hold the message.
LEMMA ChunksHold ==
    ASSUME NEW data, Len(data) \in Nat
    PROVE  Chunks(data) \in Nat /\ Len(data) <= Chunks(data) * ChunkSize
<1> DEFINE n == ChunkSize
           l == Len(data)
           m == Chunks(data)
<1>1. n \in Nat \ {0} /\ n \in Nat /\ l \in Nat
  BY Parameters
<1>2. m \in Nat /\ l <= m * n
  <2>1. m = (l + n - 1) \div n
    BY DEF Chunks
  <2>2. \A a \in Nat : a \div n \in Nat /\ a < (a \div n) * n + n
    BY <1>1
  <2>3. l + n - 1 \in Nat
    BY <1>1
  <2> HIDE DEF l, m, n
  <2>4. m \in Nat /\ l + n - 1 < m * n + n
    BY <2>1, <2>2, <2>3
  <2>5. m * n \in Nat
    BY <1>1, <2>4
  <2> QED BY <1>1, <2>4, <2>5
<1> QED BY <1>2

\* field_elements_to_bytes gives back what bytes_to_field_elements was given,
\* with the zero bytes that fill its last chunk: no chunk is reduced modulo P.
THEOREM MessageRoundTrip ==
    ASSUME NEW data \in Seq(0 .. Base - 1),
           NEW out, out = FieldElementsToBytes(BytesToFieldElements(data))
    PROVE  /\ Len(out) = Chunks(data) * ChunkSize
           /\ SubSeq(out, 1, Len(data)) = data
           /\ \A i \in Len(data) + 1 .. Len(out) : out[i] = 0
<1> DEFINE n == ChunkSize
           l == Len(data)
           m == Chunks(data)
           es == BytesToFieldElements(data)
<1>1. /\ n \in Nat \ {0} /\ n \in Nat /\ Base \in Nat \ {0} /\ 0 \in 0 .. Base - 1
      /\ l \in Nat /\ data \in [1 .. l -> 0 .. Base - 1]
  <2>1. /\ n \in Nat \ {0} /\ n \in Nat /\ Base \in Nat \ {0}
    BY Parameters
  <2>2. 0 \in 0 .. Base - 1
    BY <2>1
  <2>3. l \in Nat /\ data \in [1 .. l -> 0 .. Base - 1]
    <3> DEFINE S == 0 .. Base - 1
    <3>1. data \in Seq(S)
      OBVIOUS
    <3> HIDE DEF S, n, m, es
    <3>2. l \in Nat /\ data \in [1 .. l -> S]
      BY <3>1
    <3> QED BY <3>2 DEF S
  <2> QED BY <2>1, <2>2, <2>3
<1>2. m \in Nat /\ l <= m * n
  BY <1>1, ChunksHold
<1>3. es = [c \in 1 .. m |-> FromLeBytes(Padded(data, c))]
  BY DEF BytesToFieldElements
<1>4. Len(es) = m
  <2> HIDE DEF m, es
  <2> QED BY <1>2, <1>3
<1>5. out = [i \in 1 .. m * n |-> ToLeBytes(es[((i - 1) \div n) + 1])[((i - 1) % n) + 1]]
  <2> HIDE DEF m, es
  <2> QED BY <1>4 DEF FieldElementsToBytes, es
<1>6. ASSUME NEW c \in 1 .. m
      PROVE  Padded(data, c) = [k \in 1 .. n |-> IF (c - 1) * n + k <= l
                                                 THEN data[(c - 1) * n + k] ELSE 0]
  BY DEF Padded
<1> HIDE DEF n, l, m, es
<1>7. ASSUME NEW c \in 1 .. m
      PROVE  /\ Padded(data, c) \in [1 .. ChunkSize -> 0 .. Base - 1]
             /\ ToLeBytes(es[c]) = Padded(data, c)
  <2>1. Padded(data, c) \in [1 .. n -> 0 .. Base - 1]
    <3>1. ASSUME NEW k \in 1 .. n, (c - 1) * n + k <= l
          PROVE  data[(c - 1) * n + k] \in 0 .. Base - 1
      <4>1. c - 1 \in Nat /\ k \in Nat /\ k >= 1
        BY <1>2
      <4>2. (c - 1) * n \in Nat
        BY <1>1, <4>1
      <4>3. (c - 1) * n + k \in 1 .. l
        BY <1>1, <3>1, <4>1, <4>2
      <4> QED BY <1>1, <4>3
    <3> QED BY <1>1, <1>6, <3>1
  <2>2. es[c] = FromLeBytes(Padded(data, c))
    BY <1>3
  <2> QED BY <2>1, <2>2, BytesRoundTrip DEF n
<1>8. ASSUME NEW i \in 1 .. m * n PROVE out[i] = IF i <= l THEN data[i] ELSE 0
  <2> DEFINE c == ((i - 1) \div n) + 1
             k == ((i - 1) % n) + 1
  <2>1. m * n \in Nat /\ i - 1 \in Nat /\ i - 1 < m * n
    BY <1>1, <1>2
  <2>2. PICK a \in Nat, b \in 0 .. n - 1 : i - 1 = a * n + b /\ a = (i - 1) \div n /\ b = (i - 1) % n
    <3> DEFINE x == i - 1
    <3> HIDE DEF x
    <3>1. /\ x \div n \in Nat /\ x % n \in 0 .. n - 1
          /\ x = (x \div n) * n + (x % n)
      BY <1>1, <2>1, QuotientOf DEF x
    <3>2. \E a \in Nat, b \in 0 .. n - 1 : x = a * n + b /\ a = x \div n /\ b = x % n
      BY <3>1
    <3> QED BY <3>2 DEF x
  <2>3. c = a + 1 /\ k = b + 1 /\ k \in 1 .. n
    BY <1>1, <2>2
  <2>4. a < m
    <3> SUFFICES ASSUME m <= a PROVE FALSE
      BY <1>2
    <3>1. a - m \in Nat
      BY <1>2
    <3>2. (a - m) * n \in Nat /\ a * n = m * n + (a - m) * n
      BY <1>1, <1>2, <3>1
    <3> QED BY <1>1, <2>1, <2>2, <3>2
  <2>5. c \in 1 .. m /\ (c - 1) * n + k = i
    <3>1. a + 1 \in 1 .. m /\ (a + 1) - 1 = a
      BY <1>2, <2>4
    <3>2. a * n \in Int
      BY <1>1
    <3>3. a * n + (b + 1) = i
      BY <2>1, <2>2, <3>2
    <3> QED BY <2>3, <3>1, <3>3
  <2>6. out[i] = ToLeBytes(es[c])[k]
    BY <1>5
  <2> HIDE DEF c, k
  <2>7. out[i] = Padded(data, c)[k]
    BY <1>7, <2>5, <2>6
  <2> QED BY <1>6, <2>3, <2>5, <2>7
<1>9. /\ m * n \in Nat /\ DOMAIN out = 1 .. m * n /\ Len(out) = m * n
      /\ out = [i \in 1 .. m * n |-> out[i]]
  <2>1. m * n \in Nat
    BY <1>1, <1>2
  <2> QED BY <1>5, <2>1
<1>10. SubSeq(out, 1, l) = data
  <2>1. \A i \in 1 .. l : i \in 1 .. m * n
    BY <1>1, <1>2, <1>9
  <2>2. \A i \in 1 .. l : out[i] = data[i]
    BY <1>8, <2>1
  <2>3. SubSeq(out, 1, l) = [i \in 1 .. l |-> out[i]]
    BY <1>1, <1>9
  <2>4. data = [i \in 1 .. l |-> data[i]]
    BY <1>1
  <2> QED BY <2>2, <2>3, <2>4
<1>11. ASSUME NEW i \in l + 1 .. m * n PROVE out[i] = 0
  <2>1. i \in 1 .. m * n /\ ~ (i <= l)
    BY <1>1, <1>9
  <2> QED BY <1>8, <2>1
<1> QED BY <1>9, <1>10, <1>11 DEF l, m, n
=============================================================================
