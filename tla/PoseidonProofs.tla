--------------------------- MODULE PoseidonProofs ---------------------------
(***************************************************************************)
(* Proofs about the two implementations of Poseidon, for every field in    *)
(* which the hash may be used, every number of rounds and all constants:   *)
(* that they agree, and that no round makes two inputs collide.  The       *)
(* second rests on the S-box and the matrix being invertible, which is     *)
(* proved here from the modulus being a prime with 5 not dividing P - 1.   *)
(***************************************************************************)
EXTENDS PoseidonGadget, FieldPolynomials, FiniteSetTheorems, TLAPS

\* Gadget and native hash count rounds and constants alike, and are in the
\* same state if they started in the same.
LockstepInv ==
    /\ round \in Nat
    /\ var_round = round /\ var_ctr = round_ctr
    /\ HashesAgree

\* One round of the gadget is one round of the native hash.
LEMMA SameRound ==
    ASSUME NEW s, NEW offset, NEW r
    PROVE  /\ mds_mix_gadget(s) = mds_mix(s)
           /\ add_round_constants_gadget(s, offset) = add_round_constants(s, offset)
           /\ full_sbox_gadget(s) = full_sbox(s)
           /\ partial_sbox_gadget(s) = partial_sbox(s)
<1>1. var_mds_matrix = mds_matrix
  BY Zenon DEF var_mds_matrix, mds_matrix
<1>2. var_round_constants = round_constants
  BY Zenon DEF var_round_constants, round_constants
<1>3. mds_mix_gadget(s) = mds_mix(s)
  BY <1>1, Zenon DEF mds_mix_gadget, mds_mix
<1>4. add_round_constants_gadget(s, offset) = add_round_constants(s, offset)
  BY <1>2, Zenon DEF add_round_constants_gadget, add_round_constants
<1>5. full_sbox_gadget(s) = full_sbox(s)
  BY Zenon DEF full_sbox_gadget, full_sbox, pow5_gadget, Pow5
<1>6. partial_sbox_gadget(s) = partial_sbox(s)
  BY Zenon DEF partial_sbox_gadget, partial_sbox, pow5_gadget, Pow5
<1> QED BY <1>3, <1>4, <1>5, <1>6

\* What NativeRound makes of a state.
RoundOf(s, o, r) ==
    mds_mix(IF IsFull(r) THEN full_sbox(add_round_constants(s, o))
                         ELSE partial_sbox(add_round_constants(s, o)))

\* The next states of both hashes, written with the same function.
LEMMA NextStates ==
    ASSUME Next, var_round = round, var_ctr = round_ctr, round \in Nat
    PROVE  /\ state' = RoundOf(state, round_ctr, round)
           /\ var_state' = RoundOf(var_state, round_ctr, round)
           /\ round < Rounds /\ round' = round + 1 /\ var_round' = round + 1
           /\ round_ctr' = round_ctr + T /\ var_ctr' = round_ctr + T
           /\ inputs' = inputs /\ left' = left /\ right' = right
<1> DEFINE s == add_round_constants(var_state, round_ctr)
<1>1. IsPartial_gadget(round) <=> ~IsFull(round)
  <2>1. round \in Nat /\ Half \in Nat /\ PartialRounds \in Nat
    BY PoseidonAssumption DEF Half
  <2> QED BY <2>1 DEF IsPartial_gadget, IsFull
<1>2. var_state' = mds_mix_gadget(IF IsPartial_gadget(round) THEN partial_sbox_gadget(s)
                                                           ELSE full_sbox_gadget(s))
  <2>1. add_round_constants_gadget(var_state, var_ctr) = s
    BY SameRound
  <2> QED BY <2>1 DEF Next, GadgetRound
<1> DEFINE a == IF IsFull(round) THEN full_sbox(s) ELSE partial_sbox(s)
<1>3. var_state' = mds_mix_gadget(a)
  BY <1>1, <1>2, SameRound
<1> HIDE DEF a
<1>4. var_state' = mds_mix(a)
  BY <1>3, SameRound
<1>5. var_state' = RoundOf(var_state, round_ctr, round)
  BY <1>4 DEF a, RoundOf
<1>6. state' = RoundOf(state, round_ctr, round)
  BY DEF Next, NativeRound, RoundOf
<1> QED BY <1>5, <1>6 DEF Next, NativeRound, GadgetRound

\* What hash pads with zeros is what hash_two is given.
LEMMA SameInitialState ==
    ASSUME Init, SameStart
    PROVE  var_state = state
<1>1. PICK args \in UNION {[1 .. n -> Sample] : n \in 0 .. T - 1} : NativeInit(args)
  BY DEF Init
<1>2. PICK l \in Sample, r \in Sample : GadgetInit(l, r)
  BY DEF Init
<1>3. PICK n \in 0 .. 2 : inputs \in [1 .. n -> Sample]
  BY <1>1 DEF NativeInit, T
<1>4. Len(inputs) = n
  BY <1>3
<1>5. ASSUME NEW i \in Lanes
      PROVE  (IF i < Len(inputs) THEN inputs[i + 1] ELSE 0)
               = (IF i = 0 THEN left ELSE IF i = 1 THEN right ELSE 0)
  BY <1>3, <1>4 DEF SameStart, Lanes, T
<1> QED BY <1>1, <1>2, <1>5 DEF NativeInit, GadgetInit

LEMMA LockstepInitial == Init => LockstepInv
<1> SUFFICES ASSUME Init PROVE LockstepInv
  OBVIOUS
<1>1. round \in Nat /\ var_round = round /\ var_ctr = round_ctr
  BY DEF Init, NativeInit, GadgetInit
<1>2. HashesAgree
  BY SameInitialState DEF HashesAgree
<1> QED BY <1>1, <1>2 DEF LockstepInv

LEMMA LockstepStep == LockstepInv /\ [Next]_vars => LockstepInv'
<1> SUFFICES ASSUME LockstepInv, [Next]_vars PROVE LockstepInv'
  OBVIOUS
<1>1. CASE Next
  <2> USE <1>1 DEF Next
  <2>1. SameStart' <=> SameStart
    BY DEF NativeRound, GadgetRound, SameStart
  <2>2. round' \in Nat /\ var_round' = round' /\ var_ctr' = round_ctr'
    BY DEF NativeRound, GadgetRound, LockstepInv
  <2>3. ASSUME SameStart PROVE var_state' = state'
    <3>1. var_state = state /\ var_ctr = round_ctr /\ var_round = round /\ round \in Nat
      BY <2>3 DEF LockstepInv, HashesAgree
    <3> QED BY <3>1, NextStates
  <2> QED BY <2>1, <2>2, <2>3 DEF LockstepInv, HashesAgree
<1>2. CASE UNCHANGED vars
  BY <1>2 DEF vars, nativeVars, LockstepInv, HashesAgree, SameStart
<1> QED BY <1>1, <1>2

\* HashesAgree for every modulus, number of rounds and table of constants: the
\* two implementations of Poseidon compute the same function.
THEOREM GadgetIsNative == Spec => []HashesAgree
<1>1. LockstepInv => HashesAgree
  BY DEF LockstepInv
<1> QED BY LockstepInitial, LockstepStep, <1>1, PTL DEF Spec

-----------------------------------------------------------------------------
\* Congruence modulo P.
Cong(a, b) == Congruent(P, a, b)

LEMMA Modulus == P \in Nat /\ P > 9
  BY PoseidonAssumption

LEMMA Residue ==
    ASSUME NEW a \in Int
    PROVE  a % P \in Field /\ Cong(a, a % P)
  BY Modulus, ResidueOf DEF Field, Cong

LEMMA CongFacts ==
    ASSUME NEW a \in Int, NEW b \in Int
    PROVE  /\ Cong(a, a)
           /\ Cong(a, b) => Cong(b, a)
           /\ \A c \in Int : Cong(a, b) /\ Cong(b, c) => Cong(a, c)
           /\ \A c \in Int, d \in Int :
                 Cong(a, b) /\ Cong(c, d) => Cong(a + c, b + d) /\ Cong(a * c, b * d)
<1>1. P \in Nat \ {0}
  BY Modulus
<1> QED BY <1>1, CongruentFacts DEF Cong

LEMMA SameResidue ==
    ASSUME NEW a \in Int, NEW b \in Int
    PROVE  a % P = b % P <=> Cong(a, b)
<1>1. P \in Nat \ {0}
  BY Modulus
<1> QED BY <1>1, SameRemainder DEF Cong

\* Elements of the field are equal if they are congruent.
LEMMA FieldCong ==
    ASSUME NEW a \in Field, NEW b \in Field, Cong(a, b)
    PROVE  a = b
<1>1. P \in Nat \ {0} /\ a \in 0 .. P - 1 /\ b \in 0 .. P - 1
  BY Modulus DEF Field
<1> QED BY <1>1, ResiduesDiffer DEF Cong

-----------------------------------------------------------------------------
\* Euclid's lemma: P divides no product of numbers that it does not divide.
\* The least m such that P divides m a divides P, and is not 1.
LEMMA NoZeroDivisors ==
    ASSUME NEW a \in Int, NEW b \in Int, Cong(a * b, 0)
    PROVE  Cong(a, 0) \/ Cong(b, 0)
<1> SUFFICES ASSUME ~ Cong(a, 0) PROVE Cong(b, 0)
  OBVIOUS
<1> DEFINE N == {m \in Nat \ {0} : Cong(m * a, 0)}
<1>1. P \in N
  <2>1. P * a - 0 = P * a /\ P \in Nat \ {0}
    BY Modulus
  <2> QED BY <2>1 DEF Cong, Congruent
<1>2. PICK m \in N : \A n \in N : m <= n
  <2>1. N \subseteq Nat /\ N # {}
    BY <1>1
  <2> QED BY <2>1, LeastElement
<1>3. m \in Nat \ {0} /\ Cong(m * a, 0) /\ m <= P
  BY <1>1, <1>2
\* What P divides with a, m divides.
<1>4. ASSUME NEW c \in Int, Cong(c * a, 0) PROVE c % m = 0
  <2> DEFINE r == c % m
  <2>1. r \in 0 .. m - 1 /\ \E q \in Int : c = m * q + r
    BY <1>3, Remainder
  <2> HIDE DEF r
  <2>2. PICK q \in Int : c = m * q + r
    BY <2>1
  <2>3. PICK k \in Int, l \in Int : c * a - 0 = P * k /\ m * a - 0 = P * l
    BY <1>3, <1>4 DEF Cong, Congruent
  <2>4. r \in Int /\ m * a \in Int /\ c * a \in Int
    BY <2>1, <1>3
  <2>5. r * a = c * a - q * (m * a)
    BY <2>2, <2>4, <1>3
  <2>6. r * a - 0 = P * (k - q * l)
    BY <2>3, <2>4, <2>5, Modulus
  <2>7. k - q * l \in Int
    OBVIOUS
  <2>8. Cong(r * a, 0)
    BY <2>6, <2>7 DEF Cong, Congruent
  <2>9. r = 0
    BY <1>2, <1>3, <2>1, <2>8
  <2> QED BY <2>9 DEF r
<1>5. P % m = 0
  <2>1. P \in Int /\ Cong(P * a, 0)
    BY <1>1, Modulus
  <2> QED BY <1>4, <2>1
<1>6. m # 1
  BY <1>3
<1>7. m = P
  <2>1. m \in 2 .. P - 1 => P % m # 0
    BY PoseidonAssumption, Zenon
  <2> QED BY <1>3, <1>5, <1>6, <2>1, Modulus
<1>8. Cong(b * a, 0)
  OBVIOUS
<1>9. b % P = 0
  BY <1>4, <1>7, <1>8
<1> QED BY <1>9, Residue

\* Multiplication by what is not zero can be undone.
LEMMA Cancel ==
    ASSUME NEW a \in Int, NEW b \in Int, NEW c \in Int, ~ Cong(c, 0), Cong(c * a, c * b)
    PROVE  Cong(a, b)
<1>1. PICK k \in Int : c * a - c * b = P * k
  BY DEF Cong, Congruent
<1>2. c * (a - b) - 0 = P * k
  BY <1>1
<1>3. Cong(c * (a - b), 0)
  BY <1>2 DEF Cong, Congruent
<1>4. Cong(a - b, 0)
  BY <1>3, NoZeroDivisors
<1>5. PICK l \in Int : (a - b) - 0 = P * l
  BY <1>4 DEF Cong, Congruent
<1>6. a - b = P * l
  BY <1>5
<1> QED BY <1>6 DEF Cong, Congruent

Units == 1 .. P - 1

LEMMA UnitFacts ==
    /\ \A u \in Units : u \in Field /\ u \in Int /\ ~ Cong(u, 0)
    /\ \A u \in Field : u \in Units \/ u = 0
    /\ \A u \in Field : u \in Int
<1>1. ASSUME NEW u \in Units, Cong(u, 0) PROVE FALSE
  <2>1. u \in Field /\ 0 \in Field
    BY Modulus DEF Units, Field
  <2>2. u = 0
    BY <1>1, <2>1, FieldCong
  <2> QED BY <2>2, Modulus DEF Units
<1> QED BY <1>1, Modulus DEF Units, Field

\* A factor that is not zero permutes the units.
LEMMA Permutes ==
    ASSUME NEW u \in Int, ~ Cong(u, 0)
    PROVE  [w \in Units |-> (u * w) % P] \in Injection(Units, Units)
<1> DEFINE f == [w \in Units |-> (u * w) % P]
<1>1. ASSUME NEW w \in Units PROVE f[w] \in Units /\ Cong(u * w, f[w])
  <2>1. u * w \in Int /\ ~ Cong(w, 0)
    BY UnitFacts
  <2>2. ~ Cong(u * w, 0)
    BY <2>1, NoZeroDivisors, UnitFacts
  <2>3. f[w] \in Field /\ Cong(u * w, f[w])
    BY <2>1, Residue
  <2> HIDE DEF f
  <2>4. f[w] # 0
    BY <2>2, <2>3
  <2> QED BY <2>3, <2>4, UnitFacts
<1>2. ASSUME NEW v \in Units, NEW w \in Units, f[v] = f[w] PROVE v = w
  <2>1. u * v \in Int /\ u * w \in Int /\ v \in Int /\ w \in Int
    BY UnitFacts
  <2>2. Cong(u * v, u * w)
    BY <1>2, <2>1, SameResidue
  <2>3. Cong(v, w)
    BY <2>1, <2>2, Cancel
  <2> QED BY <2>3, FieldCong, UnitFacts
<1> QED BY <1>1, <1>2 DEF Injection, IsInjective

\* Every unit has an inverse, the one that inverse(x) takes.
LEMMA InverseOf ==
    ASSUME NEW u \in Int, ~ Cong(u, 0)
    PROVE  inverse(u) \in Field /\ Cong(u * inverse(u), 1)
<1> DEFINE f == [w \in Units |-> (u * w) % P]
<1>1. IsFiniteSet(Units)
  BY Modulus, FS_Interval DEF Units
<1>2. f \in Surjection(Units, Units)
  <2>1. f \in Injection(Units, Units)
    BY Permutes
  <2> HIDE DEF f
  <2> QED BY <1>1, <2>1, FS_Injection
<1>3. 1 \in Units
  BY Modulus DEF Units
<1>4. PICK w \in Units : f[w] = 1
  BY <1>2, <1>3 DEF Surjection
<1>5. \E y \in Field : (u * y) % P = 1
  BY <1>4, UnitFacts
<1>6. inverse(u) \in Field /\ (u * inverse(u)) % P = 1
  BY <1>5 DEF inverse
<1> HIDE DEF inverse
<1>7. u * inverse(u) \in Int
  BY <1>6, UnitFacts
<1> QED BY <1>6, <1>7, Residue

-----------------------------------------------------------------------------
\* Of the subsets of a finite set, one contains no other.
LEMMA SmallestSubset ==
    ASSUME NEW U, IsFiniteSet(U), NEW B, B \subseteq SUBSET U, B # {}
    PROVE  \E S \in B : \A V \in B : V \subseteq S => V = S
<1> DEFINE R == StrictSubsetOrdering(U)
<1>1. IsWellFoundedOn(R, SUBSET U)
  BY FS_StrictSubsetOrderingWellFounded, FS_FiniteSubsetsOfFinite
<1>2. PICK S \in B : \A V \in B : ~ (<<V, S>> \in R)
  <2> HIDE DEF R
  <2> QED BY <1>1, WFMin
<1> QED BY <1>2 DEF StrictSubsetOrdering

\* Where five applications of f lead back and one leads elsewhere, U falls
\* into cycles of five.
LEMMA FiveCycles ==
    ASSUME NEW U, IsFiniteSet(U), NEW f \in [U -> U],
           \A v \in U : f[v] # v,
           \A v \in U : f[f[f[f[f[v]]]]] = v
    PROVE  Cardinality(U) % 5 = 0
<1> DEFINE Closed(S) == \A v \in S : f[v] \in S
           B == {S \in SUBSET U : Closed(S) /\ Cardinality(S) % 5 # 0}
<1>1. ASSUME NEW S \in SUBSET U, Closed(S), Cardinality(S) % 5 # 0
      PROVE  \E V \in B : V \subseteq S /\ V # S
  <2>1. IsFiniteSet(S) /\ Cardinality(S) \in Nat
    BY FS_Subset, FS_CardinalityType
  <2>2. S # {}
    BY <1>1, FS_EmptySet
  <2>3. PICK a \in S : TRUE
    BY <2>2
  <2> DEFINE b == f[a]  c == f[b]  d == f[c]  e == f[d]
             V == ((((S \ {a}) \ {b}) \ {c}) \ {d}) \ {e}
  <2>4. {a, b, c, d, e} \subseteq S /\ {a, b, c, d, e} \subseteq U
    BY <1>1
  <2>5. f[a] = b /\ f[b] = c /\ f[c] = d /\ f[d] = e /\ f[e] = a
    BY <2>4
  <2> HIDE DEF b, c, d, e
  <2>6. /\ a # b /\ b # c /\ c # d /\ d # e /\ e # a
    BY <2>4, <2>5
  <2>7. a # c /\ b # d /\ c # e /\ d # a /\ e # b
    BY <2>4, <2>5, <2>6
  <2>8. /\ IsFiniteSet(V) /\ Cardinality(V) = Cardinality(S) - 5
    <3> DEFINE S1 == S \ {a}  S2 == S1 \ {b}  S3 == S2 \ {c}  S4 == S3 \ {d}
    <3>0. \A W, x : IsFiniteSet(W) /\ x \in W =>
             IsFiniteSet(W \ {x}) /\ Cardinality(W \ {x}) = Cardinality(W) - 1
      BY FS_RemoveElement
    <3>1. b \in S1 /\ c \in S2 /\ d \in S3 /\ e \in S4
      BY <2>4, <2>6, <2>7
    <3>2. V = S4 \ {e}
      OBVIOUS
    <3> HIDE DEF V
    <3>3. IsFiniteSet(S1) /\ Cardinality(S1) = Cardinality(S) - 1
      BY <2>1, <3>0
    <3>4. S2 = S1 \ {b} /\ S3 = S2 \ {c} /\ S4 = S3 \ {d}
      OBVIOUS
    <3> HIDE DEF S1, S2, S3, S4
    <3>5. IsFiniteSet(S2) /\ Cardinality(S2) = Cardinality(S1) - 1
      BY <3>0, <3>1, <3>3, <3>4
    <3>6. IsFiniteSet(S3) /\ Cardinality(S3) = Cardinality(S2) - 1
      BY <3>0, <3>1, <3>4, <3>5
    <3>7. IsFiniteSet(S4) /\ Cardinality(S4) = Cardinality(S3) - 1
      BY <3>0, <3>1, <3>4, <3>6
    <3>8. IsFiniteSet(V) /\ Cardinality(V) = Cardinality(S4) - 1
      BY <3>0, <3>1, <3>2, <3>7
    <3> QED BY <2>1, <3>3, <3>5, <3>6, <3>7, <3>8
  <2>9. Closed(V)
    <3> SUFFICES ASSUME NEW v \in V, f[v] \in {a, b, c, d, e} PROVE FALSE
      BY <1>1
    <3>1. v \in U /\ v \notin {a, b, c, d, e}
      OBVIOUS
    <3> HIDE DEF V
    <3>2. f[f[f[f[f[v]]]]] \in {a, b, c, d, e}
      BY <2>5
    <3> QED BY <3>1, <3>2
  <2>10. Cardinality(V) \in Nat /\ Cardinality(V) % 5 # 0
    <3>1. Cardinality(V) \in Nat
      BY <2>8, FS_CardinalityType
    <3> HIDE DEF V
    <3> QED BY <1>1, <2>1, <2>8, <3>1
  <2>11. V \in SUBSET U /\ V \subseteq S /\ a \in S /\ a \notin V
    OBVIOUS
  <2>12. V \in B
    <3> HIDE DEF V
    <3> QED BY <2>9, <2>10, <2>11
  <2> HIDE DEF V, B
  <2> QED BY <2>11, <2>12
<1>2. ASSUME B # {} PROVE FALSE
  <2>1. PICK S \in B : \A V \in B : V \subseteq S => V = S
    <3>1. B \subseteq SUBSET U
      OBVIOUS
    <3> HIDE DEF B
    <3> QED BY <1>2, <3>1, SmallestSubset
  <2> QED BY <1>1, <2>1
<1>3. Closed(U)
  OBVIOUS
<1> QED BY <1>2, <1>3

-----------------------------------------------------------------------------
\* The S-box is one-to-one.

Fifth(x) == ((x * x) * (x * x)) * x

LEMMA FifthFacts ==
    ASSUME NEW x \in Int, NEW y \in Int
    PROVE  /\ Fifth(x) \in Int
           /\ Fifth(x * y) = Fifth(x) * Fifth(y)
           /\ Cong(x, y) => Cong(Fifth(x), Fifth(y))
<1>1. \A a \in Int, b \in Int : a * b \in Int
  OBVIOUS
<1>2. Fifth(x) \in Int
  BY <1>1 DEF Fifth
<1>3. Fifth(x * y) = Fifth(x) * Fifth(y)
  <2>1. \A a \in Int, b \in Int, c \in Int, d \in Int : (a * b) * (c * d) = (a * c) * (b * d)
    OBVIOUS
  <2>2. (x * y) * (x * y) = (x * x) * (y * y)
    BY <2>1
  <2> DEFINE x2 == x * x  y2 == y * y  x4 == x2 * x2  y4 == y2 * y2
  <2>3. x2 \in Int /\ y2 \in Int /\ x4 \in Int /\ y4 \in Int
    BY <1>1
  <2>4. (x2 * y2) * (x2 * y2) = x4 * y4
    <3> HIDE DEF x2, y2
    <3> QED BY <2>1, <2>3
  <2>5. (x4 * y4) * (x * y) = (x4 * x) * (y4 * y)
    <3> HIDE DEF x4, y4
    <3> QED BY <2>1, <2>3
  <2> QED BY <2>2, <2>4, <2>5, Zenon DEF Fifth
<1>4. ASSUME Cong(x, y) PROVE Cong(Fifth(x), Fifth(y))
  <2> DEFINE x2 == x * x  y2 == y * y  x4 == x2 * x2  y4 == y2 * y2
  <2>1. x2 \in Int /\ y2 \in Int /\ x4 \in Int /\ y4 \in Int
    BY <1>1
  <2>2. Cong(x2, y2)
    BY <1>4, CongFacts
  <2>3. Cong(x4, y4)
    <3> HIDE DEF x2, y2
    <3> QED BY <2>1, <2>2, CongFacts
  <2>4. Cong(x4 * x, y4 * y)
    <3> HIDE DEF x4, y4
    <3> QED BY <1>4, <2>1, <2>3, CongFacts
  <2> QED BY <2>4, Zenon DEF Fifth
<1> QED BY <1>2, <1>3, <1>4

LEMMA Pow5Is ==
    ASSUME NEW x \in Int
    PROVE  Pow5(x) \in Field /\ Cong(Fifth(x), Pow5(x))
<1> DEFINE x2 == (x * x) % P
           x4 == (x2 * x2) % P
           x5 == (x4 * x) % P
           y2 == x * x
           y4 == y2 * y2
<1>1. Pow5(x) = x5 /\ Fifth(x) = y4 * x
  BY DEF Pow5, Fifth
<1>2. y2 \in Int /\ x2 \in Int /\ Cong(y2, x2)
  BY Residue, UnitFacts
<1>3. y4 \in Int /\ x2 * x2 \in Int /\ Cong(y4, x2 * x2)
  <2> HIDE DEF x2, y2
  <2> QED BY <1>2, CongFacts
<1> HIDE DEF x2, y2
<1>4. x4 \in Int /\ Cong(x2 * x2, x4)
  BY <1>3, Residue, UnitFacts
<1>5. y4 * x \in Int /\ x4 * x \in Int /\ Cong(y4 * x, x4 * x)
  <2> HIDE DEF x4, y4
  <2>1. Cong(y4, x4)
    BY <1>3, <1>4, CongFacts
  <2>2. y4 * x \in Int /\ x4 * x \in Int
    BY <1>3, <1>4
  <2>3. Cong(x, x)
    BY CongFacts
  <2> QED BY <1>3, <1>4, <2>1, <2>2, <2>3, CongFacts
<1> HIDE DEF x4, y4
<1>6. x5 \in Field /\ x5 \in Int /\ Cong(x4 * x, x5)
  BY <1>5, Residue, UnitFacts
<1> HIDE DEF x5
<1> QED BY <1>1, <1>5, <1>6, CongFacts

\* There is no fifth root of one but one: multiplying by another would divide
\* the P - 1 units into cycles of five.
LEMMA NoFifthRoot ==
    ASSUME NEW z \in Int, Cong(Fifth(z), 1)
    PROVE  Cong(z, 1)
<1> SUFFICES ASSUME ~ Cong(z, 1) PROVE FALSE
  OBVIOUS
<1>1. ~ Cong(z, 0)
  <2> SUFFICES ASSUME Cong(z, 0) PROVE FALSE
    OBVIOUS
  <2>1. Cong(Fifth(z), Fifth(0)) /\ Fifth(0) = 0 /\ Fifth(z) \in Int
    BY FifthFacts DEF Fifth
  <2>2. Cong(1, 0)
    BY <2>1, CongFacts
  <2> QED BY <2>2, UnitFacts, Modulus DEF Units
<1> DEFINE f == [w \in Units |-> (z * w) % P]
<1>2. f \in [Units -> Units]
  BY <1>1, Permutes DEF Injection
<1>3. ASSUME NEW w \in Units PROVE f[w] \in Units /\ f[w] \in Int /\ Cong(f[w], z * w)
  <2>1. f[w] \in Units /\ f[w] \in Int
    BY <1>2, UnitFacts
  <2>2. z * w \in Int
    BY UnitFacts
  <2>3. Cong(z * w, f[w])
    BY <2>2, Residue
  <2> HIDE DEF f
  <2> QED BY <2>1, <2>2, <2>3, CongFacts
<1> HIDE DEF f
<1>4. ASSUME NEW v \in Units, f[v] = v PROVE FALSE
  <2>1. v \in Int /\ ~ Cong(v, 0) /\ z * v \in Int
    BY UnitFacts
  <2>2. v * 1 = v /\ v * z = z * v
    BY <2>1
  <2>3. Cong(v, z * v)
    BY <1>3, <1>4
  <2>4. Cong(v * z, v * 1)
    BY <2>1, <2>2, <2>3, CongFacts
  <2> QED BY <2>1, <2>4, Cancel
<1>5. ASSUME NEW v \in Units PROVE f[f[f[f[f[v]]]]] = v
  <2> DEFINE v1 == f[v]  v2 == f[v1]  v3 == f[v2]  v4 == f[v3]  v5 == f[v4]
  <2>1. v1 \in Units /\ v2 \in Units /\ v3 \in Units /\ v4 \in Units /\ v5 \in Units
    BY <1>2
  <2>2. /\ Cong(v1, z * v) /\ Cong(v2, z * v1) /\ Cong(v3, z * v2)
        /\ Cong(v4, z * v3) /\ Cong(v5, z * v4)
    BY <1>3, <2>1
  <2> HIDE DEF v1, v2, v3, v4, v5
  <2>3. \A a \in Int, b \in Int, c \in Int :
           Cong(a, z * b) /\ Cong(b, c) => Cong(a, z * c) /\ z * c \in Int
    <3> SUFFICES ASSUME NEW a \in Int, NEW b \in Int, NEW c \in Int, Cong(a, z * b), Cong(b, c)
                 PROVE  Cong(a, z * c) /\ z * c \in Int
      OBVIOUS
    <3>1. Cong(z * b, z * c) /\ z * b \in Int /\ z * c \in Int
      BY CongFacts
    <3> QED BY <3>1, CongFacts
  <2>4. v \in Int /\ v1 \in Int /\ v2 \in Int /\ v3 \in Int /\ v4 \in Int /\ v5 \in Int
    BY <2>1, UnitFacts
  <2> DEFINE w1 == z * v  w2 == z * w1  w3 == z * w2  w4 == z * w3  w5 == z * w4
  <2>5. w1 \in Int /\ w2 \in Int /\ w3 \in Int /\ w4 \in Int /\ w5 \in Int
    BY <2>4
  <2>6. w5 = Fifth(z) * v
    BY <2>4 DEF Fifth
  <2> HIDE DEF w1
  <2>7. Cong(v2, w2) BY <2>2, <2>3, <2>4, <2>5 DEF w1
  <2> HIDE DEF w2
  <2>8. Cong(v3, w3) BY <2>2, <2>3, <2>4, <2>5, <2>7
  <2> HIDE DEF w3
  <2>9. Cong(v4, w4) BY <2>2, <2>3, <2>4, <2>5, <2>8
  <2> HIDE DEF w4
  <2>10. Cong(v5, w5) BY <2>2, <2>3, <2>4, <2>5, <2>9
  <2> HIDE DEF w5
  <2>11. Cong(Fifth(z) * v, 1 * v) /\ 1 * v = v /\ Fifth(z) * v \in Int
    <3>1. Fifth(z) \in Int /\ Cong(v, v)
      BY <2>4, FifthFacts, CongFacts
    <3>2. \A a \in Int : Cong(a, 1) => Cong(a * v, 1 * v) /\ a * v \in Int
      BY <2>4, <3>1, CongFacts
    <3> QED BY <2>4, <3>1, <3>2
  <2>12. Cong(v5, v)
    BY <2>4, <2>5, <2>6, <2>10, <2>11, CongFacts
  <2>13. v5 = v
    BY <2>1, <2>12, FieldCong, UnitFacts
  <2> QED BY <2>13 DEF v1, v2, v3, v4, v5
<1>6. IsFiniteSet(Units) /\ Cardinality(Units) = P - 1
  BY Modulus, FS_Interval DEF Units
<1>7. (P - 1) % 5 = 0
  BY <1>2, <1>4, <1>5, <1>6, FiveCycles
<1> QED BY <1>7, PoseidonAssumption

\* The S-box maps different elements of the field to different ones.
LEMMA SboxOneToOne ==
    ASSUME NEW x \in Field, NEW y \in Field, Pow5(x) = Pow5(y)
    PROVE  x = y
<1>1. x \in Int /\ y \in Int /\ Fifth(x) \in Int /\ Fifth(y) \in Int
  BY FifthFacts, UnitFacts
<1>2. Cong(Fifth(x), Fifth(y))
  <2>1. Pow5(x) \in Int /\ Cong(Fifth(x), Pow5(x)) /\ Cong(Fifth(y), Pow5(x))
    BY <1>1, Pow5Is, UnitFacts
  <2> HIDE DEF Fifth, Pow5
  <2> QED BY <1>1, <2>1, CongFacts
\* A fifth power is zero only if its base is.
<1>3. ASSUME NEW a \in Field, Cong(Fifth(a), 0) PROVE a = 0
  <2> DEFINE a2 == a * a  a4 == a2 * a2
  <2>1. a \in Int /\ a2 \in Int /\ a4 \in Int
    BY UnitFacts
  <2>2. Cong(a4 * a, 0)
    BY <1>3 DEF Fifth
  <2>3. Cong(a4, 0) \/ Cong(a, 0)
    <3> HIDE DEF a4
    <3> QED BY <2>1, <2>2, NoZeroDivisors
  <2>4. Cong(a4, 0) => Cong(a2, 0)
    <3> HIDE DEF a2
    <3> QED BY <2>1, NoZeroDivisors
  <2>5. Cong(a2, 0) => Cong(a, 0)
    BY <2>1, NoZeroDivisors
  <2>6. Cong(a, 0)
    BY <2>3, <2>4, <2>5
  <2> QED BY <2>6, UnitFacts
<1>4. CASE y = 0
  <2>1. Fifth(y) = 0
    BY <1>4 DEF Fifth
  <2> QED BY <1>2, <1>3, <1>4, <2>1
<1>5. CASE y # 0
  <2> DEFINE i == inverse(y)
  <2>1. ~ Cong(y, 0)
    BY <1>5, UnitFacts
  <2>2. i \in Int /\ Cong(y * i, 1)
    BY <1>1, <2>1, InverseOf, UnitFacts
  <2> HIDE DEF i
  <2>3. x * i \in Int /\ y * i \in Int /\ Fifth(i) \in Int
    BY <1>1, <2>2, FifthFacts
  <2>4. Cong(Fifth(x * i), Fifth(y * i))
    <3>1. \A a \in Int, b \in Int, c \in Int : Cong(a, b) => Cong(a * c, b * c)
      BY CongFacts
    <3>2. Fifth(x * i) = Fifth(x) * Fifth(i) /\ Fifth(y * i) = Fifth(y) * Fifth(i)
      BY <1>1, <2>2, FifthFacts
    <3> QED BY <1>1, <1>2, <2>3, <3>1, <3>2
  <2>5. Cong(Fifth(y * i), 1)
    <3>1. Cong(Fifth(y * i), Fifth(1))
      BY <2>2, <2>3, FifthFacts
    <3>2. Fifth(1) = 1
      BY DEF Fifth
    <3> QED BY <3>1, <3>2
  <2>6. Cong(Fifth(x * i), 1)
    <3>1. Fifth(x * i) \in Int /\ Fifth(y * i) \in Int
      BY <2>3, FifthFacts
    <3> QED BY <2>4, <2>5, <3>1, CongFacts
  <2>7. Cong(x * i, 1)
    BY <2>3, <2>6, NoFifthRoot
  <2>8. Cong(x * i, y * i)
    BY <2>2, <2>3, <2>7, CongFacts
  <2>9. ~ Cong(i, 0)
    <3> SUFFICES ASSUME Cong(i, 0) PROVE FALSE
      OBVIOUS
    <3>1. Cong(y * i, y * 0) /\ y * 0 = 0
      BY <1>1, <2>2, CongFacts
    <3>2. Cong(1, 0)
      BY <2>2, <2>3, <3>1, CongFacts
    <3> QED BY <3>2, UnitFacts, Modulus DEF Units
  <2>10. i * x = x * i /\ i * y = y * i
    BY <1>1, <2>2
  <2>11. Cong(x, y)
    BY <1>1, <2>2, <2>8, <2>9, <2>10, Cancel
  <2> QED BY <2>11, FieldCong
<1> QED BY <1>4, <1>5

-----------------------------------------------------------------------------
\* The matrix is one-to-one.

State == [Lanes -> Field]

Dot(m0, m1, m2, x0, x1, x2) == m0 * x0 + m1 * x1 + m2 * x2

LEMMA StateFacts ==
    /\ Lanes = {0, 1, 2}
    /\ \A w \in State : \A i \in Lanes : w[i] \in Field /\ w[i] \in Int
BY UnitFacts DEF Lanes, T, State

\* One entry times the common multiple n of the denominators in its row.
LEMMA EntryCleared ==
    ASSUME NEW a \in 5 .. 9, NEW c \in Int, NEW n \in Int, c * a = n, NEW x \in Int
    PROVE  /\ inverse(a) \in Int /\ c * x \in Int
           /\ Cong(n * (inverse(a) * x), c * x) /\ n * (inverse(a) * x) \in Int
<1> DEFINE m == inverse(a)
<1>1. m \in Int /\ Cong(a * m, 1)
  <2>1. a \in Int /\ ~ Cong(a, 0)
    BY UnitFacts, Modulus DEF Units
  <2> QED BY <2>1, InverseOf, UnitFacts
<1> HIDE DEF m
<1>2. a * m \in Int /\ c * x \in Int /\ m * x \in Int /\ n * (m * x) \in Int
  BY <1>1
<1>3. n * (m * x) = (a * m) * (c * x) /\ 1 * (c * x) = c * x
  BY <1>1
<1>4. Cong((a * m) * (c * x), 1 * (c * x))
  <2> DEFINE l == a * m  r == c * x
  <2>1. l \in Int /\ r \in Int /\ Cong(l, 1)
    BY <1>1, <1>2
  <2> HIDE DEF l, r
  <2>2. Cong(l * r, 1 * r)
    BY <2>1, CongFacts
  <2> QED BY <2>2 DEF l, r
<1> QED BY <1>1, <1>2, <1>3, <1>4 DEF m

\* n is a common multiple of the denominators in row i, by these factors.
CommonMultiple(i, c0, c1, c2, n) == c0 * (5 + i) = n /\ c1 * (6 + i) = n /\ c2 * (7 + i) = n

\* In a row of inverses the denominators are cleared.
LEMMA RowCleared ==
    ASSUME NEW i \in Lanes, NEW c0 \in Int, NEW c1 \in Int, NEW c2 \in Int, NEW n \in Int,
           CommonMultiple(i, c0, c1, c2, n),
           NEW s \in State, NEW u \in State, mds_mix(s) = mds_mix(u)
    PROVE  Cong(Dot(c0, c1, c2, s[0], s[1], s[2]), Dot(c0, c1, c2, u[0], u[1], u[2]))
<1> DEFINE m0 == inverse(5 + i)  m1 == inverse(6 + i)  m2 == inverse(7 + i)
           Row(w) == Dot(m0, m1, m2, w[0], w[1], w[2])
           Cleared(w) == Dot(c0, c1, c2, w[0], w[1], w[2])
<1>1. mds_matrix[i][0] = m0 /\ mds_matrix[i][1] = m1 /\ mds_matrix[i][2] = m2
  <2>1. \A j \in Lanes : mds_matrix[i][j] = inverse((i + 1) + (T + j + 1))
    BY DEF mds_matrix
  <2>2. /\ (i + 1) + (T + 0 + 1) = 5 + i /\ (i + 1) + (T + 1 + 1) = 6 + i
        /\ (i + 1) + (T + 2 + 1) = 7 + i
    BY StateFacts DEF T
  <2> QED BY StateFacts, <2>1, <2>2
<1>2. 5 + i \in 5 .. 9 /\ 6 + i \in 5 .. 9 /\ 7 + i \in 5 .. 9
  BY StateFacts
<1> USE DEF CommonMultiple
<1>3. ASSUME NEW w \in State
      PROVE  /\ Row(w) \in Int /\ Cleared(w) \in Int /\ n * Row(w) \in Int
             /\ Cong(n * Row(w), Cleared(w))
  <2> DEFINE l0 == n * (m0 * w[0])  l1 == n * (m1 * w[1])  l2 == n * (m2 * w[2])
             r0 == c0 * w[0]        r1 == c1 * w[1]        r2 == c2 * w[2]
  <2>0. w[0] \in Int /\ w[1] \in Int /\ w[2] \in Int
    BY StateFacts
  <2>1. m0 \in Int /\ Cong(l0, r0) /\ l0 \in Int /\ r0 \in Int
    BY <1>2, <2>0, EntryCleared
  <2>2. m1 \in Int /\ Cong(l1, r1) /\ l1 \in Int /\ r1 \in Int
    BY <1>2, <2>0, EntryCleared
  <2>3. m2 \in Int /\ Cong(l2, r2) /\ l2 \in Int /\ r2 \in Int
    BY <1>2, <2>0, EntryCleared
  <2> HIDE DEF m0, m1, m2
  <2>4. Row(w) \in Int /\ Cleared(w) \in Int /\ n * Row(w) \in Int
    BY <2>0, <2>1, <2>2, <2>3 DEF Dot
  <2>5. n * Row(w) = (l0 + l1) + l2 /\ Cleared(w) = (r0 + r1) + r2
    BY <2>0, <2>1, <2>2, <2>3 DEF Dot
  <2> HIDE DEF l0, l1, l2, r0, r1, r2, Row, Cleared
  <2> DEFINE l == l0 + l1  r == r0 + r1
  <2>6. Cong(l, r) /\ l \in Int /\ r \in Int
    BY <2>1, <2>2, CongFacts
  <2> HIDE DEF l, r
  <2>7. Cong(l + l2, r + r2)
    BY <2>3, <2>6, CongFacts
  <2> QED BY <2>4, <2>5, <2>7 DEF l, r
<1>4. Cong(Row(s), Row(u))
  <2>1. \A w : mds_mix(w)[i] = Row(w) % P
    <3> HIDE DEF m0, m1, m2
    <3> QED BY <1>1 DEF mds_mix, Dot
  <2> HIDE DEF Row
  <2>2. Row(s) % P = Row(u) % P
    BY <2>1
  <2> QED BY <1>3, <2>2, SameResidue
<1> HIDE DEF Row, Cleared
<1>5. Cong(n * Row(s), n * Row(u)) /\ Cong(Cleared(s), n * Row(s))
  BY <1>3, <1>4, CongFacts
<1>6. Cong(Cleared(s), n * Row(u))
  BY <1>3, <1>5, CongFacts
<1>7. Cong(Cleared(s), Cleared(u))
  <2>1. Cong(n * Row(u), Cleared(u)) /\ n * Row(u) \in Int
    BY <1>3
  <2>2. Cleared(s) \in Int /\ Cleared(u) \in Int
    BY <1>3
  <2> QED BY <1>6, <2>1, <2>2, CongFacts
<1> QED BY <1>7 DEF Cleared

\* The rows with their denominators cleared have the determinant 2.
LEMMA Determinant ==
    ASSUME NEW x0 \in Int, NEW x1 \in Int, NEW x2 \in Int,
           NEW y0 \in Int, NEW y1 \in Int, NEW y2 \in Int,
           Cong(Dot(42, 35, 30, x0, x1, x2), Dot(42, 35, 30, y0, y1, y2)),
           Cong(Dot(28, 24, 21, x0, x1, x2), Dot(28, 24, 21, y0, y1, y2)),
           Cong(Dot(72, 63, 56, x0, x1, x2), Dot(72, 63, 56, y0, y1, y2))
    PROVE  Cong(x0, y0) /\ Cong(x1, y1) /\ Cong(x2, y2)
<1>1. PICK e \in Int, f \in Int, g \in Int :
         /\ Dot(42, 35, 30, x0, x1, x2) - Dot(42, 35, 30, y0, y1, y2) = P * e
         /\ Dot(28, 24, 21, x0, x1, x2) - Dot(28, 24, 21, y0, y1, y2) = P * f
         /\ Dot(72, 63, 56, x0, x1, x2) - Dot(72, 63, 56, y0, y1, y2) = P * g
  BY DEF Cong, Congruent
<1> DEFINE pe == P * e  pf == P * f  pg == P * g
<1>2. pe \in Int /\ pf \in Int /\ pg \in Int
  BY Modulus
<1>3. /\ P * (21 * e - 70 * f + 15 * g) = 21 * pe - 70 * pf + 15 * pg
      /\ P * (192 * f - 56 * e - 42 * g) = 192 * pf - 56 * pe - 42 * pg
      /\ P * (36 * e - 126 * f + 28 * g) = 36 * pe - 126 * pf + 28 * pg
  BY Modulus
<1>4. /\ 42 * x0 + 35 * x1 + 30 * x2 - (42 * y0 + 35 * y1 + 30 * y2) = pe
      /\ 28 * x0 + 24 * x1 + 21 * x2 - (28 * y0 + 24 * y1 + 21 * y2) = pf
      /\ 72 * x0 + 63 * x1 + 56 * x2 - (72 * y0 + 63 * y1 + 56 * y2) = pg
  BY <1>1 DEF Dot
<1> HIDE DEF pe, pf, pg
<1>5. /\ 2 * x0 - 2 * y0 = 21 * pe - 70 * pf + 15 * pg
      /\ 2 * x1 - 2 * y1 = 192 * pf - 56 * pe - 42 * pg
      /\ 2 * x2 - 2 * y2 = 36 * pe - 126 * pf + 28 * pg
  BY <1>2, <1>4
<1>6. Cong(2 * x0, 2 * y0) /\ Cong(2 * x1, 2 * y1) /\ Cong(2 * x2, 2 * y2)
  <2>1. /\ 21 * e - 70 * f + 15 * g \in Int
        /\ 192 * f - 56 * e - 42 * g \in Int
        /\ 36 * e - 126 * f + 28 * g \in Int
    OBVIOUS
  <2> QED BY <1>3, <1>5, <2>1 DEF Cong, Congruent
<1>7. ~ Cong(2, 0)
  BY UnitFacts, Modulus DEF Units
<1>8. Cong(x0, y0) BY <1>6, <1>7, Cancel
<1>9. Cong(x1, y1) BY <1>6, <1>7, Cancel
<1>10. Cong(x2, y2) BY <1>6, <1>7, Cancel
<1> QED BY <1>8, <1>9, <1>10

LEMMA MixOneToOne ==
    ASSUME NEW s \in State, NEW u \in State, mds_mix(s) = mds_mix(u)
    PROVE  s = u
<1>1. /\ s[0] \in Int /\ s[1] \in Int /\ s[2] \in Int
      /\ u[0] \in Int /\ u[1] \in Int /\ u[2] \in Int
  BY StateFacts
<1>2. 0 \in Lanes /\ 1 \in Lanes /\ 2 \in Lanes
  BY StateFacts
<1>3. Cong(Dot(42, 35, 30, s[0], s[1], s[2]), Dot(42, 35, 30, u[0], u[1], u[2]))
  <2>1. CommonMultiple(0, 42, 35, 30, 210)
    BY DEF CommonMultiple
  <2> QED BY <1>2, <2>1, RowCleared
<1>4. Cong(Dot(28, 24, 21, s[0], s[1], s[2]), Dot(28, 24, 21, u[0], u[1], u[2]))
  <2>1. CommonMultiple(1, 28, 24, 21, 168)
    BY DEF CommonMultiple
  <2> QED BY <1>2, <2>1, RowCleared
<1>5. Cong(Dot(72, 63, 56, s[0], s[1], s[2]), Dot(72, 63, 56, u[0], u[1], u[2]))
  <2>1. CommonMultiple(2, 72, 63, 56, 504)
    BY DEF CommonMultiple
  <2> QED BY <1>2, <2>1, RowCleared
<1>6. Cong(s[0], u[0]) /\ Cong(s[1], u[1]) /\ Cong(s[2], u[2])
  BY <1>1, <1>3, <1>4, <1>5, Determinant
<1>7. s[0] = u[0] /\ s[1] = u[1] /\ s[2] = u[2]
  BY <1>6, StateFacts, FieldCong
<1> QED BY <1>7, StateFacts DEF State

-----------------------------------------------------------------------------
\* A round keeps states states, and different states different.

Offset == {T * r : r \in 0 .. Rounds - 1}

LEMMA OffsetFacts ==
    /\ Rounds \in Nat
    /\ \A o \in Offset : o \in Nat
    /\ \A o \in Offset, i \in Lanes : round_constants[o + i] \in Int
<1>1. Rounds \in Nat /\ Rounds <= FullRounds + PartialRounds
  <2>1. FullRounds \in Nat /\ PartialRounds \in Nat
    BY PoseidonAssumption
  <2>2. FullRounds \div 2 \in Nat /\ 2 * (FullRounds \div 2) <= FullRounds
    BY <2>1
  <2> QED BY <2>1, <2>2 DEF Rounds, Half
<1>2. ASSUME NEW o \in Offset, NEW i \in Lanes
      PROVE  o + i \in 0 .. T * (FullRounds + PartialRounds) - 1 /\ o \in Nat
  <2>1. PICK r \in 0 .. Rounds - 1 : o = T * r
    BY DEF Offset
  <2>2. FullRounds \in Nat /\ PartialRounds \in Nat /\ i \in 0 .. 2
    BY PoseidonAssumption DEF Lanes, T
  <2> QED BY <1>1, <2>1, <2>2 DEF T
<1>3. ASSUME NEW o \in Offset, NEW i \in Lanes PROVE round_constants[o + i] \in Int
  <2>1. round_constants[o + i] = Sha[o + i]
    BY <1>2 DEF round_constants
  <2>2. Sha[o + i] \in 0 .. P - 1
    BY <1>2, PoseidonAssumption
  <2> QED BY <2>1, <2>2, Modulus
<1>4. \A o \in Offset : o \in Nat
  BY <1>2, StateFacts
<1> QED BY <1>1, <1>3, <1>4

LEMMA ConstantsAdded ==
    ASSUME NEW s \in State, NEW o \in Offset
    PROVE  /\ add_round_constants(s, o) \in State
           /\ \A u \in State :
                 add_round_constants(s, o) = add_round_constants(u, o) => s = u
<1>1. \A i \in Lanes : round_constants[o + i] \in Int
  BY OffsetFacts
<1>2. ASSUME NEW w \in State, NEW i \in Lanes
      PROVE  w[i] + round_constants[o + i] \in Int
  BY <1>1, StateFacts
<1>3. \A i \in Lanes : (s[i] + round_constants[o + i]) % P \in Field
  BY <1>2, Residue
<1>4. ASSUME NEW u \in State, add_round_constants(s, o) = add_round_constants(u, o) PROVE s = u
  <2>1. ASSUME NEW i \in Lanes PROVE s[i] = u[i]
    <3> DEFINE c == round_constants[o + i]
    <3>1. c \in Int /\ s[i] + c \in Int /\ u[i] + c \in Int /\ s[i] \in Int /\ u[i] \in Int
      BY <1>1, <1>2, StateFacts
    <3>2. (s[i] + c) % P = (u[i] + c) % P
      <4>1. \A w : add_round_constants(w, o)[i] = (w[i] + c) % P
        BY DEF add_round_constants
      <4> QED BY <1>4, <4>1
    <3> HIDE DEF c
    <3> DEFINE x == s[i] + c  y == u[i] + c  d == -c
    <3>3. x \in Int /\ y \in Int /\ d \in Int /\ x % P = y % P
      BY <3>1, <3>2
    <3>4. x + d = s[i] /\ y + d = u[i]
      BY <3>1
    <3> HIDE DEF x, y, d
    <3>5. Cong(x + d, y + d)
      BY <3>3, SameResidue, CongFacts
    <3>6. Cong(s[i], u[i])
      BY <3>4, <3>5
    <3> QED BY <3>6, FieldCong, StateFacts
  <2> QED BY <2>1 DEF State
<1> QED BY <1>3, <1>4 DEF add_round_constants, State

LEMMA SboxesApplied ==
    ASSUME NEW s \in State
    PROVE  /\ full_sbox(s) \in State /\ partial_sbox(s) \in State
           /\ \A u \in State : full_sbox(s) = full_sbox(u) => s = u
           /\ \A u \in State : partial_sbox(s) = partial_sbox(u) => s = u
<1>1. \A w \in State, i \in Lanes : Pow5(w[i]) \in Field
  BY StateFacts, Pow5Is
<1>2. 0 \in Lanes
  BY StateFacts
<1>3. \A w : \A i \in Lanes : full_sbox(w)[i] = Pow5(w[i])
  BY DEF full_sbox
<1>4. \A w \in State : \A i \in Lanes :
         partial_sbox(w)[i] = IF i = 0 THEN Pow5(w[i]) ELSE w[i]
  BY <1>2 DEF partial_sbox, State
<1>5. full_sbox(s) \in State /\ partial_sbox(s) \in State
  BY <1>1, <1>2 DEF full_sbox, partial_sbox, State
<1>6. ASSUME NEW u \in State, full_sbox(s) = full_sbox(u) PROVE s = u
  <2>1. \A i \in Lanes : Pow5(s[i]) = Pow5(u[i])
    BY <1>3, <1>6
  <2>2. \A i \in Lanes : s[i] = u[i]
    BY <2>1, StateFacts, SboxOneToOne
  <2> QED BY <2>2 DEF State
<1>7. ASSUME NEW u \in State, partial_sbox(s) = partial_sbox(u) PROVE s = u
  <2>1. \A i \in Lanes : IF i = 0 THEN Pow5(s[i]) = Pow5(u[i]) ELSE s[i] = u[i]
    BY <1>4, <1>7
  <2>2. \A i \in Lanes : s[i] = u[i]
    BY <2>1, StateFacts, SboxOneToOne
  <2> QED BY <2>2 DEF State
<1> QED BY <1>5, <1>6, <1>7

LEMMA MixTyped ==
    ASSUME NEW s \in State
    PROVE  mds_mix(s) \in State
<1>1. ASSUME NEW i \in Lanes, NEW j \in Lanes PROVE mds_matrix[i][j] \in Int
  <2>1. mds_matrix[i][j] = inverse((i + 1) + (T + j + 1))
    BY DEF mds_matrix
  <2>2. (i + 1) + (T + j + 1) \in 5 .. 9
    BY StateFacts DEF T
  <2> QED BY <2>1, <2>2, EntryCleared
<1>2. ASSUME NEW i \in Lanes
      PROVE  mds_matrix[i][0] * s[0] + mds_matrix[i][1] * s[1] + mds_matrix[i][2] * s[2] \in Int
  <2>1. \A j \in Lanes : mds_matrix[i][j] * s[j] \in Int
    BY <1>1, StateFacts
  <2> QED BY <2>1, StateFacts
<1>3. \A i \in Lanes :
         (  mds_matrix[i][0] * s[0] + mds_matrix[i][1] * s[1]
          + mds_matrix[i][2] * s[2]) % P \in Field
  BY <1>2, Residue
<1> QED BY <1>3 DEF mds_mix, State

LEMMA RoundOneToOne ==
    ASSUME NEW s \in State, NEW o \in Offset, NEW r
    PROVE  /\ RoundOf(s, o, r) \in State
           /\ \A u \in State : RoundOf(s, o, r) = RoundOf(u, o, r) => s = u
<1> DEFINE Added(w) == add_round_constants(w, o)
           Sboxed(w) == IF IsFull(r) THEN full_sbox(Added(w)) ELSE partial_sbox(Added(w))
<1>1. \A w \in State : Added(w) \in State /\ \A x \in State : Added(w) = Added(x) => w = x
  BY ConstantsAdded
<1> HIDE DEF Added
<1>2. \A w \in State : Sboxed(w) \in State /\ \A x \in State : Sboxed(w) = Sboxed(x) => w = x
  BY <1>1, SboxesApplied
<1>3. \A w : RoundOf(w, o, r) = mds_mix(Sboxed(w))
  BY DEF RoundOf, Added
<1> HIDE DEF Sboxed
<1>4. RoundOf(s, o, r) \in State
  BY <1>2, <1>3, MixTyped
<1>5. ASSUME NEW u \in State, RoundOf(s, o, r) = RoundOf(u, o, r) PROVE s = u
  <2>1. mds_mix(Sboxed(s)) = mds_mix(Sboxed(u))
    BY <1>3, <1>5
  <2>2. Sboxed(s) = Sboxed(u)
    BY <1>2, <2>1, MixOneToOne
  <2> QED BY <1>2, <2>2
<1> QED BY <1>4, <1>5

-----------------------------------------------------------------------------
\* The fields of a state that both hashes start from.
LEMMA InitialStates ==
    ASSUME Init
    PROVE  /\ left \in Field /\ right \in Field
           /\ \E n \in 0 .. T - 1 : inputs \in [1 .. n -> Field] /\ Len(inputs) = n
           /\ state = [i \in Lanes |-> IF i < Len(inputs) THEN inputs[i + 1] ELSE 0]
           /\ var_state = [i \in Lanes |-> IF i = 0 THEN left ELSE IF i = 1 THEN right ELSE 0]
           /\ round = 0 /\ round_ctr = 0 /\ var_round = 0 /\ var_ctr = 0
<1>1. PICK args \in UNION {[1 .. n -> Sample] : n \in 0 .. T - 1} : NativeInit(args)
  BY DEF Init
<1>2. PICK l \in Sample, r \in Sample : GadgetInit(l, r)
  BY DEF Init
<1>3. PICK n \in 0 .. T - 1 : inputs \in [1 .. n -> Sample]
  BY <1>1 DEF NativeInit
<1>4. inputs \in [1 .. n -> Field] /\ Len(inputs) = n
  BY <1>3, SampleAssumption DEF T
<1>5. left \in Field /\ right \in Field
  BY <1>2, SampleAssumption DEF GadgetInit
<1> QED BY <1>1, <1>2, <1>4, <1>5 DEF NativeInit, GadgetInit

\* States of field elements, and offsets that are never beyond the constants,
\* for every number of rounds.
THEOREM PoseidonTyped == Spec => []TypeOK
<1>1. Init => TypeOK
  <2> SUFFICES ASSUME Init PROVE TypeOK
    OBVIOUS
  <2>0. 0 \in Field /\ left \in Field /\ right \in Field /\ Rounds \in Nat
    BY InitialStates, OffsetFacts, Modulus DEF Field
  <2>1. PICK n \in 0 .. T - 1 : inputs \in [1 .. n -> Field] /\ Len(inputs) = n
    BY InitialStates
  <2>2. state \in [Lanes -> Field]
    <3>1. ASSUME NEW i \in Lanes
          PROVE  (IF i < Len(inputs) THEN inputs[i + 1] ELSE 0) \in Field
      BY <2>0, <2>1, StateFacts DEF T
    <3> QED BY <3>1, InitialStates
  <2>3. var_state \in [Lanes -> Field]
    <3>1. ASSUME NEW i \in Lanes
          PROVE  (IF i = 0 THEN left ELSE IF i = 1 THEN right ELSE 0) \in Field
      BY <2>0
    <3> QED BY <3>1, InitialStates
  <2>4. inputs \in UNION {[1 .. k -> Field] : k \in 0 .. T - 1}
    BY <2>1
  <2>5. round \in 0 .. Rounds /\ round_ctr = T * round /\ var_round = round /\ var_ctr = round_ctr
    BY <2>0, InitialStates DEF T
  <2> QED BY <2>0, <2>2, <2>3, <2>4, <2>5 DEF TypeOK
<1>2. TypeOK /\ [Next]_vars => TypeOK'
  <2> SUFFICES ASSUME TypeOK, [Next]_vars PROVE TypeOK'
    OBVIOUS
  <2>1. CASE Next
    <3>1. round \in Nat /\ var_round = round /\ var_ctr = round_ctr /\ Rounds \in Nat
      BY OffsetFacts DEF TypeOK
    <3>2. /\ state' = RoundOf(state, round_ctr, round)
          /\ var_state' = RoundOf(var_state, round_ctr, round)
          /\ round < Rounds /\ round' = round + 1 /\ var_round' = round + 1
          /\ round_ctr' = round_ctr + T /\ var_ctr' = round_ctr + T
          /\ inputs' = inputs /\ left' = left /\ right' = right
      BY <2>1, <3>1, NextStates
    <3>3. round_ctr \in Offset /\ round' \in 0 .. Rounds /\ round_ctr' = T * round'
      <4>1. round \in 0 .. Rounds - 1 /\ round_ctr = T * round
        BY <3>1, <3>2 DEF TypeOK
      <4>2. round_ctr \in Offset
        BY <4>1 DEF Offset
      <4>3. round' \in 0 .. Rounds
        BY <3>1, <3>2
      <4>4. round_ctr' = T * round'
        BY <3>1, <3>2, <4>1 DEF T
      <4> QED BY <4>2, <4>3, <4>4
    <3>4. state' \in [Lanes -> Field] /\ var_state' \in [Lanes -> Field]
      BY <3>2, <3>3, RoundOneToOne DEF TypeOK, State
    <3> QED BY <3>2, <3>3, <3>4 DEF TypeOK
  <2>2. CASE UNCHANGED vars
    BY <2>2 DEF vars, nativeVars, TypeOK
  <2> QED BY <2>1, <2>2
<1> QED BY <1>1, <1>2, PTL DEF Spec

\* Of what is hashed, no round loses anything: two states that agree come from
\* inputs that agree, in every field where 5 does not divide P - 1.
THEOREM NoCollision == Spec => []NoRoundCollides
<1>1. Init => NoRoundCollides
  <2> SUFFICES ASSUME Init, var_state = state PROVE SameStart
    BY DEF NoRoundCollides
  <2>1. PICK n \in 0 .. T - 1 : inputs \in [1 .. n -> Field] /\ Len(inputs) = n
    BY InitialStates
  <2>2. /\ state[0] = IF 0 < n THEN inputs[0 + 1] ELSE 0
        /\ state[1] = IF 1 < n THEN inputs[1 + 1] ELSE 0
    BY <2>1, InitialStates, StateFacts
  <2>3. state[0] = left /\ state[1] = right
    BY InitialStates, StateFacts
  <2> QED BY <2>1, <2>2, <2>3 DEF SameStart, T
<1>2. TypeOK /\ NoRoundCollides /\ [Next]_vars => NoRoundCollides'
  <2> SUFFICES ASSUME TypeOK, NoRoundCollides, [Next]_vars, var_state' = state'
               PROVE  SameStart'
    BY DEF NoRoundCollides
  <2>1. CASE Next
    <3>1. round \in Nat /\ var_round = round /\ var_ctr = round_ctr /\ Rounds \in Nat
      BY OffsetFacts DEF TypeOK
    <3>2. /\ state' = RoundOf(state, round_ctr, round)
          /\ var_state' = RoundOf(var_state, round_ctr, round) /\ round < Rounds
          /\ inputs' = inputs /\ left' = left /\ right' = right
      BY <2>1, <3>1, NextStates
    <3>3. round_ctr \in Offset /\ state \in State /\ var_state \in State
      <4>1. round \in 0 .. Rounds - 1 /\ round_ctr = T * round
        BY <3>1, <3>2 DEF TypeOK
      <4>2. round_ctr \in Offset
        BY <4>1 DEF Offset
      <4> QED BY <4>2 DEF TypeOK, State
    <3>4. var_state = state
      BY <3>2, <3>3, RoundOneToOne
    <3> QED BY <3>2, <3>4 DEF NoRoundCollides, SameStart
  <2>2. CASE UNCHANGED vars
    BY <2>2 DEF vars, nativeVars, NoRoundCollides, SameStart
  <2> QED BY <2>1, <2>2
<1> QED BY <1>1, <1>2, PoseidonTyped, PTL DEF Spec
=============================================================================
