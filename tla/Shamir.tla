------------------------------- MODULE Shamir -------------------------------
(***************************************************************************)
(* core/src/shamir.rs over the prime field of P elements: a message is cut *)
(* into chunks, each chunk is the constant term of a polynomial of its own *)
(* and share i holds the polynomials' values at i.                         *)
(*                                                                         *)
(* A value of the field stands for its 32 serialized bytes, so a share's   *)
(* data is the sequence of its values.                                     *)
(***************************************************************************)
EXTENDS Naturals, Sequences, SequencesExt, FiniteSets, FiniteSetsExt

CONSTANTS
    P,          \* order of the scalar field
    K,          \* shares of a message
    T,          \* shares that give it back
    Base,       \* values of a byte
    ChunkSize   \* message bytes per field element

\* The numbers that n bytes hold.
ByteRange(n) == FoldLeft(LAMBDA range, base : range * base, 1, [i \in 1 .. n |-> Base])

ASSUME ShamirAssumption ==
    /\ {P, K, T, Base, ChunkSize} \subseteq Nat \ {0}
    /\ T <= K /\ K < P                 \* the indices 1 .. K are distinct and not 0
    /\ ByteRange(ChunkSize) <= P       \* "1 byte headroom for modular reduction"

Field == 0 .. P - 1

\* What is not zero has an inverse.
ASSUME FieldAssumption == \A a \in Field \ {0} : \E b \in Field : (a * b) % P = 1

Minus(a, b) == (a + P - b) % P

InverseMod(a) == CHOOSE b \in Field : (a * b) % P = 1

SumMod(f) == FoldLeft(LAMBDA sum, v : (sum + v) % P, 0, f)

ProductMod(f) == FoldLeft(LAMBDA product, v : (product * v) % P, 1, f)

-----------------------------------------------------------------------------
\* Little-endian; the last chunk is padded with zero bytes.
Chunks(data) == (Len(data) + ChunkSize - 1) \div ChunkSize

Padded(data, c) ==
    [k \in 1 .. ChunkSize |->
        LET i == (c - 1) * ChunkSize + k IN IF i <= Len(data) THEN data[i] ELSE 0]

FromLeBytes(bytes) ==
    FoldLeft(LAMBDA v, byte : v * Base + byte, 0, Reverse(bytes)) % P

BytesToFieldElements(data) == [c \in 1 .. Chunks(data) |-> FromLeBytes(Padded(data, c))]

\* ChunkSize bytes of each element: the padding of the last chunk stays.
ToLeBytes(element) ==
    LET rest[k \in 0 .. ChunkSize] == IF k = 0 THEN element ELSE rest[k - 1] \div Base
    IN  [k \in 1 .. ChunkSize |-> rest[k - 1] % Base]

FieldElementsToBytes(elements) ==
    [i \in 1 .. Len(elements) * ChunkSize |->
        ToLeBytes(elements[((i - 1) \div ChunkSize) + 1])[((i - 1) % ChunkSize) + 1]]

-----------------------------------------------------------------------------
\* Mutant: one random coefficient too few.
Polynomials_lowDegree(secret) == {c \in [1 .. T -> Field] : c[1] = secret /\ c[T] = 0}

\* generate_polynomial draws one of these for a secret.
Polynomials(secret) == {c \in [1 .. T -> Field] : c[1] = secret}

EvaluatePolynomial(coefficients, x) ==
    LET x_power(i) == ProductMod([j \in 1 .. i - 1 |-> x])
    IN  SumMod([i \in DOMAIN coefficients |-> coefficients[i] * x_power(i)])

\* Split's outcomes are ShareOf for each choice of one polynomial per element.
Splits(secret) ==
    LET elements == BytesToFieldElements(secret)
    IN  {ps \in [1 .. Len(elements) -> UNION {Polynomials(e) : e \in Field}] :
            \A c \in DOMAIN elements : ps[c][1] = elements[c]}

ShareOf(ps, i) == [index |-> i, data |-> [c \in DOMAIN ps |-> EvaluatePolynomial(ps[c], i)]]

\* points is a sequence of <<x, y>>.
LagrangeInterpolateAtZero(points) ==
    LET factor(i, j) == Minus(0, points[j][1]) * InverseMod(Minus(points[i][1], points[j][1]))
        basis(i) == ProductMod([j \in DOMAIN points |-> IF j = i THEN 1 ELSE factor(i, j)])
    IN  SumMod([i \in DOMAIN points |-> points[i][2] * basis(i)])

\* The Err of reconstruct, and its panic when the difference of two indices
\* among the T shares it uses has no inverse.
Insufficient(shares) == Len(shares) < T

Panics(shares) ==
    /\ shares[1].data # <<>>
    /\ \E i, j \in 1 .. T : i # j /\ Minus(shares[i].index, shares[j].index) = 0

\* Mutant: a share is taken to be that of its position.
Reconstruct_byPosition(shares) ==
    FieldElementsToBytes(
        [c \in DOMAIN shares[1].data |->
            LagrangeInterpolateAtZero([i \in 1 .. T |-> <<i, shares[i].data[c]>>])])

\* Ok(..) of reconstruct, which uses the first T shares.
Reconstruct(shares) ==
    FieldElementsToBytes(
        [c \in DOMAIN shares[1].data |->
            LagrangeInterpolateAtZero(
                [i \in 1 .. T |-> <<shares[i].index, shares[i].data[c]>>])])
=============================================================================
