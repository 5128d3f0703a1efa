------------------------------ MODULE Poseidon ------------------------------
(***************************************************************************)
(* core/src/poseidon.rs: the native Poseidon hash, round by round, over a  *)
(* prime field of any size.                                                *)
(***************************************************************************)
EXTENDS Naturals, Sequences

CONSTANTS
    P,                \* the modulus
    FullRounds,       \* POSEIDON_FULL_ROUNDS
    PartialRounds,    \* POSEIDON_PARTIAL_ROUNDS
    Sha               \* Sha[i]: SHA-256 of the seed and i, mod P

T == 3    \* POSEIDON_WIDTH

\* x^5 is a permutation of the field iff 5 does not divide P - 1, and the
\* entries of the MDS matrix have inverses unless P divides one of 5 .. 9.
ASSUME PoseidonAssumption ==
    /\ P \in Nat /\ P > 9 /\ (P - 1) % 5 # 0
    /\ \A f \in 2 .. P - 1 : P % f # 0
    /\ FullRounds \in Nat /\ PartialRounds \in Nat
    /\ Sha \in [0 .. T * (FullRounds + PartialRounds) - 1 -> 0 .. P - 1]

Field == 0 .. P - 1
Lanes == 0 .. T - 1

VARIABLES
    inputs,       \* what hash is called with
    state,
    round_ctr,    \* offset into the round constants
    round         \* rounds done, of all three loops

nativeVars == <<inputs, state, round_ctr, round>>

Half == FullRounds \div 2
Rounds == Half + PartialRounds + Half

round_constants == [i \in 0 .. T * (FullRounds + PartialRounds) - 1 |-> Sha[i]]

inverse(x) == CHOOSE y \in Field : (x * y) % P = 1

\* Cauchy matrix of 1 .. T and T + 1 .. 2T.
mds_matrix == [i \in Lanes |-> [j \in Lanes |-> inverse((i + 1) + (T + j + 1))]]

\* hash asserts that there are fewer inputs than lanes; the rest is zero.
NativeInit(args) ==
    /\ Len(args) < T
    /\ inputs = args
    /\ state = [i \in Lanes |-> IF i < Len(args) THEN args[i + 1] ELSE 0]
    /\ round_ctr = 0 /\ round = 0

add_round_constants(s, offset) == [i \in Lanes |-> (s[i] + round_constants[offset + i]) % P]

\* Mutant: s^4, the last multiplication is forgotten.
Pow5_four(x) == LET x2 == (x * x) % P IN (x2 * x2) % P

Pow5(x) == LET x2 == (x * x) % P
               x4 == (x2 * x2) % P
           IN  (x4 * x) % P

full_sbox(s) == [i \in Lanes |-> Pow5(s[i])]

partial_sbox(s) == [s EXCEPT ![0] = Pow5(@)]

mds_mix(s) ==
    [i \in Lanes |-> (  mds_matrix[i][0] * s[0] + mds_matrix[i][1] * s[1]
                      + mds_matrix[i][2] * s[2]) % P]

IsFull(r) == r < Half \/ r >= Half + PartialRounds

\* Mutant: the offset is not advanced in partial rounds.
NativeRound_stalledOffset ==
    /\ round < Rounds
    /\ LET s == add_round_constants(state, round_ctr) IN
       state' = mds_mix(IF IsFull(round) THEN full_sbox(s) ELSE partial_sbox(s))
    /\ round_ctr' = IF IsFull(round) THEN round_ctr + T ELSE round_ctr
    /\ round' = round + 1
    /\ UNCHANGED inputs

\* One turn of one of the three loops.
NativeRound ==
    /\ round < Rounds
    /\ LET s == add_round_constants(state, round_ctr) IN
       state' = mds_mix(IF IsFull(round) THEN full_sbox(s) ELSE partial_sbox(s))
    /\ round_ctr' = round_ctr + T
    /\ round' = round + 1
    /\ UNCHANGED inputs
=============================================================================
