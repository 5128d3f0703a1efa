--------------------------- MODULE PoseidonGadget ---------------------------
(***************************************************************************)
(* circuits/src/poseidon_gadget.rs: the Poseidon hash of the circuits.  It *)
(* shares the parameters with the native hash and nothing else: constants, *)
(* matrix and rounds are written a second time.  Receipts and Merkle roots *)
(* are computed with the one and enforced with the other, so the two must  *)
(* agree; both are run here side by side.                                  *)
(***************************************************************************)
EXTENDS Poseidon

CONSTANT Sample    \* field elements that are hashed

ASSUME SampleAssumption == Sample \subseteq Field

VARIABLES
    left, right,    \* what hash_two is called with
    var_state,
    var_ctr,
    var_round

vars == <<nativeVars, left, right, var_state, var_ctr, var_round>>

var_round_constants == [i \in 0 .. T * (FullRounds + PartialRounds) - 1 |-> Sha[i]]

var_mds_matrix == [i \in Lanes |-> [j \in Lanes |-> inverse((i + 1) + (T + j + 1))]]

add_round_constants_gadget(s, offset) ==
    [i \in Lanes |-> (s[i] + var_round_constants[offset + i]) % P]

pow5_gadget(x) == LET x2 == (x * x) % P
                      x4 == (x2 * x2) % P
                  IN  (x4 * x) % P

full_sbox_gadget(s) == [i \in Lanes |-> pow5_gadget(s[i])]

\* Mutant: the S-box is applied to the last lane.
partial_sbox_gadget_lastLane(s) == [s EXCEPT ![T - 1] = pow5_gadget(@)]

partial_sbox_gadget(s) == [s EXCEPT ![0] = pow5_gadget(@)]

mds_mix_gadget(s) ==
    [i \in Lanes |-> (  var_mds_matrix[i][0] * s[0] + var_mds_matrix[i][1] * s[1]
                      + var_mds_matrix[i][2] * s[2]) % P]

GadgetInit(l, r) ==
    /\ left = l /\ right = r
    /\ var_state = [i \in Lanes |-> IF i = 0 THEN l ELSE IF i = 1 THEN r ELSE 0]
    /\ var_ctr = 0 /\ var_round = 0

IsPartial_gadget(r) == r >= Half /\ r < Half + PartialRounds

GadgetRound ==
    /\ var_round < Rounds
    /\ LET s == add_round_constants_gadget(var_state, var_ctr) IN
       var_state' = mds_mix_gadget(IF IsPartial_gadget(var_round)
                                      THEN partial_sbox_gadget(s) ELSE full_sbox_gadget(s))
    /\ var_ctr' = var_ctr + T
    /\ var_round' = var_round + 1
    /\ UNCHANGED <<left, right>>

Init ==
    /\ \E args \in UNION {[1 .. n -> Sample] : n \in 0 .. T - 1} : NativeInit(args)
    /\ \E l, r \in Sample : GadgetInit(l, r)

Next == NativeRound /\ GadgetRound

Spec == Init /\ [][Next]_vars

-----------------------------------------------------------------------------
\* States are of field elements, and the offset into the constants is that of
\* the round, so that no constant is used twice and none beyond the last.
TypeOK ==
    /\ inputs \in UNION {[1 .. n -> Field] : n \in 0 .. T - 1}
    /\ left \in Field /\ right \in Field
    /\ state \in [Lanes -> Field] /\ var_state \in [Lanes -> Field]
    /\ round \in 0 .. Rounds /\ round_ctr = T * round
    /\ var_round = round /\ var_ctr = round_ctr

\* The native hash starts with what the gadget starts with.
SameStart ==
    /\ Len(inputs) >= 1 => inputs[1] = left
    /\ Len(inputs) = 2 => inputs[2] = right
    /\ Len(inputs) < 2 => right = 0
    /\ Len(inputs) < 1 => left = 0

\* "Reuse the same constants from the native implementation"
\* (poseidon_gadget.rs:20): the object made there is dropped and everything is
\* written again.  Still, for the same two elements, and for fewer of them with
\* zeros in their place, gadget and native hash agree after every round.
HashesAgree == SameStart => var_state = state

\* The S-box and the matrix are invertible, so no round makes different inputs
\* collide: what two hashes share after the last round is at most the one lane
\* that is returned.
NoRoundCollides == var_state = state => SameStart
=============================================================================
