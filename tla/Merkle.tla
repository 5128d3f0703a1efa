------------------------------- MODULE Merkle -------------------------------
(***************************************************************************)
(* circuits/src/merkle_gadget.rs: the Merkle tree over the keys of the     *)
(* reputable set, the proofs of membership drawn from it, and the loop of  *)
(* the gadget that verifies one against a root.                            *)
(*                                                                         *)
(* The reputable set changes, the tree is then built anew, and a proof may *)
(* be presented that was drawn from an earlier tree.  RelayStep calls      *)
(* these actions.                                                          *)
(***************************************************************************)
EXTENDS Naturals, Sequences, FiniteSets

CONSTANTS
    Key,         \* x coordinates of public keys
    Zero,        \* the field element that fills a layer up
    Depth,       \* MERKLE_DEPTH
    Width,       \* Width[k]: nodes of the k-th layer, counted from the leaves
    LeafLists,   \* the lists of leaves that trees are built of
    NoProof      \* no proof was drawn yet

\* Width[k] is 1 << (Depth - k).
ASSUME MerkleAssumption ==
    /\ Depth \in Nat
    /\ Width \in [0 .. Depth -> Nat \ {0}]
    /\ Width[Depth] = 1
    /\ \A k \in 0 .. Depth - 1 : Width[k] = 2 * Width[k + 1]
    /\ \A k \in 0 .. Depth : Width[k] <= Width[0]
    /\ LeafLists \subseteq Seq(Key)
    /\ Zero \notin Key

\* Poseidon is a symbolic injective function.
Hash(left, right) == <<left, right>>

ASSUME HashAssumption == \A left, right \in Key \cup {Zero} : Hash(left, right) # Zero

-----------------------------------------------------------------------------
VARIABLES
    leaves,    \* the leaves that the tree is built of
    layers,    \* layers[k + 1]: the k-th layer, as far as it is built
    proof,     \* the proof the prover has drawn
    witness,   \* what the gadget is given: leaf, path, indices
    current,   \* the gadget's running hash
    level,     \* how many levels it has climbed
    phase

merkleVars == <<leaves, layers, proof, witness, current, level, phase>>

Top == layers[Len(layers)]

\* Missing leaves become zero, excess ones are cut off.
Resized(list) == [j \in 0 .. Width[0] - 1 |-> IF j < Len(list) THEN list[j + 1] ELSE Zero]

Root == layers[Depth + 1][0]

MerkleInit ==
    /\ leaves \in LeafLists
    /\ layers = <<Resized(leaves)>>
    /\ proof = NoProof /\ witness = NoProof
    /\ current = Zero /\ level = 0
    /\ phase = "build"

\* One turn of the loop of build_merkle_tree: the top layer is hashed in pairs.
HashLayer ==
    /\ phase = "build"
    /\ IF Width[Len(layers) - 1] > 1
         THEN /\ layers' = Append(layers, [j \in 0 .. Width[Len(layers)] - 1 |->
                                              Hash(Top[2 * j], Top[2 * j + 1])])
              /\ UNCHANGED phase
         ELSE phase' = "ready" /\ UNCHANGED layers
    /\ UNCHANGED <<leaves, proof, witness, current, level>>

\* get_merkle_proof is called for the i-th leaf, counted from 0.
BeginProof(i) ==
    /\ phase = "ready"
    /\ proof' = [index |-> i, leaf |-> leaves[i + 1], idx |-> i, path |-> <<>>,
                 indices |-> <<>>, tree |-> layers]
    /\ phase' = "prove"
    /\ UNCHANGED <<leaves, layers, witness, current, level>>

IsRight(idx) == idx % 2 = 1

\* Mutant: the sibling of a right node is taken to be on its right.
Sibling_alwaysRight(idx) == idx + 1

Sibling(idx) == IF IsRight(idx) THEN idx - 1 ELSE idx + 1

\* A place beyond the end of the layer counts as zero.
NodeAt(k, j) == IF j < Width[k] THEN layers[k + 1][j] ELSE Zero

\* Mutant: one level too many.
ClimbProof_offByOne ==
    /\ phase = "prove"
    /\ LET k == Len(proof.indices) IN
       IF k <= Depth
         THEN /\ proof' = [proof EXCEPT !.path = Append(@, NodeAt(k, Sibling(proof.idx))),
                                        !.indices = Append(@, IsRight(proof.idx)),
                                        !.idx = @ \div 2]
              /\ UNCHANGED phase
         ELSE phase' = "ready" /\ UNCHANGED proof
    /\ UNCHANGED <<leaves, layers, witness, current, level>>

\* One turn of its loop: the sibling at the next level goes into the path.
ClimbProof ==
    /\ phase = "prove"
    /\ LET k == Len(proof.indices) IN
       IF k < Depth
         THEN /\ proof' = [proof EXCEPT !.path = Append(@, NodeAt(k, Sibling(proof.idx))),
                                        !.indices = Append(@, IsRight(proof.idx)),
                                        !.idx = @ \div 2]
              /\ UNCHANGED phase
         ELSE phase' = "ready" /\ UNCHANGED proof
    /\ UNCHANGED <<leaves, layers, witness, current, level>>

\* The gadget is called, its loop starts at the leaf.
Present(w) ==
    /\ phase = "ready"
    /\ witness' = w /\ current' = w.leaf /\ level' = 0
    /\ phase' = "verify"
    /\ UNCHANGED <<leaves, layers, proof>>

\* The nodes of the tree, and the keys of no leaf.
Known == Key \cup {Zero} \cup UNION {{layers[k][j] : j \in DOMAIN layers[k]} : k \in DOMAIN layers}

\* The gadget asserts that path and indices have Depth elements.
Witness == [leaf : Known, path : [1 .. Depth -> Known], indices : [1 .. Depth -> BOOLEAN]]

\* Mutant: the side of the sibling is not looked at.
VerifyLevel_leftOnly ==
    /\ phase = "verify" /\ level < Depth
    /\ current' = Hash(current, witness.path[level + 1])
    /\ level' = level + 1
    /\ UNCHANGED <<leaves, layers, proof, witness, phase>>

\* One turn of the loop of verify_membership.
VerifyLevel ==
    /\ phase = "verify" /\ level < Depth
    /\ current' = IF witness.indices[level + 1]
                     THEN Hash(witness.path[level + 1], current)
                     ELSE Hash(current, witness.path[level + 1])
    /\ level' = level + 1
    /\ UNCHANGED <<leaves, layers, proof, witness, phase>>

\* Mutant: the root is not compared.
EnforceRoot_anyRoot ==
    /\ phase = "verify" /\ level = Depth
    /\ phase' = "accepted"
    /\ UNCHANGED <<leaves, layers, proof, witness, current, level>>

\* current.enforce_equal(root).
EnforceRoot ==
    /\ phase = "verify" /\ level = Depth
    /\ phase' = IF current = Root THEN "accepted" ELSE "rejected"
    /\ UNCHANGED <<leaves, layers, proof, witness, current, level>>

Decided == phase \in {"accepted", "rejected"}

\* The caller is done with the verdict.
Finish ==
    /\ Decided
    /\ witness' = NoProof /\ current' = Zero /\ level' = 0
    /\ phase' = "ready"
    /\ UNCHANGED <<leaves, layers, proof>>

\* The reputable set has changed: the tree is built anew.  Proofs drawn from
\* the old one stay with their provers.
Rebuild ==
    /\ phase = "ready"
    /\ leaves' \in LeafLists
    /\ layers' = <<Resized(leaves')>>
    /\ phase' = "build"
    /\ UNCHANGED <<proof, witness, current, level>>

-----------------------------------------------------------------------------
\* The ways from a leaf to the root: the place that a climb passes in each layer.
Climbs ==
    {pos \in [0 .. Depth -> 0 .. Width[0] - 1] :
        /\ \A k \in 0 .. Depth : pos[k] < Width[k]
        /\ \A k \in 0 .. Depth - 1 : pos[k + 1] = pos[k] \div 2}

\* w holds the leaf at some place and the siblings along the way from it.
IsPath(w) ==
    \E pos \in Climbs :
        /\ w.leaf = layers[1][pos[0]]
        /\ \A k \in 0 .. Depth - 1 :
              /\ w.indices[k + 1] = IsRight(pos[k])
              /\ w.path[k + 1] = layers[k + 1][Sibling(pos[k])]

\* "Verify that `leaf` is a member of the tree with `root`, given `path` and
\* `indices`" (merkle_gadget.rs:15): of all assignments, inner nodes and nodes
\* of other trees included, the gadget accepts exactly the ways through the
\* tree as it was built.  A leaf of the padding has such a way too.
AcceptsExactlyPaths ==
    /\ phase = "accepted" => IsPath(witness)
    /\ phase = "rejected" => ~IsPath(witness)
=============================================================================
