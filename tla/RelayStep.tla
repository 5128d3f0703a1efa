----------------------------- MODULE RelayStep -----------------------------
(***************************************************************************)
(* circuits/src/relay_step.rs: the circuit that proves one relay           *)
(* operation.  A relay holds a receipt for a packet it passed on and a     *)
(* Merkle proof for the receipt's issuer, and assigns them to the circuit  *)
(* in this epoch or a later one.                                           *)
(*                                                                         *)
(* Of the six components only two constrain anything: the receipt must be  *)
(* the hash of the packet and the issuer, and the issuer a leaf under the  *)
(* public root.  The shared secret, the decrypted header, the MAC and the  *)
(* next hop are computed from the private witnesses and compared with      *)
(* nothing, so they are left out.                                          *)
(***************************************************************************)
EXTENDS Merkle

CONSTANTS
    Header,      \* packet_header_blocks of the packets there are
    MaxEpoch,    \* bound on the epochs of a behaviour
    NoReceipt

ASSUME RelayStepAssumption ==
    /\ MaxEpoch \in Nat
    /\ \A h \in Header : {1, 2} \subseteq DOMAIN h

VARIABLES
    epoch,           \* public input
    receipt,         \* the receipt the relay holds
    header,          \* private witness packet_header_blocks
    receipt_value    \* private witness

vars == <<merkleVars, epoch, receipt, header, receipt_value>>

\* Neither the epoch nor the blocks after the first two are among its inputs.
ExpectedReceipt(h, issuer) == Hash(Hash(h[1], h[2]), issuer)

Init ==
    /\ MerkleInit
    /\ epoch = 0
    /\ receipt = NoReceipt
    /\ header = NoReceipt /\ receipt_value = Zero

\* The i-th node of the reputable set takes the relay's packet and answers
\* with a receipt.
Issue(i, h) ==
    /\ phase = "ready"
    /\ receipt' = [header |-> h, issuer |-> leaves[i + 1], epoch |-> epoch,
                   value |-> ExpectedReceipt(h, leaves[i + 1])]
    /\ UNCHANGED <<merkleVars, epoch, header, receipt_value>>

\* The witnesses are allocated.
Synthesize(h, v, w) ==
    /\ Present(w)
    /\ header' = h /\ receipt_value' = v
    /\ UNCHANGED <<epoch, receipt>>

\* The relay assigns the receipt and the proof it holds.
ProveStep ==
    /\ proof # NoProof /\ receipt # NoReceipt
    /\ Synthesize(receipt.header, receipt.value,
                  [leaf |-> receipt.issuer, path |-> proof.path, indices |-> proof.indices])

\* Any other assignment, composed from what is known.  To bound the model it is
\* made only before the first proof is drawn: a proof held is not used in it.
AssignAny ==
    /\ phase = "ready" /\ proof = NoProof /\ receipt = NoReceipt
    /\ \E g, h \in Header, w \in Witness : Synthesize(h, ExpectedReceipt(g, w.leaf), w)

ReceiptHolds == receipt_value = ExpectedReceipt(header, witness.leaf)

Satisfied == phase = "accepted" /\ ReceiptHolds

NextEpoch ==
    /\ epoch < MaxEpoch
    /\ Rebuild
    /\ epoch' = epoch + 1
    /\ UNCHANGED <<receipt, header, receipt_value>>

MerkleStep ==
    /\ \/ HashLayer
       \/ \E i \in 0 .. Len(leaves) - 1 : BeginProof(i)
       \/ ClimbProof
       \/ VerifyLevel \/ EnforceRoot
    /\ UNCHANGED <<epoch, receipt, header, receipt_value>>

Discard ==
    /\ Finish
    /\ header' = NoReceipt /\ receipt_value' = Zero
    /\ UNCHANGED <<epoch, receipt>>

Next ==
    \/ MerkleStep
    \/ \E i \in 0 .. Len(leaves) - 1, h \in Header : Issue(i, h)
    \/ ProveStep \/ AssignAny
    \/ Discard \/ NextEpoch

Spec == Init /\ [][Next]_vars

-----------------------------------------------------------------------------
\* A proof is of a leaf of the list its tree was built of, layers, paths and
\* the climb stay within the depth.
MerkleTypeOK ==
    /\ leaves \in LeafLists
    /\ Len(layers) \in 1 .. Depth + 1
    /\ \A k \in 1 .. Len(layers) : DOMAIN layers[k] = 0 .. Width[k - 1] - 1
    /\ proof # NoProof =>
          /\ \E list \in LeafLists :
                /\ proof.index \in 0 .. Len(list) - 1
                /\ proof.leaf = list[proof.index + 1]
                /\ proof.tree[1] = Resized(list)
          /\ Len(proof.path) \in 0 .. Depth /\ Len(proof.indices) = Len(proof.path)
    /\ level \in 0 .. Depth
    /\ phase \in {"build", "ready", "prove", "verify", "accepted", "rejected"}

\* A receipt names a packet and a key, in this epoch or an earlier one.
ReceiptTyped ==
    receipt # NoReceipt =>
        \E h \in Header, k \in Key, n \in 0 .. epoch :
            receipt = [header |-> h, issuer |-> k, epoch |-> n, value |-> ExpectedReceipt(h, k)]

\* While the gadget runs it has the Depth siblings and sides that it asserts
\* (merkle_gadget.rs:23-24); before and after, no witness is left.
AssignmentTyped ==
    IF phase \in {"verify", "accepted", "rejected"}
      THEN /\ witness.leaf \in Known
           /\ DOMAIN witness.path = 1 .. Depth
           /\ witness.indices \in [1 .. Depth -> BOOLEAN]
           /\ header \in Header
           /\ \E g \in Header : receipt_value = ExpectedReceipt(g, witness.leaf)
      ELSE witness = NoProof /\ header = NoReceipt /\ receipt_value = Zero

\* Trees, proofs, receipts and assignments keep their types.
TypeOK ==
    /\ MerkleTypeOK
    /\ epoch \in 0 .. MaxEpoch
    /\ ReceiptTyped
    /\ AssignmentTyped

\* What the relay assigned was drawn from its own proof and receipt.
OwnStep == Decided /\ proof # NoProof /\ receipt # NoReceipt

\* The leaves of the tree of the public root are those of the tree that the
\* proof was drawn from, with the issuer of the receipt at the proof's place: the
\* leaf that the proof was drawn for is not part of it.
Fits ==
    /\ proof.index < Width[0]
    /\ layers[1] = [proof.tree[1] EXCEPT ![proof.index] = receipt.issuer]

\* A relay with a receipt of this epoch of a node of the reputable set and a
\* proof for that node's place satisfies the circuit, also with a tree built anew
\* if no other place has changed: build_merkle_tree, get_merkle_proof and the
\* gadget agree on sides, levels and padding.
HonestStepSatisfies == OwnStep /\ Fits /\ receipt.epoch = epoch => Satisfied

\* Any other proof that a relay still holds satisfies nothing: the root binds
\* every place of the list of leaves, so relays and verifiers must agree on the
\* reputable set of the epoch and on its order.  Leaves that do not fit into the
\* tree are cut off by the resize (merkle_gadget.rs:81) and have no proof.
StaleProofRefused == OwnStep /\ Satisfied => Fits

\* "receipt_value == Poseidon(packet_hash || issuer_pk_x || epoch)"
\* (relay_step.rs:114): a receipt satisfies the circuit in its own epoch only.
\* The constraint (115-118) leaves the epoch out, and an earlier receipt passes.
ReceiptOfThisEpoch == OwnStep /\ Satisfied => receipt.epoch = epoch
=============================================================================
