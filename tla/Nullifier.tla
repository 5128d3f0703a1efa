----------------------------- MODULE Nullifier -----------------------------
(***************************************************************************)
(* core/src/nullifier.rs: the nullifier of a credit and a verifier's store *)
(* of used nullifiers.  Poseidon is a symbolic injective function: a hash  *)
(* is the tuple of its inputs.                                             *)
(***************************************************************************)
EXTENDS Naturals

CONSTANT MaxEpoch   \* bound on the epochs of a behaviour

Epoch == 0 .. MaxEpoch

\* hash_two over the receipts from the left: injective in their order.
DeriveNonce(receipt_hashes) == receipt_hashes

\* Mutant: the verifier is not bound.
ComputeNullifier_unbound(sender_sk, epoch, verifier_pk, nonce) ==
    <<sender_sk, epoch, nonce>>

ComputeNullifier(sender_sk, epoch, verifier_pk, nonce) ==
    <<sender_sk, epoch, verifier_pk, nonce>>

\* NullifierStore: per epoch, the nullifiers used; {} stands for no entry.
NewStore == [e \in Epoch |-> {}]

\* check_and_insert returns TRUE, and what it leaves in the store.
IsUnused(store, epoch, nullifier) == nullifier \notin store[epoch]

CheckAndInsert(store, epoch, nullifier) == [store EXCEPT ![epoch] = @ \cup {nullifier}]

ClearEpoch(store, epoch) == [store EXCEPT ![epoch] = {}]
=============================================================================
