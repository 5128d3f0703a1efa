------------------------------- MODULE Credit -------------------------------
(***************************************************************************)
(* core/src/credit.rs: one credit accumulator (Accumulating -> Ready ->    *)
(* Consumed), and the manager that keeps a pipeline of them.               *)
(*                                                                         *)
(* A manager is the sequence pipeline \o <<current>>: moving the current   *)
(* accumulator to the end of the pipeline and starting an empty one is an  *)
(* Append, and an accumulator keeps its position for life.                 *)
(***************************************************************************)
EXTENDS Naturals, Sequences, FiniteSets

CONSTANTS
    Issuer,    \* public keys that sign receipts
    Packet,    \* packet hashes
    NCredit,   \* N_CREDIT, the receipts that make a credit
    NoProof    \* the empty Option<CreditProof>

ASSUME NCreditAssumption == NCredit \in Nat \ {0}

\* A receipt value is Poseidon(packet_hash, issuer key): the record stands for
\* it.  The Merkle path of a witness is payload of the circuit.
Witness == [issuer_pk : Issuer, packet_hash : Packet]

-----------------------------------------------------------------------------
\* CreditAccumulator

NewAccumulator == [witnesses |-> <<>>, cached_proof |-> NoProof, consumed |-> FALSE]

\* Mutant: the proof is looked at before consumed.
State_proofFirst(acc) == IF acc.cached_proof # NoProof THEN "Ready"
                         ELSE IF acc.consumed THEN "Consumed"
                         ELSE "Accumulating"

State(acc) == IF acc.consumed THEN "Consumed"
              ELSE IF acc.cached_proof # NoProof THEN "Ready"
              ELSE "Accumulating"

\* Mutant: one receipt too many fits.
Full_offByOne(acc) == Len(acc.witnesses) > NCredit

Full(acc) == Len(acc.witnesses) >= NCredit

HasIssuer(acc, pk) == \E i \in 1 .. Len(acc.witnesses) : acc.witnesses[i].issuer_pk = pk

\* Mutant: the issuers are not compared.
Accepts_anyIssuer(acc, w) == ~acc.consumed /\ ~Full(acc)

\* add_witness succeeds; otherwise it returns an error and changes nothing.
Accepts(acc, w) == ~acc.consumed /\ ~Full(acc) /\ ~HasIssuer(acc, w.issuer_pk)

AddWitness(acc, w) == [acc EXCEPT !.witnesses = Append(@, w)]

IsReadyToCompress(acc) ==
    Len(acc.witnesses) = NCredit /\ acc.cached_proof = NoProof /\ ~acc.consumed

\* The assert of set_compressed_proof is a guard of its callers; it looks
\* neither at an earlier proof nor at consumed.
CanSetProof(acc) == Len(acc.witnesses) = NCredit

SetCompressedProof(acc, proof) == [acc EXCEPT !.cached_proof = proof]

\* consume succeeds, and hands out acc.cached_proof.
CanConsume(acc) == ~acc.consumed /\ acc.cached_proof # NoProof

\* Mutant: the proof is taken and the credit stays open.
Consume_staysOpen(acc) == [acc EXCEPT !.cached_proof = NoProof]

Consume(acc) == [acc EXCEPT !.cached_proof = NoProof, !.consumed = TRUE]

-----------------------------------------------------------------------------
\* CreditManager

NewManager == <<NewAccumulator>>

Current(manager) == manager[Len(manager)]

\* The current accumulator is retired to the pipeline before w is added.
Retires(manager) == Current(manager).consumed \/ Full(Current(manager))

\* A witness whose issuer the current accumulator has already is refused.
AddRelayWitness(manager, w) ==
    IF Accepts(Current(manager), w)
        THEN [manager EXCEPT ![Len(manager)] = AddWitness(@, w)]
    ELSE IF Retires(manager)
        THEN Append(manager, AddWitness(NewAccumulator, w))
    ELSE manager

ReadyCredits(manager) ==
    Cardinality({i \in 1 .. Len(manager) : State(manager[i]) = "Ready"})
=============================================================================
