--------------------------- MODULE CreditSpending ---------------------------
(***************************************************************************)
(* The life of a sender's credits: receipts fill the manager's             *)
(* accumulators (credit.rs), a proving thread compresses them in the       *)
(* background, consume attaches the proof to a message, and the first-hop  *)
(* verifier checks it and stores its nullifier (nullifier.rs).             *)
(*                                                                         *)
(* The code leaves to its caller when a proof is started, that the network *)
(* loses, repeats and delays messages, which proofs a verifier looks at,   *)
(* and when it clears an epoch.  The caller here does what the comments of *)
(* the two files say of it.                                                *)
(***************************************************************************)
EXTENDS Credit, Nullifier

CONSTANTS
    SenderSk,      \* the sender's secret key
    Verifier,      \* public keys of the first hops
    Nowhere,       \* no verifier
    Validity,      \* CREDIT_VALIDITY_WINDOWS: how many epochs a proof is good for
    MaxCredits,    \* bound on the accumulators of the manager
    MaxJobs        \* bound on the proofs in the making at a time

ASSUME SpendingAssumption ==
    /\ MaxEpoch \in Nat /\ Validity \in Nat \ {0}
    /\ MaxCredits \in Nat \ {0} /\ MaxJobs \in Nat
    /\ Nowhere \notin Verifier

CreditIndex == 1 .. MaxCredits

VARIABLES
    manager,    \* the sender's CreditManager
    jobs,       \* proofs being compressed in the background
    sent,       \* proofs attached to messages; the network may repeat each
    now,        \* the current epoch
    used,       \* used[v]: the NullifierStore of verifier v
    redeemed    \* history: how often each credit was accepted

vars == <<manager, jobs, sent, now, used, redeemed>>

\* A proof for verifier v in epoch e over the receipts of acc (CreditProof).
ProofOf(acc, e, v) ==
    [nullifier   |-> ComputeNullifier(SenderSk, e, v, DeriveNonce(acc.witnesses)),
     epoch       |-> e,
     verifier_pk |-> v]

Init ==
    /\ manager = NewManager
    /\ jobs = {}
    /\ sent = {}
    /\ now = 0
    /\ used = [v \in Verifier |-> NewStore]
    /\ redeemed = [c \in CreditIndex |-> 0]

\* A receipt arrives, possibly one that arrived before.
ReceiveReceipt(w) ==
    /\ Retires(manager) => Len(manager) < MaxCredits
    /\ manager' = AddRelayWitness(manager, w)
    /\ UNCHANGED <<jobs, sent, now, used, redeemed>>

\* is_ready_to_compress stays true until a proof is set, so a second job for
\* the same credit may be started while the first is running.
StartCompression(c, v) ==
    /\ IsReadyToCompress(manager[c]) /\ Cardinality(jobs) < MaxJobs
    /\ jobs' = jobs \cup {[credit |-> c, proof |-> ProofOf(manager[c], now, v)]}
    /\ UNCHANGED <<manager, sent, now, used, redeemed>>

FinishCompression(j) ==
    /\ CanSetProof(manager[j.credit])
    /\ manager' = [manager EXCEPT ![j.credit] = SetCompressedProof(@, j.proof)]
    /\ jobs' = jobs \ {j}
    /\ UNCHANGED <<sent, now, used, redeemed>>

\* The proof is taken out of the accumulator and leaves with a message.
Send(c) ==
    /\ CanConsume(manager[c])
    /\ sent' = sent \cup {[credit |-> c, proof |-> manager[c].cached_proof]}
    /\ manager' = [manager EXCEPT ![c] = Consume(@)]
    /\ UNCHANGED <<jobs, now, used, redeemed>>

Expired(e) == e + Validity <= now

\* Mutant: the epoch of a proof is not checked.
Verify_anyEpoch(v, m) ==
    /\ m.proof.verifier_pk = v
    /\ IsUnused(used[v], m.proof.epoch, m.proof.nullifier)
    /\ used' = [used EXCEPT ![v] = CheckAndInsert(@, m.proof.epoch, m.proof.nullifier)]
    /\ redeemed' = [redeemed EXCEPT ![m.credit] = @ + 1]
    /\ UNCHANGED <<manager, jobs, sent, now>>

\* nullifier.rs:11-14: v looks at proofs bound to it and of a valid epoch, and
\* accepts those whose nullifier it has not stored.  A refused one changes
\* nothing.
Verify(v, m) ==
    /\ m.proof.verifier_pk = v /\ ~Expired(m.proof.epoch)
    /\ IsUnused(used[v], m.proof.epoch, m.proof.nullifier)
    /\ used' = [used EXCEPT ![v] = CheckAndInsert(@, m.proof.epoch, m.proof.nullifier)]
    /\ redeemed' = [redeemed EXCEPT ![m.credit] = @ + 1]
    /\ UNCHANGED <<manager, jobs, sent, now>>

\* "Cleared when epoch expires (bounded storage)" (nullifier.rs:44).
Clear(v, e) ==
    /\ Expired(e)
    /\ used' = [used EXCEPT ![v] = ClearEpoch(@, e)]
    /\ UNCHANGED <<manager, jobs, sent, now, redeemed>>

NextEpoch ==
    /\ now < MaxEpoch
    /\ now' = now + 1
    /\ UNCHANGED <<manager, jobs, sent, used, redeemed>>

Next ==
    \/ \E w \in Witness : ReceiveReceipt(w)
    \/ \E c \in 1 .. Len(manager) : Send(c) \/ \E v \in Verifier : StartCompression(c, v)
    \/ \E j \in jobs : FinishCompression(j)
    \/ \E v \in Verifier : (\E m \in sent : Verify(v, m)) \/ (\E e \in Epoch : Clear(v, e))
    \/ NextEpoch

Spec == Init /\ [][Next]_vars

-----------------------------------------------------------------------------
CreditProof ==
    [nullifier : {SenderSk} \X Epoch \X Verifier \X Seq(Witness),
     epoch : Epoch, verifier_pk : Verifier]

Accumulator ==
    [witnesses : Seq(Witness), cached_proof : CreditProof \cup {NoProof}, consumed : BOOLEAN]

Attached == [credit : CreditIndex, proof : CreditProof]

TypeOK ==
    /\ manager \in Seq(Accumulator) /\ Len(manager) \in CreditIndex
    /\ jobs \subseteq Attached /\ sent \subseteq Attached
    /\ \A m \in jobs \cup sent : m.credit <= Len(manager)
    /\ now \in Epoch
    /\ used \in [Verifier -> [Epoch -> SUBSET {m.proof.nullifier : m \in sent}]]
    /\ redeemed \in [CreditIndex -> Nat]

Credits == 1 .. Len(manager)

\* The receipts behind a credit come from different issuers.
DistinctIssuers ==
    \A c \in Credits : \A i, j \in 1 .. Len(manager[c].witnesses) :
        manager[c].witnesses[i].issuer_pk = manager[c].witnesses[j].issuer_pk => i = j

\* The receipts of a credit are settled when its first proof is started: each
\* proof of it in the making (a second, late one too), cached or sent is over
\* exactly the N_CREDIT receipts that the accumulator holds now.
Covers(proof, acc) ==
    /\ Len(acc.witnesses) = NCredit
    /\ proof = ProofOf(acc, proof.epoch, proof.verifier_pk)

ProofCoversReceipts ==
    /\ \A m \in jobs \cup sent : Covers(m.proof, manager[m.credit])
    /\ \A c \in Credits :
          manager[c].cached_proof # NoProof => Covers(manager[c].cached_proof, manager[c])

\* can_send does not promise too much: the credits that ready_credits counts and
\* the messages sent are together never more than the credits earned by enough
\* receipts, also when a late proof reaches a consumed accumulator.
ReadyIsUnspent ==
    ReadyCredits(manager) + Cardinality(sent) <= Cardinality({c \in Credits : Full(manager[c])})

\* However many proofs of a credit were made, and however the network repeats
\* and delays messages across epochs and cleared stores, the credit is
\* accepted at most once by all verifiers together.
NoDoubleSpend == \A c \in CreditIndex : redeemed[c] <= 1

\* The verifier of the message among msgs that carries the credit.
SpentAt(msgs, c) ==
    IF \E m \in msgs : m.credit = c
        THEN (CHOOSE m \in msgs : m.credit = c).proof.verifier_pk
        ELSE Nowhere

\* The life of the credits, with second and late proofs, repeated and stale
\* messages and cleared stores, is that of OneTimeCredit: earned, then spent
\* once at one verifier, then redeemed at most once, and there.
Abstract == INSTANCE OneTimeCredit WITH
    Credit <- CreditIndex,
    earned <- {c \in Credits : Full(manager[c])},
    spentAt <- [c \in CreditIndex |-> SpentAt(sent, c)]

ImplementsOneTimeCredit == Abstract!Spec

\* nullifier.rs:33 "This ensures the same credit set always produces the same
\* nullifier": two full accumulators with the same set of receipts give the
\* same nullifier for the same verifier and epoch.
SameCreditSetSameNullifier ==
    \A c, d \in Credits : \A v \in Verifier :
        LET Receipts(k) == {manager[k].witnesses[i] : i \in 1 .. Len(manager[k].witnesses)}
        IN  Full(manager[c]) /\ Full(manager[d]) /\ Receipts(c) = Receipts(d) =>
                ProofOf(manager[c], now, v).nullifier = ProofOf(manager[d], now, v).nullifier
=============================================================================
