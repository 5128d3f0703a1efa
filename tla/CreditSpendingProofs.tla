------------------------ MODULE CreditSpendingProofs ------------------------
(***************************************************************************)
(* Proofs about the life of credits, for any issuers, verifiers, epochs    *)
(* and bounds: types, one-time use, and the refinement of OneTimeCredit.   *)
(***************************************************************************)
EXTENDS CreditSpending, FiniteSetTheorems, TLAPS

-----------------------------------------------------------------------------
\* add_witness keeps the shape of an accumulator.
LEMMA AddWitnessTyped ==
    ASSUME NEW acc \in Accumulator, NEW w \in Witness
    PROVE  AddWitness(acc, w) \in Accumulator
<1> DEFINE longer == Append(acc.witnesses, w)
<1>1. longer \in Seq(Witness)
  BY DEF Accumulator
<1>2. AddWitness(acc, w) = [acc EXCEPT !.witnesses = longer]
  BY DEF AddWitness
<1> HIDE DEF longer
<1> QED BY <1>1, <1>2 DEF Accumulator

\* A new accumulator is typed.
LEMMA NewAccumulatorTyped == NewAccumulator \in Accumulator
  BY DEF NewAccumulator, Accumulator

\* What add_relay_witness does to a manager: at most the current accumulator
\* takes the witness, or a new one that holds it alone is started.
LEMMA AddRelayWitnessEffect ==
    ASSUME NEW old \in Seq(Accumulator), Len(old) # 0, NEW w \in Witness
    PROVE  LET new == AddRelayWitness(old, w) IN
           /\ new \in Seq(Accumulator)
           /\ \/ Len(new) = Len(old)
              \/ /\ Retires(old) /\ Len(new) = Len(old) + 1
                 /\ new[Len(new)] = AddWitness(NewAccumulator, w)
           /\ \A c \in 1 .. Len(old) :
                 \/ new[c] = old[c]
                 \/ /\ Accepts(old[c], w) /\ new[c] = AddWitness(old[c], w)
                    /\ c = Len(old) /\ Len(new) = Len(old)
<1> DEFINE new == AddRelayWitness(old, w)
           n == Len(old)
<1>0. n \in Nat \ {0} /\ n \in 1 .. n /\ old[n] \in Accumulator
  OBVIOUS
<1>1. CASE Accepts(Current(old), w)
  <2>1. AddWitness(old[n], w) \in Accumulator
    BY <1>0, AddWitnessTyped
  <2>2. new = [old EXCEPT ![n] = AddWitness(old[n], w)]
    BY <1>1 DEF AddRelayWitness
  <2>3. new \in Seq(Accumulator) /\ Len(new) = n
    BY <1>0, <2>1, <2>2
  <2>4. \A c \in 1 .. n : new[c] = IF c = n THEN AddWitness(old[n], w) ELSE old[c]
    BY <1>0, <2>2
  <2> QED BY <1>0, <1>1, <2>3, <2>4 DEF Current
<1>2. CASE ~Accepts(Current(old), w) /\ Retires(old)
  <2>1. AddWitness(NewAccumulator, w) \in Accumulator
    BY AddWitnessTyped, NewAccumulatorTyped
  <2>2. new = Append(old, AddWitness(NewAccumulator, w))
    BY <1>2 DEF AddRelayWitness
  <2> QED BY <1>0, <1>2, <2>1, <2>2
<1>3. CASE ~Accepts(Current(old), w) /\ ~Retires(old)
  BY <1>3 DEF AddRelayWitness
<1> QED BY <1>1, <1>2, <1>3

\* A proof over a typed accumulator is typed.
LEMMA ProofOfTyped ==
    ASSUME NEW acc \in Accumulator, NEW e \in Epoch, NEW v \in Verifier
    PROVE  ProofOf(acc, e, v) \in CreditProof
  BY DEF ProofOf, ComputeNullifier, DeriveNonce, CreditProof, Accumulator

-----------------------------------------------------------------------------
\* Type correctness; in particular a store holds only nullifiers that were sent.
THEOREM CreditTyped == Spec => []TypeOK
<1>1. Init => TypeOK
  <2> SUFFICES ASSUME Init PROVE TypeOK
    OBVIOUS
  <2>2. manager \in Seq(Accumulator) /\ Len(manager) \in CreditIndex
    BY NewAccumulatorTyped, SpendingAssumption DEF Init, NewManager, CreditIndex
  <2>3. now \in Epoch
    BY SpendingAssumption DEF Init, Epoch
  <2>4. used \in [Verifier -> [Epoch -> SUBSET {m.proof.nullifier : m \in sent}]]
    BY DEF Init, NewStore
  <2> QED BY <2>2, <2>3, <2>4 DEF Init, TypeOK
<1>2. TypeOK /\ [Next]_vars => TypeOK'
  <2> SUFFICES ASSUME TypeOK, [Next]_vars PROVE TypeOK'
    OBVIOUS
  <2>0. /\ Len(manager) \in Nat \ {0}
        /\ \A c \in 1 .. Len(manager) : manager[c] \in Accumulator /\ c \in CreditIndex
    BY SpendingAssumption DEF TypeOK, CreditIndex
  <2>1. ASSUME NEW w \in Witness, ReceiveReceipt(w) PROVE TypeOK'
    <3>1. /\ manager' \in Seq(Accumulator)
          /\ \/ Len(manager') = Len(manager)
             \/ Retires(manager) /\ Len(manager') = Len(manager) + 1
      BY <2>0, <2>1, AddRelayWitnessEffect DEF ReceiveReceipt, TypeOK
    <3>2. Len(manager') \in CreditIndex /\ Len(manager) <= Len(manager')
      BY <2>0, <2>1, <3>1, SpendingAssumption DEF ReceiveReceipt, TypeOK, CreditIndex
    <3> QED BY <2>0, <2>1, <3>1, <3>2 DEF ReceiveReceipt, TypeOK, Attached, CreditIndex
  <2>2. ASSUME NEW c \in 1 .. Len(manager), NEW v \in Verifier, StartCompression(c, v)
        PROVE  TypeOK'
    <3>1. [credit |-> c, proof |-> ProofOf(manager[c], now, v)] \in Attached
      BY <2>0, ProofOfTyped DEF TypeOK, Attached
    <3> QED BY <2>0, <2>2, <3>1 DEF StartCompression, TypeOK
  <2>3. ASSUME NEW j \in jobs, FinishCompression(j) PROVE TypeOK'
    <3>1. j \in Attached /\ j.credit \in 1 .. Len(manager)
      BY <2>0 DEF TypeOK, Attached, CreditIndex
    <3>2. SetCompressedProof(manager[j.credit], j.proof) \in Accumulator
      BY <2>0, <3>1 DEF SetCompressedProof, Attached, Accumulator
    <3>3. manager' \in Seq(Accumulator) /\ Len(manager') = Len(manager)
      BY <2>3, <3>1, <3>2 DEF FinishCompression, TypeOK
    <3> QED BY <2>3, <3>3 DEF FinishCompression, TypeOK
  <2>4. ASSUME NEW c \in 1 .. Len(manager), Send(c) PROVE TypeOK'
    <3>1. manager[c].cached_proof \in CreditProof
      BY <2>0, <2>4 DEF Send, CanConsume, Accumulator
    <3>2. [credit |-> c, proof |-> manager[c].cached_proof] \in Attached
      BY <2>0, <3>1 DEF Attached
    <3>3. Consume(manager[c]) \in Accumulator
      BY <2>0 DEF Consume, Accumulator
    <3>4. manager' \in Seq(Accumulator) /\ Len(manager') = Len(manager)
      BY <2>4, <3>3 DEF Send, TypeOK
    <3>5. used' \in [Verifier -> [Epoch -> SUBSET {m.proof.nullifier : m \in sent'}]]
      BY <2>4 DEF Send, TypeOK
    <3> QED BY <2>4, <3>2, <3>4, <3>5 DEF Send, TypeOK
  <2>5. ASSUME NEW v \in Verifier, NEW m \in sent, Verify(v, m) PROVE TypeOK'
    <3>1. m.credit \in CreditIndex /\ m.proof.epoch \in Epoch
      BY DEF TypeOK, Attached, CreditProof
    <3>2. CheckAndInsert(used[v], m.proof.epoch, m.proof.nullifier)
            \in [Epoch -> SUBSET {k.proof.nullifier : k \in sent}]
      BY <3>1 DEF TypeOK, CheckAndInsert
    <3>3. used' \in [Verifier -> [Epoch -> SUBSET {k.proof.nullifier : k \in sent'}]]
      BY <2>5, <3>2 DEF Verify, TypeOK
    <3>4. redeemed' \in [CreditIndex -> Nat]
      BY <2>5, <3>1 DEF Verify, TypeOK
    <3> QED BY <2>5, <3>3, <3>4 DEF Verify, TypeOK
  <2>6. ASSUME NEW v \in Verifier, NEW e \in Epoch, Clear(v, e) PROVE TypeOK'
    <3>1. ClearEpoch(used[v], e) \in [Epoch -> SUBSET {k.proof.nullifier : k \in sent}]
      BY DEF TypeOK, ClearEpoch
    <3>2. used' \in [Verifier -> [Epoch -> SUBSET {k.proof.nullifier : k \in sent'}]]
      BY <2>6, <3>1 DEF Clear, TypeOK
    <3> QED BY <2>6, <3>2 DEF Clear, TypeOK
  <2>7. CASE NextEpoch
    BY <2>7, SpendingAssumption DEF NextEpoch, TypeOK, Epoch
  <2>8. CASE UNCHANGED vars
    BY <2>8 DEF vars, TypeOK
  <2> QED BY <2>1, <2>2, <2>3, <2>4, <2>5, <2>6, <2>7, <2>8 DEF Next
<1> QED BY <1>1, <1>2, PTL DEF Spec

-----------------------------------------------------------------------------
\* The credits of a typed state and their accumulators.
LEMMA CreditsTyped ==
    ASSUME TypeOK
    PROVE  /\ Len(manager) \in Nat \ {0}
           /\ \A c \in Credits : manager[c] \in Accumulator /\ c \in CreditIndex
           /\ \A m \in jobs \cup sent : m \in Attached /\ m.credit \in Credits
  BY SpendingAssumption DEF TypeOK, Attached, CreditIndex, Credits

\* What each action does to an accumulator that was there before it.
LEMMA AccumulatorStep ==
    ASSUME TypeOK
    PROVE  /\ \A w \in Witness : ReceiveReceipt(w) =>
                 /\ Len(manager') \in {Len(manager), Len(manager) + 1}
                 /\ \A c \in Credits :
                       \/ manager'[c] = manager[c]
                       \/ /\ ~Full(manager[c]) /\ manager'[c] = AddWitness(manager[c], w)
                          /\ c = Len(manager) /\ Len(manager') = Len(manager)
                 /\ Len(manager') # Len(manager) =>
                       manager'[Len(manager) + 1] = AddWitness(NewAccumulator, w)
           /\ \A j \in jobs : FinishCompression(j) =>
                 /\ Len(manager') = Len(manager)
                 /\ \A c \in Credits : manager'[c] =
                       IF c = j.credit THEN SetCompressedProof(manager[c], j.proof)
                                       ELSE manager[c]
           /\ \A d \in Credits : Send(d) =>
                 /\ Len(manager') = Len(manager)
                 /\ \A c \in Credits : manager'[c] =
                       IF c = d THEN Consume(manager[c]) ELSE manager[c]
<1>1. ASSUME NEW w \in Witness, ReceiveReceipt(w)
      PROVE  /\ Len(manager') \in {Len(manager), Len(manager) + 1}
             /\ \A c \in Credits :
                   \/ manager'[c] = manager[c]
                   \/ /\ ~Full(manager[c]) /\ manager'[c] = AddWitness(manager[c], w)
                      /\ c = Len(manager) /\ Len(manager') = Len(manager)
             /\ Len(manager') # Len(manager) =>
                   manager'[Len(manager) + 1] = AddWitness(NewAccumulator, w)
  <2>1. manager \in Seq(Accumulator) /\ Len(manager) # 0
    BY CreditsTyped DEF TypeOK
  <2> QED BY <1>1, <2>1, AddRelayWitnessEffect DEF ReceiveReceipt, Accepts, Credits
<1>2. ASSUME NEW j \in jobs, FinishCompression(j)
      PROVE  /\ Len(manager') = Len(manager)
             /\ \A c \in Credits : manager'[c] =
                   IF c = j.credit THEN SetCompressedProof(manager[c], j.proof)
                                   ELSE manager[c]
  BY <1>2, CreditsTyped DEF FinishCompression, TypeOK, Credits
<1>3. ASSUME NEW d \in Credits, Send(d)
      PROVE  /\ Len(manager') = Len(manager)
             /\ \A c \in Credits : manager'[c] =
                   IF c = d THEN Consume(manager[c]) ELSE manager[c]
  BY <1>3, CreditsTyped DEF Send, TypeOK, Credits
<1> QED BY <1>1, <1>2, <1>3

\* How the updates change the fields of an accumulator.
LEMMA AccumulatorFields ==
    ASSUME NEW acc \in Accumulator
    PROVE  /\ \A w \in Witness :
                 /\ AddWitness(acc, w).cached_proof = acc.cached_proof
                 /\ AddWitness(acc, w).consumed = acc.consumed
           /\ \A p :
                 /\ SetCompressedProof(acc, p).witnesses = acc.witnesses
                 /\ SetCompressedProof(acc, p).cached_proof = p
                 /\ SetCompressedProof(acc, p).consumed = acc.consumed
           /\ Consume(acc).witnesses = acc.witnesses
           /\ Consume(acc).cached_proof = NoProof
           /\ Consume(acc).consumed = TRUE
  BY DEF AddWitness, SetCompressedProof, Consume, Accumulator

\* No step takes an accumulator away, reopens a consumed one, or changes the
\* receipts of a full one.
LEMMA ManagerGrows ==
    ASSUME TypeOK, [Next]_vars
    PROVE  /\ Len(manager) <= Len(manager')
           /\ \A c \in Credits :
                 /\ manager[c].consumed => manager'[c].consumed
                 /\ Full(manager[c]) => manager'[c].witnesses = manager[c].witnesses
<1>1. ASSUME NEW w \in Witness, ReceiveReceipt(w)
      PROVE  /\ Len(manager) <= Len(manager')
             /\ \A c \in Credits :
                   /\ manager[c].consumed => manager'[c].consumed
                   /\ Full(manager[c]) => manager'[c].witnesses = manager[c].witnesses
  <2>1. Len(manager) <= Len(manager')
    BY <1>1, CreditsTyped, AccumulatorStep
  <2>2. ASSUME NEW c \in Credits
        PROVE  /\ manager[c].consumed => manager'[c].consumed
               /\ Full(manager[c]) => manager'[c].witnesses = manager[c].witnesses
    <3>1. \/ manager'[c] = manager[c]
          \/ ~Full(manager[c]) /\ manager'[c] = AddWitness(manager[c], w)
      BY <1>1, AccumulatorStep
    <3>2. manager[c] \in Accumulator
      BY CreditsTyped
    <3> QED BY <3>1, <3>2, AccumulatorFields
  <2> QED BY <2>1, <2>2
<1>2. ASSUME NEW j \in jobs, FinishCompression(j)
      PROVE  /\ Len(manager) <= Len(manager')
             /\ \A c \in Credits :
                   /\ manager[c].consumed => manager'[c].consumed
                   /\ manager'[c].witnesses = manager[c].witnesses
  <2>1. Len(manager) <= Len(manager')
    BY <1>2, CreditsTyped, AccumulatorStep
  <2>2. ASSUME NEW c \in Credits
        PROVE  /\ manager[c].consumed => manager'[c].consumed
               /\ manager'[c].witnesses = manager[c].witnesses
    <3>1. manager'[c] \in {manager[c], SetCompressedProof(manager[c], j.proof)}
      BY <1>2, AccumulatorStep
    <3>2. /\ SetCompressedProof(manager[c], j.proof).witnesses = manager[c].witnesses
          /\ SetCompressedProof(manager[c], j.proof).consumed = manager[c].consumed
      BY CreditsTyped, AccumulatorFields
    <3> QED BY <3>1, <3>2
  <2> QED BY <2>1, <2>2
<1>3. ASSUME NEW d \in Credits, Send(d)
      PROVE  /\ Len(manager) <= Len(manager')
             /\ \A c \in Credits :
                   /\ manager[c].consumed => manager'[c].consumed
                   /\ manager'[c].witnesses = manager[c].witnesses
  <2>1. Len(manager) <= Len(manager')
    BY <1>3, CreditsTyped, AccumulatorStep
  <2>2. ASSUME NEW c \in Credits
        PROVE  /\ manager[c].consumed => manager'[c].consumed
               /\ manager'[c].witnesses = manager[c].witnesses
    <3>1. manager'[c] \in {manager[c], Consume(manager[c])}
      BY <1>3, AccumulatorStep
    <3>2. manager[c] \in Accumulator
      BY CreditsTyped
    <3> QED BY <3>1, <3>2, AccumulatorFields
  <2> QED BY <2>1, <2>2
<1>4. ASSUME manager' = manager
      PROVE  /\ Len(manager) <= Len(manager')
             /\ \A c \in Credits :
                   /\ manager[c].consumed => manager'[c].consumed
                   /\ manager'[c].witnesses = manager[c].witnesses
  BY <1>4, CreditsTyped
<1> QED BY <1>1, <1>2, <1>3, <1>4
        DEF Next, vars, StartCompression, Verify, Clear, NextEpoch, Credits

-----------------------------------------------------------------------------
\* Every proof of a credit, late ones included, is over the receipts that its
\* accumulator holds, from the start of its compression to its last delivery.
THEOREM ReceiptsSettled == Spec => []ProofCoversReceipts
<1>1. Init => ProofCoversReceipts
  BY DEF Init, NewManager, NewAccumulator, ProofCoversReceipts, Credits
<1>2. TypeOK /\ TypeOK' /\ ProofCoversReceipts /\ [Next]_vars => ProofCoversReceipts'
  <2> SUFFICES ASSUME TypeOK, TypeOK', ProofCoversReceipts, [Next]_vars
               PROVE  ProofCoversReceipts'
    OBVIOUS
  <2>0. ASSUME NEW c \in Credits, NEW p, Covers(p, manager[c])
        PROVE  Covers(p, manager'[c])
    <3>1. Full(manager[c])
      BY <2>0, NCreditAssumption DEF Covers, Full
    <3>2. manager'[c].witnesses = manager[c].witnesses
      BY <3>1, ManagerGrows
    <3> QED BY <2>0, <3>2 DEF Covers, ProofOf
  <2>1. \A m \in jobs \cup sent : m.credit \in Credits /\ Covers(m.proof, manager'[m.credit])
    BY <2>0, CreditsTyped DEF ProofCoversReceipts
  <2>2. ASSUME NEW w \in Witness, ReceiveReceipt(w) PROVE ProofCoversReceipts'
    <3>1. ASSUME NEW c \in Credits', manager'[c].cached_proof # NoProof
          PROVE  Covers(manager'[c].cached_proof, manager'[c])
      <4>1. CASE c \in Credits
        <5>1. manager'[c] = manager[c] \/ manager'[c] = AddWitness(manager[c], w)
          BY <2>2, <4>1, AccumulatorStep
        <5>2. AddWitness(manager[c], w).cached_proof = manager[c].cached_proof
          BY <4>1, CreditsTyped, AccumulatorFields
        <5>3. manager'[c].cached_proof = manager[c].cached_proof
          BY <5>1, <5>2
        <5> QED BY <2>0, <3>1, <4>1, <5>3 DEF ProofCoversReceipts
      <4>2. CASE c \notin Credits
        <5>1. manager'[c] = AddWitness(NewAccumulator, w)
          BY <2>2, <4>2, CreditsTyped, AccumulatorStep DEF Credits
        <5>2. AddWitness(NewAccumulator, w).cached_proof = NewAccumulator.cached_proof
          BY NewAccumulatorTyped, AccumulatorFields
        <5>3. manager'[c].cached_proof = NoProof
          BY <5>1, <5>2 DEF NewAccumulator
        <5> QED BY <3>1, <5>3
      <4> QED BY <4>1, <4>2
    <3> QED BY <2>1, <2>2, <3>1 DEF ReceiveReceipt, ProofCoversReceipts
  <2>3. ASSUME NEW c \in Credits, NEW v \in Verifier, StartCompression(c, v)
        PROVE  ProofCoversReceipts'
    <3> DEFINE p == ProofOf(manager[c], now, v)
    <3>1. Covers(p, manager[c])
      BY <2>3 DEF StartCompression, IsReadyToCompress, Covers, ProofOf
    <3>2. jobs' = jobs \cup {[credit |-> c, proof |-> p]}
      BY <2>3 DEF StartCompression
    <3>3. sent' = sent /\ manager' = manager
      BY <2>3 DEF StartCompression
    <3> HIDE DEF p
    <3> QED BY <3>1, <3>2, <3>3 DEF ProofCoversReceipts, Credits
  <2>4. ASSUME NEW j \in jobs, FinishCompression(j) PROVE ProofCoversReceipts'
    <3>1. jobs' \subseteq jobs /\ sent' = sent /\ Credits' = Credits
      BY <2>4, AccumulatorStep DEF FinishCompression, Credits
    <3>2. ASSUME NEW c \in Credits, manager'[c].cached_proof # NoProof
          PROVE  Covers(manager'[c].cached_proof, manager'[c])
      <4>1. CASE c = j.credit
        <5>1. manager'[c] = SetCompressedProof(manager[c], j.proof)
          BY <2>4, <4>1, AccumulatorStep
        <5>2. SetCompressedProof(manager[c], j.proof).cached_proof = j.proof
          BY CreditsTyped, AccumulatorFields
        <5> QED BY <2>1, <4>1, <5>1, <5>2
      <4>2. CASE c # j.credit
        <5>1. manager'[c] = manager[c]
          BY <2>4, <4>2, AccumulatorStep
        <5> QED BY <3>2, <5>1 DEF ProofCoversReceipts
      <4> QED BY <4>1, <4>2
    <3> QED BY <2>1, <3>1, <3>2 DEF ProofCoversReceipts
  <2>5. ASSUME NEW d \in Credits, Send(d) PROVE ProofCoversReceipts'
    <3>1. jobs' = jobs /\ Credits' = Credits
      BY <2>5, AccumulatorStep DEF Send, Credits
    <3>2. ASSUME NEW c \in Credits, manager'[c].cached_proof # NoProof
          PROVE  Covers(manager'[c].cached_proof, manager'[c])
      <4>1. CASE c = d
        <5>1. manager'[c] = Consume(manager[c])
          BY <2>5, <4>1, AccumulatorStep
        <5>2. Consume(manager[c]).cached_proof = NoProof
          BY CreditsTyped, AccumulatorFields
        <5> QED BY <3>2, <5>1, <5>2
      <4>2. CASE c # d
        <5>1. manager'[c] = manager[c]
          BY <2>5, <4>2, AccumulatorStep
        <5> QED BY <3>2, <5>1 DEF ProofCoversReceipts
      <4> QED BY <4>1, <4>2
    <3>3. ASSUME NEW m \in sent' PROVE Covers(m.proof, manager'[m.credit])
      <4>1. CASE m \in sent
        BY <2>1, <4>1
      <4>2. CASE m = [credit |-> d, proof |-> manager[d].cached_proof]
        <5>1. Covers(manager[d].cached_proof, manager[d])
          BY <2>5 DEF Send, CanConsume, ProofCoversReceipts
        <5> QED BY <2>0, <4>2, <5>1
      <4> QED BY <2>5, <4>1, <4>2 DEF Send
    <3> QED BY <2>1, <3>1, <3>2, <3>3 DEF ProofCoversReceipts
  <2>6. ASSUME UNCHANGED <<manager, jobs, sent>> PROVE ProofCoversReceipts'
    BY <2>6 DEF ProofCoversReceipts, Credits
  <2> QED BY <2>2, <2>3, <2>4, <2>5, <2>6 DEF Next, vars, Verify, Clear, NextEpoch, Credits
<1> QED BY <1>1, <1>2, CreditTyped, PTL DEF Spec

-----------------------------------------------------------------------------
\* One-time use.

\* A credit leaves in one message, from a consumed accumulator.
SentOnce ==
    /\ \A m \in sent : manager[m.credit].consumed
    /\ \A m, k \in sent : m.credit = k.credit => m = k

\* What was accepted was sent, and its verifier still knows its nullifier or
\* would refuse it for its epoch: a store is never cleared too early.
Remembered ==
    /\ \A c \in CreditIndex : redeemed[c] # 0 => \E m \in sent : m.credit = c
    /\ \A m \in sent : redeemed[m.credit] # 0 =>
          \/ m.proof.nullifier \in used[m.proof.verifier_pk][m.proof.epoch]
          \/ Expired(m.proof.epoch)

SpendInv == SentOnce /\ Remembered /\ NoDoubleSpend

\* The inductive invariant behind one-time use.
THEOREM SpendInvariant == Spec => []SpendInv
<1>1. Init => SpendInv
  BY DEF Init, SpendInv, SentOnce, Remembered, NoDoubleSpend
<1>2. TypeOK /\ SpendInv /\ [Next]_vars => SpendInv'
  <2> SUFFICES ASSUME TypeOK, SpendInv, [Next]_vars PROVE SpendInv'
    OBVIOUS
  <2> USE DEF SpendInv
  <2>0. /\ \A m \in sent : /\ m.credit \in Credits /\ m.credit \in CreditIndex
                           /\ m.proof.verifier_pk \in Verifier /\ m.proof.epoch \in Epoch
        /\ \A c \in Credits : manager[c].consumed => manager'[c].consumed
    BY CreditsTyped, ManagerGrows DEF Attached, CreditProof
  <2>1. ASSUME UNCHANGED <<sent, now, used, redeemed>> PROVE SpendInv'
    BY <2>0, <2>1 DEF SentOnce, Remembered, NoDoubleSpend, Expired
  <2>2. ASSUME NEW d \in Credits, Send(d) PROVE SpendInv'
    <3> DEFINE n == [credit |-> d, proof |-> manager[d].cached_proof]
    <3>1. ~manager[d].consumed /\ \A m \in sent : m.credit # d
      BY <2>2 DEF Send, CanConsume, SentOnce
    <3>2. redeemed[d] = 0
      BY <3>1, CreditsTyped DEF Remembered
    <3>3. manager'[d].consumed
      <4>1. manager'[d] = Consume(manager[d])
        BY <2>2, AccumulatorStep
      <4>2. Consume(manager[d]).consumed
        BY CreditsTyped, AccumulatorFields
      <4> QED BY <4>1, <4>2
    <3>4. sent' = sent \cup {n} /\ UNCHANGED <<now, used, redeemed>>
      BY <2>2 DEF Send
    <3>5. n.credit = d
      OBVIOUS
    <3> HIDE DEF n
    <3>6. SentOnce'
      BY <2>0, <3>1, <3>3, <3>4, <3>5 DEF SentOnce
    <3>7. Remembered'
      BY <3>2, <3>4, <3>5 DEF Remembered, Expired
    <3> QED BY <3>4, <3>6, <3>7 DEF NoDoubleSpend
  <2>3. ASSUME NEW v \in Verifier, NEW m \in sent, Verify(v, m) PROVE SpendInv'
    <3>1. redeemed[m.credit] = 0
      BY <2>3 DEF Verify, Remembered, IsUnused
    <3>2. \A c \in CreditIndex :
             redeemed'[c] = IF c = m.credit THEN 1 ELSE redeemed[c]
      BY <2>0, <2>3, <3>1 DEF Verify, TypeOK
    <3>3. m.proof.nullifier \in used'[m.proof.verifier_pk][m.proof.epoch]
      BY <2>0, <2>3 DEF Verify, CheckAndInsert, TypeOK
    <3>4. \A u \in Verifier, e \in Epoch : used[u][e] \subseteq used'[u][e]
      BY <2>0, <2>3 DEF Verify, CheckAndInsert, TypeOK
    <3>5. UNCHANGED <<manager, sent, now>>
      BY <2>3 DEF Verify
    <3>6. SentOnce'
      BY <3>5 DEF SentOnce
    <3>7. Remembered'
      <4>1. ASSUME NEW k \in sent, redeemed'[k.credit] # 0
            PROVE  \/ k.proof.nullifier \in used'[k.proof.verifier_pk][k.proof.epoch]
                   \/ Expired(k.proof.epoch)
        <5>1. CASE k.credit = m.credit
          BY <3>3, <5>1 DEF SentOnce
        <5>2. CASE k.credit # m.credit
          BY <2>0, <3>2, <3>4, <4>1, <5>2 DEF Remembered
        <5> QED BY <5>1, <5>2
      <4> QED BY <3>2, <3>5, <4>1 DEF Remembered, Expired
    <3>8. NoDoubleSpend'
      BY <3>2 DEF NoDoubleSpend
    <3> QED BY <3>6, <3>7, <3>8
  <2>4. ASSUME NEW v \in Verifier, NEW e \in Epoch, Clear(v, e) PROVE SpendInv'
    <3>1. \A u \in Verifier, f \in Epoch :
             f # e => used'[u][f] = used[u][f]
      BY <2>4 DEF Clear, ClearEpoch, TypeOK
    <3>2. Expired(e) /\ UNCHANGED <<manager, sent, now, redeemed>>
      BY <2>4 DEF Clear
    <3> QED BY <2>0, <3>1, <3>2 DEF SentOnce, Remembered, NoDoubleSpend, Expired
  <2>5. CASE NextEpoch
    <3>1. \A e \in Epoch : Expired(e) => Expired(e)'
      BY <2>5, SpendingAssumption DEF NextEpoch, Expired, TypeOK, Epoch
    <3>2. UNCHANGED <<manager, sent, used, redeemed>>
      BY <2>5 DEF NextEpoch
    <3> QED BY <2>0, <3>1, <3>2 DEF SentOnce, Remembered, NoDoubleSpend
  <2> QED BY <2>1, <2>2, <2>3, <2>4, <2>5
          DEF Next, vars, ReceiveReceipt, StartCompression, FinishCompression, Credits
<1> QED BY <1>1, <1>2, CreditTyped, PTL DEF Spec

\* Each credit is accepted at most once, by all verifiers together.
THEOREM OneTimeUse == Spec => []NoDoubleSpend
<1>1. SpendInv => NoDoubleSpend
  BY DEF SpendInv
<1> QED BY <1>1, SpendInvariant, PTL

\* The credits that count as ready and those that left with a message are
\* different ones of the credits earned.
THEOREM ReadyNotSpent == Spec => []ReadyIsUnspent
<1>1. TypeOK /\ ProofCoversReceipts /\ SpendInv => ReadyIsUnspent
  <2> SUFFICES ASSUME TypeOK, ProofCoversReceipts, SpendInv PROVE ReadyIsUnspent
    OBVIOUS
  <2> DEFINE ready == {c \in Credits : State(manager[c]) = "Ready"}
             earned == {c \in Credits : Full(manager[c])}
             gone == {m.credit : m \in sent}
  <2>1. ready \subseteq earned
    BY NCreditAssumption DEF State, ProofCoversReceipts, Covers, Full
  <2>2. gone \subseteq earned
    BY CreditsTyped, NCreditAssumption DEF ProofCoversReceipts, Covers, Full
  <2>3. ready \cap gone = {}
    BY DEF State, SpendInv, SentOnce
  <2>4. IsFiniteSet(earned)
    <3>1. IsFiniteSet(1 .. Len(manager))
      BY CreditsTyped, FS_Interval
    <3>2. earned \in SUBSET (1 .. Len(manager))
      BY DEF Credits
    <3> HIDE DEF earned
    <3> QED BY <3>1, <3>2, FS_Subset
  <2>5. [m \in sent |-> m.credit] \in Injection(sent, gone)
    BY DEF SpendInv, SentOnce, Injection, IsInjective
  <2>6. ReadyCredits(manager) = Cardinality(ready)
    BY DEF ReadyCredits, Credits
  <2> HIDE DEF ready, earned, gone
  <2>7. IsFiniteSet(ready) /\ IsFiniteSet(gone)
    BY <2>1, <2>2, <2>4, FS_Subset
  <2>8. /\ Cardinality(sent) <= Cardinality(gone)
        /\ Cardinality(sent) \in Nat /\ Cardinality(gone) \in Nat
    BY <2>5, <2>7, FS_Injection, FS_CardinalityType
  <2>9. Cardinality(ready \cup gone) = Cardinality(ready) + Cardinality(gone)
    <3>1. Cardinality(ready \cap gone) = 0
      BY <2>3, FS_EmptySet
    <3>2. Cardinality(ready) \in Nat /\ Cardinality(gone) \in Nat
      BY <2>7, FS_CardinalityType
    <3>3. Cardinality(ready \cup gone)
             = Cardinality(ready) + Cardinality(gone) - Cardinality(ready \cap gone)
      BY <2>7, FS_Union
    <3> QED BY <3>1, <3>2, <3>3
  <2>10. Cardinality(ready \cup gone) <= Cardinality(earned)
    BY <2>1, <2>2, <2>4, FS_Subset
  <2>11. Cardinality(ready) \in Nat /\ Cardinality(earned) \in Nat
    BY <2>4, <2>7, FS_CardinalityType
  <2> QED BY <2>6, <2>8, <2>9, <2>10, <2>11 DEF ReadyIsUnspent, earned
<1> QED BY <1>1, CreditTyped, ReceiptsSettled, SpendInvariant, PTL

-----------------------------------------------------------------------------
\* The receipts of an accumulator are from different issuers.
Distinct(acc) ==
    \A i, j \in 1 .. Len(acc.witnesses) :
        acc.witnesses[i].issuer_pk = acc.witnesses[j].issuer_pk => i = j

LEMMA AddWitnessDistinct ==
    ASSUME NEW acc \in Accumulator, NEW w \in Witness, Distinct(acc), ~HasIssuer(acc, w.issuer_pk)
    PROVE  Distinct(AddWitness(acc, w))
<1> DEFINE ws == acc.witnesses
<1>1. ws \in Seq(Witness)
  BY DEF Accumulator
<1>2. AddWitness(acc, w).witnesses = Append(ws, w)
  BY DEF AddWitness, Accumulator
<1>3. \A i \in 1 .. Len(ws) : ws[i].issuer_pk # w.issuer_pk
  BY DEF HasIssuer
<1>4. \A i, j \in 1 .. Len(ws) : ws[i].issuer_pk = ws[j].issuer_pk => i = j
  BY DEF Distinct
<1> HIDE DEF ws
<1>5. /\ Len(Append(ws, w)) = Len(ws) + 1 /\ Len(ws) \in Nat
      /\ \A i \in 1 .. Len(ws) + 1 :
            Append(ws, w)[i] = IF i = Len(ws) + 1 THEN w ELSE ws[i]
  BY <1>1
<1> QED BY <1>2, <1>3, <1>4, <1>5 DEF Distinct

\* No issuer signs two of the receipts behind a credit.
THEOREM IssuersDistinct == Spec => []DistinctIssuers
<1> DEFINE Inv == \A c \in Credits : Distinct(manager[c])
<1>1. Init => Inv
  BY DEF Init, NewManager, NewAccumulator, Credits, Distinct
<1>2. TypeOK /\ Inv /\ [Next]_vars => Inv'
  <2> SUFFICES ASSUME TypeOK, Inv, [Next]_vars PROVE Inv'
    OBVIOUS
  <2>1. ASSUME NEW w \in Witness, ReceiveReceipt(w) PROVE Inv'
    <3>1. manager \in Seq(Accumulator) /\ Len(manager) # 0
          /\ manager' = AddRelayWitness(manager, w)
      BY <2>1, CreditsTyped DEF TypeOK, ReceiveReceipt
    <3>2. ASSUME NEW c \in Credits PROVE Distinct(manager'[c])
      <4>1. \/ manager'[c] = manager[c]
            \/ Accepts(manager[c], w) /\ manager'[c] = AddWitness(manager[c], w)
        BY <3>1, AddRelayWitnessEffect DEF Credits
      <4> QED BY <4>1, CreditsTyped, AddWitnessDistinct DEF Accepts
    <3>3. ASSUME NEW c \in Credits', c \notin Credits PROVE Distinct(manager'[c])
      <4>1. manager'[c] = AddWitness(NewAccumulator, w)
        BY <2>1, <3>3, CreditsTyped, AccumulatorStep DEF Credits
      <4>2. Distinct(NewAccumulator) /\ ~HasIssuer(NewAccumulator, w.issuer_pk)
        BY DEF NewAccumulator, Distinct, HasIssuer
      <4> QED BY <4>1, <4>2, NewAccumulatorTyped, AddWitnessDistinct
    <3> QED BY <3>2, <3>3
  <2>2. ASSUME NEW j \in jobs, FinishCompression(j) PROVE Inv'
    <3>1. Credits' = Credits
      BY <2>2, AccumulatorStep DEF Credits
    <3>2. ASSUME NEW c \in Credits PROVE manager'[c].witnesses = manager[c].witnesses
      <4>1. manager'[c] \in {manager[c], SetCompressedProof(manager[c], j.proof)}
        BY <2>2, AccumulatorStep
      <4>2. SetCompressedProof(manager[c], j.proof).witnesses = manager[c].witnesses
        BY CreditsTyped, AccumulatorFields
      <4> QED BY <4>1, <4>2
    <3> QED BY <3>1, <3>2 DEF Distinct
  <2>3. ASSUME NEW d \in Credits, Send(d) PROVE Inv'
    <3>1. Credits' = Credits
      BY <2>3, AccumulatorStep DEF Credits
    <3>2. ASSUME NEW c \in Credits PROVE manager'[c].witnesses = manager[c].witnesses
      <4>1. manager'[c] \in {manager[c], Consume(manager[c])}
        BY <2>3, AccumulatorStep
      <4> QED BY <4>1, CreditsTyped, AccumulatorFields
    <3> QED BY <3>1, <3>2 DEF Distinct
  <2>4. ASSUME manager' = manager PROVE Inv'
    BY <2>4 DEF Credits
  <2> QED BY <2>1, <2>2, <2>3, <2>4
          DEF Next, vars, StartCompression, Verify, Clear, NextEpoch, Credits
<1>3. Inv => DistinctIssuers
  BY DEF Distinct, DistinctIssuers
<1> QED BY <1>1, <1>2, <1>3, CreditTyped, PTL DEF Spec

-----------------------------------------------------------------------------
\* The refinement.

\* Where a credit was spent, when no credit is in two messages.
LEMMA SpentAtValue ==
    ASSUME NEW msgs, \A m, k \in msgs : m.credit = k.credit => m = k
    PROVE  /\ \A m \in msgs : SpentAt(msgs, m.credit) = m.proof.verifier_pk
           /\ \A c : (\A m \in msgs : m.credit # c) => SpentAt(msgs, c) = Nowhere
<1>1. ASSUME NEW m \in msgs PROVE SpentAt(msgs, m.credit) = m.proof.verifier_pk
  <2>1. (CHOOSE k \in msgs : k.credit = m.credit) = m
    OBVIOUS
  <2> QED BY <2>1 DEF SpentAt
<1> QED BY <1>1 DEF SpentAt

\* A receipt completes at most one credit, and no credit loses receipts.
LEMMA EarnedStep ==
    ASSUME TypeOK, TypeOK', [Next]_vars
    PROVE  LET earned == {c \in Credits : Full(manager[c])} IN
           \/ earned' = earned
           \/ \E w \in Witness : /\ ReceiveReceipt(w)
                                 /\ \E d \in CreditIndex : earned' = earned \cup {d}
<1> DEFINE earned == {c \in Credits : Full(manager[c])}
<1>0. Credits \subseteq Credits' /\ Credits' \subseteq CreditIndex
  <2>1. Len(manager) \in CreditIndex /\ Len(manager') \in CreditIndex
    BY DEF TypeOK
  <2>2. Len(manager) <= Len(manager')
    BY ManagerGrows
  <2> HIDE DEF earned
  <2> QED BY <2>1, <2>2, SpendingAssumption DEF CreditIndex, Credits
<1>1. earned \subseteq earned'
  BY <1>0, ManagerGrows DEF Full
<1>2. ASSUME NEW w \in Witness, ReceiveReceipt(w)
      PROVE  earned' = earned \/ \E d \in CreditIndex : earned' = earned \cup {d}
  <2>1. CASE Len(manager') = Len(manager)
    <3>1. \A c \in Credits : c # Len(manager) => manager'[c] = manager[c]
      BY <1>2, AccumulatorStep
    <3>2. Credits' = Credits /\ Len(manager) \in CreditIndex
      BY <2>1 DEF Credits, TypeOK
    <3>3. earned' \subseteq earned \cup {Len(manager)}
      BY <3>1, <3>2
    <3> QED BY <1>1, <3>2, <3>3
  <2>2. CASE Len(manager') # Len(manager)
    <3>1. \A c \in Credits : manager'[c] = manager[c]
      BY <1>2, <2>2, AccumulatorStep
    <3>2. Credits' = Credits \cup {Len(manager')} /\ Len(manager') \in CreditIndex
      BY <1>2, <2>2, CreditsTyped, AccumulatorStep DEF Credits, TypeOK
    <3>3. earned' \subseteq earned \cup {Len(manager')}
      BY <3>1, <3>2
    <3> QED BY <1>1, <3>2, <3>3
  <2> QED BY <2>1, <2>2
<1>3. ASSUME NEW j \in jobs, FinishCompression(j) PROVE earned' = earned
  <2>1. Credits' = Credits
    BY <1>3, AccumulatorStep DEF Credits
  <2>2. ASSUME NEW c \in Credits PROVE manager'[c].witnesses = manager[c].witnesses
    <3>1. manager'[c] \in {manager[c], SetCompressedProof(manager[c], j.proof)}
      BY <1>3, AccumulatorStep
    <3>2. SetCompressedProof(manager[c], j.proof).witnesses = manager[c].witnesses
      BY CreditsTyped, AccumulatorFields
    <3> QED BY <3>1, <3>2
  <2> QED BY <2>1, <2>2 DEF Full
<1>4. ASSUME NEW d \in Credits, Send(d) PROVE earned' = earned
  <2>1. Credits' = Credits
    BY <1>4, AccumulatorStep DEF Credits
  <2>2. ASSUME NEW c \in Credits PROVE manager'[c].witnesses = manager[c].witnesses
    <3>1. manager'[c] \in {manager[c], Consume(manager[c])}
      BY <1>4, AccumulatorStep
    <3> QED BY <3>1, CreditsTyped, AccumulatorFields
  <2> QED BY <2>1, <2>2 DEF Full
<1>5. ASSUME manager' = manager PROVE earned' = earned
  BY <1>5 DEF Credits
<1> QED BY <1>2, <1>3, <1>4, <1>5
        DEF Next, vars, StartCompression, Verify, Clear, NextEpoch, Credits

\* The spending of credits implements OneTimeCredit.
THEOREM CreditRefinement == Spec => ImplementsOneTimeCredit
<1> DEFINE earned == {c \in Credits : Full(manager[c])}
           spentAt == [c \in CreditIndex |-> SpentAt(sent, c)]
<1>1. Init => Abstract!Init
  <2> SUFFICES ASSUME Init PROVE Abstract!Init
    OBVIOUS
  <2>1. earned = {}
    BY NCreditAssumption DEF Init, NewManager, NewAccumulator, Credits, Full
  <2>2. spentAt = [c \in CreditIndex |-> Nowhere]
    BY DEF Init, SpentAt
  <2> QED BY <2>1, <2>2 DEF Init, Abstract!Init
<1>2. TypeOK /\ TypeOK' /\ ProofCoversReceipts /\ SpendInv /\ SpendInv' /\ [Next]_vars
        => [Abstract!Next]_(Abstract!creditVars)
  <2> SUFFICES ASSUME TypeOK, TypeOK', ProofCoversReceipts, SpendInv, SpendInv', [Next]_vars
               PROVE  Abstract!Next \/ UNCHANGED <<earned, spentAt, redeemed>>
    BY DEF Abstract!creditVars
  <2>1. ASSUME NEW w \in Witness, ReceiveReceipt(w)
        PROVE  Abstract!Next \/ UNCHANGED <<earned, spentAt, redeemed>>
    <3>1. UNCHANGED <<spentAt, redeemed>>
      BY <2>1 DEF ReceiveReceipt
    <3>2. earned' = earned \/ \E d \in CreditIndex : earned' = earned \cup {d}
      BY EarnedStep
    <3> QED BY <3>1, <3>2 DEF Abstract!Next, Abstract!Earn
  <2>2. ASSUME NEW d \in Credits, Send(d) PROVE Abstract!Next
    <3> DEFINE p == manager[d].cached_proof
               n == [credit |-> d, proof |-> p]
    <3>1. d \in CreditIndex /\ p.verifier_pk \in Verifier /\ d \in earned
      <4>1. p \in CreditProof
        BY <2>2, CreditsTyped DEF Send, CanConsume, Accumulator
      <4>2. Covers(p, manager[d])
        BY <2>2 DEF Send, CanConsume, ProofCoversReceipts
      <4>3. Full(manager[d])
        BY <4>2, NCreditAssumption DEF Covers, Full
      <4> QED BY <4>1, <4>3, CreditsTyped DEF CreditProof
    <3>2. earned' = earned /\ redeemed' = redeemed
      <4>1. manager'[d].consumed /\ ~manager[d].consumed
        <5>1. manager'[d] = Consume(manager[d])
          BY <2>2, AccumulatorStep
        <5>2. Consume(manager[d]).consumed
          BY CreditsTyped, AccumulatorFields
        <5> QED BY <2>2, <5>1, <5>2 DEF Send, CanConsume
      <4>2. ASSUME NEW w \in Witness, ReceiveReceipt(w) PROVE FALSE
        <5>1. manager'[d] = manager[d] \/ manager'[d] = AddWitness(manager[d], w)
          BY <4>2, AccumulatorStep
        <5>2. AddWitness(manager[d], w).consumed = manager[d].consumed
          BY CreditsTyped, AccumulatorFields
        <5> QED BY <4>1, <5>1, <5>2
      <4> QED BY <2>2, <4>2, EarnedStep DEF Send
    <3>3. \A m \in sent : m.credit # d
      BY <2>2 DEF Send, CanConsume, SpendInv, SentOnce
    <3>4. sent' = sent \cup {n} /\ n.credit = d /\ n.proof = p
      BY <2>2 DEF Send
    <3> HIDE DEF n, p
    <3>5. spentAt[d] = Nowhere
      BY <3>1, <3>3, SpentAtValue DEF SpendInv, SentOnce
    <3>6. ASSUME NEW c \in CreditIndex
          PROVE  SpentAt(sent', c) = IF c = d THEN p.verifier_pk ELSE SpentAt(sent, c)
      <4>1. \A m, k \in sent' : m.credit = k.credit => m = k
        BY DEF SpendInv, SentOnce
      <4>2. CASE c = d
        BY <3>4, <4>1, <4>2, SpentAtValue
      <4>3. CASE c # d /\ \E m \in sent : m.credit = c
        BY <3>4, <4>1, <4>3, SpentAtValue DEF SpendInv, SentOnce
      <4>4. CASE c # d /\ \A m \in sent : m.credit # c
        BY <3>4, <4>1, <4>4, SpentAtValue DEF SpendInv, SentOnce
      <4> QED BY <4>2, <4>3, <4>4
    <3>7. spentAt' = [spentAt EXCEPT ![d] = p.verifier_pk]
      BY <3>1, <3>6
    <3> QED BY <3>1, <3>2, <3>5, <3>7 DEF Abstract!Next, Abstract!Spend
  <2>3. ASSUME NEW v \in Verifier, NEW m \in sent, Verify(v, m) PROVE Abstract!Next
    <3>1. m.credit \in CreditIndex
      BY CreditsTyped DEF Attached
    <3>2. spentAt[m.credit] = v
      BY <2>3, <3>1, SpentAtValue DEF Verify, SpendInv, SentOnce
    <3>3. redeemed[m.credit] = 0
      BY <2>3 DEF Verify, IsUnused, SpendInv, Remembered
    <3>4. redeemed' = [redeemed EXCEPT ![m.credit] = 1]
      BY <2>3, <3>3 DEF Verify
    <3>5. UNCHANGED <<earned, spentAt>>
      BY <2>3 DEF Verify, Credits
    <3> QED BY <3>1, <3>2, <3>3, <3>4, <3>5 DEF Abstract!Next, Abstract!Redeem
  <2>4. ASSUME UNCHANGED <<manager, sent, redeemed>>
        PROVE  UNCHANGED <<earned, spentAt, redeemed>>
    BY <2>4 DEF Credits
  <2>5. ASSUME NEW j \in jobs, FinishCompression(j)
        PROVE  Abstract!Next \/ UNCHANGED <<earned, spentAt, redeemed>>
    <3>1. UNCHANGED <<spentAt, redeemed>>
      BY <2>5 DEF FinishCompression
    <3>2. earned' = earned \/ \E d \in CreditIndex : earned' = earned \cup {d}
      BY EarnedStep
    <3> QED BY <3>1, <3>2 DEF Abstract!Next, Abstract!Earn
  <2> QED BY <2>1, <2>2, <2>3, <2>4, <2>5
          DEF Next, vars, StartCompression, Clear, NextEpoch, Credits
<1> QED BY <1>1, <1>2, CreditTyped, ReceiptsSettled, SpendInvariant, PTL
        DEF Spec, ImplementsOneTimeCredit, Abstract!Spec
=============================================================================
