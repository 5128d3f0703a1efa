------------------------- MODULE ShareDeliveryProofs -------------------------
(***************************************************************************)
(* Proofs about the cover traffic scheduler and the delivery of a message, *)
(* for any field, any numbers of shares and any loss: for any timers the   *)
(* types, and what few and enough shares give; for a sender with one       *)
(* timer, who acknowledges before it samples again, that no share is       *)
(* dropped or emitted twice.                                               *)
(*                                                                         *)
(* What reconstruct computes is in ShamirProofs.                           *)
(***************************************************************************)
EXTENDS ShareDelivery, ShamirProofs, SequenceTheorems, TLAPS

-----------------------------------------------------------------------------
\* The scheduler.

\* Vec::remove: the elements behind the index move up by one.
LEMMA RemoveAtEffect ==
    ASSUME NEW S, NEW seq \in Seq(S), NEW idx \in 1 .. Len(seq)
    PROVE  /\ RemoveAt(seq, idx) \in Seq(S)
           /\ Len(RemoveAt(seq, idx)) = Len(seq) - 1
           /\ \A j \in 1 .. Len(seq) - 1 :
                 RemoveAt(seq, idx)[j] = IF j < idx THEN seq[j] ELSE seq[j + 1]
<1> DEFINE n == Len(seq)
           front == SubSeq(seq, 1, idx - 1)
           back == SubSeq(seq, idx + 1, n)
<1>0. n \in Nat /\ idx \in Nat /\ 1 <= idx /\ idx <= n
  OBVIOUS
<1>1. /\ front \in Seq(S) /\ Len(front) = idx - 1
      /\ \A i \in 1 .. idx - 1 : front[i] = seq[i]
  <2>1. CASE idx = 1
    <3>1. front = << >>
      BY <2>1
    <3> QED BY <2>1, <3>1
  <2>2. CASE idx # 1
    BY <1>0, <2>2, SubSeqProperties
  <2> QED BY <2>1, <2>2
<1>2. /\ back \in Seq(S) /\ Len(back) = n - idx
      /\ \A i \in 1 .. n - idx : back[i] = seq[idx + i]
  <2>1. CASE idx = n
    <3>1. back = << >>
      BY <1>0, <2>1
    <3> QED BY <1>0, <2>1, <3>1
  <2>2. CASE idx # n
    BY <1>0, <2>2, SubSeqProperties
  <2> QED BY <2>1, <2>2
<1>3. RemoveAt(seq, idx) = front \o back
  BY DEF RemoveAt
<1> HIDE DEF front, back
<1>4. /\ front \o back \in Seq(S)
      /\ Len(front \o back) = Len(front) + Len(back)
      /\ \A j \in 1 .. Len(front) + Len(back) :
            (front \o back)[j] = IF j <= Len(front) THEN front[j] ELSE back[j - Len(front)]
  BY <1>1, <1>2, ConcatProperties
<1>5. Len(front) + Len(back) = n - 1
  BY <1>0, <1>1, <1>2
<1>6. ASSUME NEW j \in 1 .. n - 1
      PROVE  (front \o back)[j] = IF j < idx THEN seq[j] ELSE seq[j + 1]
  <2>1. CASE j < idx
    BY <1>0, <1>1, <1>4, <1>5, <2>1
  <2>2. CASE ~(j < idx)
    <3>1. j - (idx - 1) \in 1 .. n - idx /\ idx + (j - (idx - 1)) = j + 1
      BY <1>0, <2>2
    <3>2. back[j - (idx - 1)] = seq[j + 1]
      BY <1>2, <3>1
    <3> QED BY <1>0, <1>1, <1>4, <1>5, <2>2, <3>2
  <2> QED BY <2>1, <2>2
<1> QED BY <1>3, <1>4, <1>5, <1>6

\* An index that was no longer in range, or never was, leaves a Vec of shares.
LEMMA AcknowledgedTyped ==
    ASSUME NEW S, NEW seq \in Seq(S), NEW idx \in Nat
    PROVE  Acknowledged(seq, idx) \in Seq(S)
<1>1. CASE idx \in 1 .. Len(seq)
  BY <1>1, RemoveAtEffect DEF Acknowledged
<1>2. CASE idx = 0
  <2>1. SubSeq(seq, 1, idx - 1) = << >> /\ SubSeq(seq, idx + 1, Len(seq)) = seq
    BY <1>2, SubSeqFull
  <2>2. RemoveAt(seq, idx) = << >> \o seq
    BY <2>1 DEF RemoveAt
  <2> QED BY <1>2, <2>2, ConcatProperties DEF Acknowledged
<1>3. CASE idx > Len(seq)
  BY <1>3 DEF Acknowledged
<1> QED BY <1>1, <1>2, <1>3

\* What a timer is at after it has emitted its share.
LEMMA EmittedSlot ==
    ASSUME NEW slot \in Slot
    PROVE  [slot EXCEPT !.phase = "emitted"]
             = [phase |-> "emitted", idx |-> slot.idx, share |-> slot.share]
  BY DEF Slot

-----------------------------------------------------------------------------
\* A step of the scheduler keeps the types.
LEMMA CoverStepTyped == CoverTypeOK /\ [CoverNext]_coverVars => CoverTypeOK'
<1> SUFFICES ASSUME CoverTypeOK, [CoverNext]_coverVars PROVE CoverTypeOK'
  OBVIOUS
<1>0. Len(pending_real_shares) \in Nat
  BY DEF CoverTypeOK
<1>1. ASSUME NEW s \in Share, QueueRealShare(s) PROVE CoverTypeOK'
  BY <1>1 DEF QueueRealShare, CoverTypeOK
<1>2. ASSUME NEW t \in Timer, NextEmission(t) PROVE CoverTypeOK'
  <2> DEFINE idx == Len(pending_real_shares)
             share == IF idx = 0 THEN NoShare ELSE pending_real_shares[idx]
  <2>1. share \in Share \cup {NoShare}
    BY <1>0 DEF CoverTypeOK
  <2> HIDE DEF share
  <2>2. timer' = [timer EXCEPT ![t] = [phase |-> "waiting", idx |-> idx, share |-> share]]
    BY <1>2 DEF NextEmission, share
  <2> QED BY <1>0, <1>2, <2>1, <2>2 DEF NextEmission, Slot, CoverTypeOK
<1>3. ASSUME NEW t \in Timer, EmitCover(t) PROVE CoverTypeOK'
  BY <1>3 DEF EmitCover, Idle, Slot, CoverTypeOK
<1>4. ASSUME NEW t \in Timer, EmitShare(t) PROVE CoverTypeOK'
  <2>1. timer[t] \in Slot /\ timer[t].share \in Share
    BY <1>4 DEF EmitShare, CoverTypeOK, Slot
  <2>2. emitted' \in [Share -> Nat]
    BY <1>4, <2>1 DEF EmitShare, CoverTypeOK
  <2>3. [timer[t] EXCEPT !.phase = "emitted"] \in Slot
    BY <2>1, EmittedSlot DEF Slot
  <2>4. timer' = [timer EXCEPT ![t] = [timer[t] EXCEPT !.phase = "emitted"]]
    BY <1>4, Zenon DEF EmitShare
  <2> DEFINE after == [timer[t] EXCEPT !.phase = "emitted"]
  <2> HIDE DEF after
  <2>5. timer' \in [Timer -> Slot]
    BY <2>3, <2>4 DEF CoverTypeOK, after
  <2> QED BY <1>4, <2>2, <2>5 DEF EmitShare, CoverTypeOK
<1>5. ASSUME NEW t \in Timer, AcknowledgeEmission(t) PROVE CoverTypeOK'
  <2>1. timer[t].idx \in Nat
    BY DEF CoverTypeOK, Slot
  <2>2. pending_real_shares' \in Seq(Share)
    BY <1>5, <2>1, AcknowledgedTyped DEF AcknowledgeEmission, CoverTypeOK
  <2>3. Idle \in Slot
    BY DEF Idle, Slot
  <2> QED BY <1>5, <2>2, <2>3 DEF AcknowledgeEmission, CoverTypeOK
<1>6. CASE UNCHANGED coverVars
  BY <1>6 DEF coverVars, CoverTypeOK
<1> QED BY <1>1, <1>2, <1>3, <1>4, <1>5, <1>6 DEF CoverNext

\* The types hold for any number of timers.
THEOREM CoverTyped == CoverSpec => []CoverTypeOK
<1>1. CoverInit => CoverTypeOK
  BY DEF CoverInit, CoverTypeOK, Idle, Slot
<1> QED BY <1>1, CoverStepTyped, PTL DEF CoverSpec

-----------------------------------------------------------------------------
Pending(s) == \E i \in 1 .. Len(pending_real_shares) : pending_real_shares[i] = s

Unacknowledged(s) == \E t \in Timer : timer[t].phase = "emitted" /\ timer[t].share = s

\* The index a timer holds still names its share, and a share that was queued
\* is in one of three places: pending and not emitted, emitted and not yet
\* acknowledged (still pending), or emitted and gone.
InStep ==
    /\ \A i, j \in 1 .. Len(pending_real_shares) :
          pending_real_shares[i] = pending_real_shares[j] => i = j
    /\ \A s \in Share : Pending(s) => s \in queued
    /\ \A t \in Timer :
          /\ timer[t].share # NoShare =>
                /\ timer[t].idx \in 1 .. Len(pending_real_shares)
                /\ pending_real_shares[timer[t].idx] = timer[t].share
          /\ timer[t].phase = "idle" => timer[t].share = NoShare
          /\ timer[t].phase = "emitted" => timer[t].share # NoShare
    /\ \A s \in Share :
          emitted[s] = IF s \notin queued \/ (Pending(s) /\ ~Unacknowledged(s)) THEN 0 ELSE 1

OneTimerInv == CoverTypeOK /\ InStep

\* A step of a caller with one timer keeps the invariant.
LEMMA OneTimerStep ==
    ASSUME NEW t1, Timer = {t1}, OneTimerInv, [CoverNext]_coverVars
    PROVE  OneTimerInv'
<1> USE DEF OneTimerInv
<1> DEFINE n == Len(pending_real_shares)
<1>0. CoverTypeOK' /\ n \in Nat /\ timer[t1] \in Slot
      /\ \A i \in 1 .. n : pending_real_shares[i] \in Share
  BY CoverStepTyped DEF CoverTypeOK
<1>1. ASSUME NEW s \in Share, QueueRealShare(s) PROVE InStep'
  <2>1. /\ Len(pending_real_shares') = n + 1
        /\ \A i \in 1 .. n : pending_real_shares'[i] = pending_real_shares[i]
        /\ pending_real_shares'[n + 1] = s
    BY <1>0, <1>1 DEF QueueRealShare, CoverTypeOK
  <2>2. \A r \in Share : Pending(r)' <=> Pending(r) \/ r = s
    BY <1>0, <2>1 DEF Pending
  <2>3. /\ \A r : Unacknowledged(r)' <=> Unacknowledged(r)
        /\ queued' = queued \cup {s} /\ emitted' = emitted /\ timer' = timer
        /\ s \notin queued
    BY <1>1 DEF QueueRealShare, Unacknowledged
  <2>4. ~Pending(s) /\ emitted[s] = 0 /\ ~Unacknowledged(s)
    BY <1>0, <2>3 DEF InStep, Unacknowledged, Pending
  <2>5. \A i, j \in 1 .. n + 1 :
           pending_real_shares'[i] = pending_real_shares'[j] => i = j
    <3> SUFFICES ASSUME NEW i \in 1 .. n + 1, NEW j \in 1 .. n + 1,
                        pending_real_shares'[i] = pending_real_shares'[j]
                 PROVE  i = j
      OBVIOUS
    <3>1. CASE i \in 1 .. n /\ j \in 1 .. n
      BY <2>1, <3>1 DEF InStep
    <3>2. CASE i = n + 1 \/ j = n + 1
      BY <1>0, <2>1, <2>4, <3>2 DEF Pending
    <3> QED BY <1>0, <3>1, <3>2
  <2>6. \A t \in Timer : timer'[t].share # NoShare =>
           /\ timer'[t].idx \in 1 .. n + 1
           /\ pending_real_shares'[timer'[t].idx] = timer'[t].share
    BY <1>0, <2>1, <2>3 DEF InStep
  <2>7. \A r \in Share :
           emitted'[r] = IF r \notin queued' \/ (Pending(r)' /\ ~Unacknowledged(r)')
                         THEN 0 ELSE 1
    BY <2>2, <2>3, <2>4 DEF InStep
  <2> QED BY <2>1, <2>2, <2>3, <2>5, <2>6, <2>7 DEF InStep
<1>2. ASSUME NextEmission(t1) PROVE InStep'
  <2> DEFINE share == IF n = 0 THEN NoShare ELSE pending_real_shares[n]
  <2>1. timer' = [timer EXCEPT ![t1] = [phase |-> "waiting", idx |-> n, share |-> share]]
    BY <1>2 DEF NextEmission
  <2>2. timer'[t1] = [phase |-> "waiting", idx |-> n, share |-> share]
    BY <2>1 DEF CoverTypeOK
  <2>3. share # NoShare => n \in 1 .. n /\ pending_real_shares[n] = share
    BY <1>0
  <2>4. /\ pending_real_shares' = pending_real_shares
        /\ queued' = queued /\ emitted' = emitted /\ timer[t1].phase = "idle"
    BY <1>2 DEF NextEmission
  <2> HIDE DEF share
  <2>5. \A r : ~Unacknowledged(r) /\ ~Unacknowledged(r)'
    BY <2>2, <2>4 DEF Unacknowledged
  <2>6. \A r : Pending(r)' <=> Pending(r)
    BY <2>4 DEF Pending
  <2> QED BY <2>2, <2>3, <2>4, <2>5, <2>6 DEF InStep
<1>3. ASSUME EmitCover(t1) PROVE InStep'
  <2>1. /\ timer'[t1] = Idle /\ timer[t1].phase = "waiting"
        /\ pending_real_shares' = pending_real_shares
        /\ queued' = queued /\ emitted' = emitted
    BY <1>3 DEF EmitCover, CoverTypeOK
  <2>2. \A r : ~Unacknowledged(r) /\ ~Unacknowledged(r)'
    BY <2>1 DEF Unacknowledged, Idle
  <2>3. \A r : Pending(r)' <=> Pending(r)
    BY <2>1 DEF Pending
  <2> QED BY <2>1, <2>2, <2>3 DEF InStep, Idle
<1>4. ASSUME EmitShare(t1) PROVE InStep'
  <2> DEFINE s == timer[t1].share
  <2>1. s \in Share /\ timer[t1].phase = "waiting"
    BY <1>0, <1>4 DEF EmitShare, Slot
  <2>2. timer'[t1] = [timer[t1] EXCEPT !.phase = "emitted"]
    BY <1>4, Zenon DEF EmitShare, CoverTypeOK
  <2>3. timer'[t1] = [phase |-> "emitted", idx |-> timer[t1].idx, share |-> s]
    BY <1>0, <2>2, EmittedSlot
  <2>4. /\ pending_real_shares' = pending_real_shares /\ queued' = queued
        /\ emitted' = [emitted EXCEPT ![s] = @ + 1]
    BY <1>4 DEF EmitShare
  <2>5. \A r : ~Unacknowledged(r) /\ (Unacknowledged(r)' <=> r = s)
    BY <2>1, <2>3 DEF Unacknowledged
  <2>6. \A r : Pending(r)' <=> Pending(r)
    BY <2>4 DEF Pending
  <2>7. Pending(s) /\ s \in queued /\ emitted[s] = 0
    BY <1>4, <2>1, <2>5 DEF InStep, Pending, EmitShare
  <2>8. \A r \in Share : emitted'[r] = IF r = s THEN 1 ELSE emitted[r]
    BY <2>1, <2>4, <2>7 DEF CoverTypeOK
  <2> HIDE DEF s
  <2>9. \A t \in Timer : /\ timer'[t].idx \in 1 .. Len(pending_real_shares')
                         /\ pending_real_shares'[timer'[t].idx] = timer'[t].share
                         /\ timer'[t].phase = "emitted" /\ timer'[t].share # NoShare
    BY <1>4, <2>3, <2>4 DEF InStep, EmitShare, s
  <2>10. \A r \in Share :
            emitted'[r] = IF r \notin queued' \/ (Pending(r)' /\ ~Unacknowledged(r)')
                          THEN 0 ELSE 1
    BY <2>4, <2>5, <2>6, <2>7, <2>8 DEF InStep
  <2> QED BY <2>4, <2>6, <2>9, <2>10 DEF InStep
<1>5. ASSUME AcknowledgeEmission(t1) PROVE InStep'
  <2> DEFINE s == timer[t1].share
             idx == timer[t1].idx
  <2>1. /\ s \in Share /\ idx \in 1 .. n /\ pending_real_shares[idx] = s
        /\ timer[t1].phase = "emitted"
    BY <1>0, <1>5 DEF AcknowledgeEmission, Slot, InStep
  <2>2. /\ pending_real_shares' = RemoveAt(pending_real_shares, idx)
        /\ queued' = queued /\ emitted' = emitted /\ timer'[t1] = Idle
    BY <1>0, <1>5, <2>1 DEF AcknowledgeEmission, Acknowledged, CoverTypeOK
  <2> HIDE DEF s, idx
  <2>3. /\ Len(pending_real_shares') = n - 1
        /\ \A j \in 1 .. n - 1 :
              pending_real_shares'[j] = IF j < idx THEN pending_real_shares[j]
                                                   ELSE pending_real_shares[j + 1]
    BY <2>1, <2>2, RemoveAtEffect DEF CoverTypeOK
  <2>4. \A r \in Share : Pending(r)' <=> Pending(r) /\ r # s
    <3> SUFFICES ASSUME NEW r \in Share PROVE Pending(r)' <=> Pending(r) /\ r # s
      OBVIOUS
    <3>1. ASSUME Pending(r)' PROVE Pending(r) /\ r # s
      <4>1. PICK j \in 1 .. n - 1 : pending_real_shares'[j] = r
        BY <2>3, <3>1 DEF Pending
      <4>2. CASE j < idx
        <5>1. j \in 1 .. n /\ j # idx
          BY <1>0, <2>1, <4>2
        <5> QED BY <2>1, <2>3, <4>1, <4>2, <5>1 DEF Pending, InStep
      <4>3. CASE ~(j < idx)
        <5>1. j + 1 \in 1 .. n /\ j + 1 # idx
          BY <1>0, <2>1, <4>3
        <5> QED BY <2>1, <2>3, <4>1, <4>3, <5>1 DEF Pending, InStep
      <4> QED BY <4>2, <4>3
    <3>2. ASSUME Pending(r), r # s PROVE Pending(r)'
      <4>1. PICK i \in 1 .. n : pending_real_shares[i] = r
        BY <3>2 DEF Pending
      <4>2. i # idx
        BY <2>1, <3>2, <4>1
      <4>3. CASE i < idx
        <5>1. i \in 1 .. n - 1 /\ pending_real_shares'[i] = r
          BY <1>0, <2>1, <2>3, <4>1, <4>3
        <5> QED BY <2>3, <5>1 DEF Pending
      <4>4. CASE i > idx
        <5>1. i - 1 \in 1 .. n - 1 /\ ~(i - 1 < idx) /\ (i - 1) + 1 = i
          BY <1>0, <2>1, <4>4
        <5>2. pending_real_shares'[i - 1] = r
          BY <2>3, <4>1, <5>1
        <5> QED BY <2>3, <5>1, <5>2 DEF Pending
      <4> QED BY <1>0, <2>1, <4>2, <4>3, <4>4
    <3> QED BY <3>1, <3>2
  <2>5. \A i, j \in 1 .. n - 1 :
           pending_real_shares'[i] = pending_real_shares'[j] => i = j
    <3> SUFFICES ASSUME NEW i \in 1 .. n - 1, NEW j \in 1 .. n - 1,
                        pending_real_shares'[i] = pending_real_shares'[j]
                 PROVE  i = j
      OBVIOUS
    <3> DEFINE from(k) == IF k < idx THEN k ELSE k + 1
    <3>1. from(i) \in 1 .. n /\ from(j) \in 1 .. n
      BY <1>0
    <3>2. pending_real_shares[from(i)] = pending_real_shares[from(j)]
      BY <2>3
    <3>3. from(i) = from(j)
      BY <3>1, <3>2 DEF InStep
    <3> QED BY <1>0, <2>1, <3>3
  <2>6. \A r \in Share : (Unacknowledged(r) <=> r = s) /\ ~Unacknowledged(r)'
    BY <2>1, <2>2 DEF Unacknowledged, Idle, s
  <2>7. Pending(s) /\ s \in queued /\ emitted[s] = 1
    BY <2>1, <2>6 DEF Pending, InStep
  <2>8. \A r \in Share :
           emitted'[r] = IF r \notin queued' \/ (Pending(r)' /\ ~Unacknowledged(r)')
                         THEN 0 ELSE 1
    BY <2>2, <2>4, <2>6, <2>7 DEF InStep
  <2>9. \A t \in Timer : timer'[t].share = NoShare /\ timer'[t].phase = "idle"
    BY <2>2 DEF Idle
  <2> QED BY <2>2, <2>3, <2>4, <2>5, <2>8, <2>9 DEF InStep
<1>6. ASSUME UNCHANGED coverVars PROVE InStep'
  <2>1. /\ pending_real_shares' = pending_real_shares /\ timer' = timer
        /\ queued' = queued /\ emitted' = emitted
    BY <1>6 DEF coverVars
  <2>2. \A r : (Pending(r)' <=> Pending(r)) /\ (Unacknowledged(r)' <=> Unacknowledged(r))
    BY <2>1 DEF Pending, Unacknowledged
  <2> QED BY <2>1, <2>2 DEF InStep
<1> QED BY <1>0, <1>1, <1>2, <1>3, <1>4, <1>5, <1>6 DEF CoverNext

\* The initial state is in step.
LEMMA OneTimerInit == CoverInit => OneTimerInv
  BY DEF CoverInit, OneTimerInv, CoverTypeOK, InStep, Pending, Unacknowledged, Idle, Slot

\* A caller with one timer drops no share and emits none twice.
LEMMA InStepSuffices == OneTimerInv => NoShareDropped /\ EmittedOnce
  BY DEF OneTimerInv, CoverTypeOK, InStep, Pending, NoShareDropped, EmittedOnce

\* With one timer the scheduler stays in step, whatever is queued meanwhile.
THEOREM StaysInStep ==
    ASSUME NEW t1, Timer = {t1}
    PROVE  CoverSpec => []OneTimerInv
<1>1. OneTimerInv /\ [CoverNext]_coverVars => OneTimerInv'
  BY OneTimerStep
<1> QED BY <1>1, OneTimerInit, PTL DEF CoverSpec

\* With one timer an acknowledgement removes the share that was emitted and no
\* other: no share leaves the Vec before it was emitted.
THEOREM SharesNotDropped ==
    ASSUME NEW t1, Timer = {t1}
    PROVE  CoverSpec => []NoShareDropped
BY StaysInStep, InStepSuffices, PTL

\* With one timer no share is offered to a second emission.
THEOREM SharesEmittedOnce ==
    ASSUME NEW t1, Timer = {t1}
    PROVE  CoverSpec => []EmittedOnce
BY StaysInStep, InStepSuffices, PTL

-----------------------------------------------------------------------------
\* The delivery.

\* Every step of a delivery is a step of the scheduler, or leaves it alone.
LEMMA DeliveryStepIsCoverStep == [Next]_vars => [CoverNext]_coverVars
<1> SUFFICES ASSUME [Next]_vars PROVE [CoverNext]_coverVars
  OBVIOUS
<1>1. ASSUME NEW s \in Share, Queue(s) PROVE CoverNext
  BY <1>1 DEF Queue, CoverNext
<1>2. ASSUME NEW t \in Timer, TimerStep(t) PROVE CoverNext
  BY <1>2 DEF TimerStep, CoverNext
<1>3. ASSUME NEW s, Arrive(s) \/ Lose(s) \/ Repeat(s) PROVE UNCHANGED coverVars
  BY <1>3 DEF Arrive, Lose, Repeat
<1>4. CASE UNCHANGED vars
  BY <1>4 DEF vars, coverVars
<1> QED BY <1>1, <1>2, <1>3, <1>4 DEF Next

\* What a message's sender does is a behaviour of the scheduler.
THEOREM DeliveryImplementsCover == Spec => CoverSpec
<1>1. Init => CoverInit
  BY DEF Init
<1> QED BY <1>1, DeliveryStepIsCoverStep, PTL DEF Spec, CoverSpec

\* The index of a received share is that of a share.
LEMMA ReceivedIndex ==
    ASSUME NEW seq \in Seq({ShareOf(polys, s) : s \in Share}), NEW i \in 1 .. Len(seq)
    PROVE  seq[i].index \in Share
<1>1. seq[i] \in {ShareOf(polys, s) : s \in Share}
  OBVIOUS
<1> QED BY <1>1 DEF ShareOf

\* The types hold for any number of timers: a share's index and its values are
\* those that split gave it for as long as it is under way.
THEOREM DeliveryTyped == Spec => []TypeOK
<1> DEFINE Types == /\ message \in Message /\ polys \in Splits(message)
                    /\ network \subseteq Share
                    /\ received \in Seq({ShareOf(polys, s) : s \in Share})
<1>1. Init => Types
  BY DEF Init
<1>2. Types /\ [Next]_vars => Types'
  <2> SUFFICES ASSUME Types, [Next]_vars PROVE Types'
    OBVIOUS
  <2>1. message' = message /\ polys' = polys
    BY DEF Next, Queue, TimerStep, Arrive, Repeat, Lose, vars
  <2>2. {ShareOf(polys, s) : s \in Share}' = {ShareOf(polys, s) : s \in Share}
    BY <2>1 DEF ShareOf
  <2>3. network' \subseteq Share
    BY DEF Next, Queue, TimerStep, Arrive, Repeat, Lose, vars
  <2>4. received' \in Seq({ShareOf(polys, s) : s \in Share})
    <3>1. CASE received' = received
      BY <3>1
    <3>2. \A s \in Got : s \in Share
      BY ReceivedIndex DEF Got
    <3>3. ASSUME NEW s \in Share, Arrive(s) \/ Repeat(s)
          PROVE  received' \in Seq({ShareOf(polys, r) : r \in Share})
      <4>1. ShareOf(polys, s) \in {ShareOf(polys, r) : r \in Share}
        OBVIOUS
      <4>2. received' = Append(received, ShareOf(polys, s))
        BY <3>3 DEF Arrive, Repeat
      <4> HIDE DEF ShareOf
      <4> QED BY <4>1, <4>2
    <3> QED BY <3>1, <3>2, <3>3 DEF Next, Queue, TimerStep, Lose, vars
  <2> QED BY <2>1, <2>2, <2>3, <2>4
<1>3. CoverTypeOK /\ Types => TypeOK
  BY DEF TypeOK
<1> HIDE DEF Types
<1> QED BY <1>1, <1>2, <1>3, DeliveryImplementsCover, CoverTyped, PTL DEF Spec

-----------------------------------------------------------------------------
\* The message and its shares.

\* What split drew is a polynomial of T coefficients for each element of the
\* message, with the element as constant term.
LEMMA PolynomialsOf ==
    ASSUME TypeOK
    PROVE  /\ message \in Seq(0 .. Base - 1)
           /\ DOMAIN polys = 1 .. Chunks(message)
           /\ \A c \in DOMAIN polys : /\ polys[c] \in [1 .. T -> Field]
                                      /\ polys[c][1] \in Field
                                      /\ polys[c][1] = BytesToFieldElements(message)[c]
           /\ BytesToFieldElements(message) =
                 [c \in DOMAIN polys |-> BytesToFieldElements(message)[c]]
<1> DEFINE es == BytesToFieldElements(message)
           Drawn == UNION {Polynomials(e) : e \in Field}
<1>1. message \in Seq(0 .. Base - 1)
  BY DeliveryAssumption DEF TypeOK
<1>2. es = [c \in 1 .. Chunks(message) |-> FromLeBytes(Padded(message, c))]
  BY DEF BytesToFieldElements
<1>3. Chunks(message) \in Nat
  BY <1>1, ChunksHold
<1>4. Len(es) = Chunks(message) /\ DOMAIN es = 1 .. Chunks(message)
  BY <1>2, <1>3
<1>5. es = [c \in DOMAIN es |-> es[c]]
  BY <1>2
<1>6. polys \in [1 .. Len(es) -> Drawn] /\ \A c \in DOMAIN es : polys[c][1] = es[c]
  BY DEF TypeOK, Splits
<1>7. \A q \in Drawn : q \in [1 .. T -> Field]
  BY DEF Polynomials
<1> HIDE DEF es, Drawn
<1>8. 1 \in 1 .. T
  BY Parameters
<1>9. DOMAIN polys = 1 .. Chunks(message)
  BY <1>4, <1>6
<1>10. ASSUME NEW c \in DOMAIN polys
       PROVE  polys[c] \in [1 .. T -> Field] /\ polys[c][1] \in Field /\ polys[c][1] = es[c]
  BY <1>4, <1>6, <1>7, <1>8, <1>9
<1> QED BY <1>1, <1>4, <1>5, <1>9, <1>10 DEF es

\* Fewer than T shares fit each value of a chunk in as many ways.
LEMMA FewSharesFitAll == TypeOK => FewSharesRevealNothing
<1> SUFFICES ASSUME TypeOK PROVE FewSharesRevealNothing
  OBVIOUS
<1> DEFINE out == {s \in Share : emitted[s] > 0}
<1>1. out \in SUBSET (1 .. K)
  BY DeliveryAssumption
<1> HIDE DEF out
<1>2. ASSUME Cardinality(out) < T, NEW c \in DOMAIN polys, NEW e \in Field
      PROVE  Cardinality(Fitting(out, polys[c], e)) =
                 Cardinality(Fitting(out, polys[c], polys[c][1]))
  <2>1. polys[c] \in [1 .. T -> Field] /\ polys[c][1] \in Field
    BY PolynomialsOf
  <2> QED BY <1>1, <1>2, <2>1, SameWays
<1>3. \A c, e : {p \in Polynomials(e) :
                    \A s \in out : EvaluatePolynomial(p, s) = EvaluatePolynomial(polys[c], s)}
                  = Fitting(out, polys[c], e)
  BY DEF Fitting
<1> QED BY <1>2, <1>3, Zenon DEF FewSharesRevealNothing, out

\* For any timers, any field and any K and T: the fewer than T shares that have
\* left the sender say nothing of the message, for each value of a chunk fits
\* them with as many of generate_polynomial's polynomials as the true one.
THEOREM SharesRevealNothing == Spec => []FewSharesRevealNothing
  BY DeliveryTyped, FewSharesFitAll, PTL

\* Any T shares of different indices give the message back.
LEMMA SharesSuffice == TypeOK => ThresholdSuffices
<1> SUFFICES ASSUME TypeOK, ~ Insufficient(received), ~ Repeated
             PROVE  /\ ~ Panics(received)
                    /\ Len(Reconstruct(received)) = Chunks(message) * ChunkSize
                    /\ SubSeq(Reconstruct(received), 1, Len(message)) = message
                    /\ \A i \in Len(message) + 1 .. Len(Reconstruct(received)) :
                          Reconstruct(received)[i] = 0
  BY DEF ThresholdSuffices
<1> DEFINE es == BytesToFieldElements(message)
           xs == [i \in 1 .. T |-> received[i].index]
<1>1. /\ T \in Nat \ {0} /\ Len(received) \in Nat /\ T <= Len(received)
      /\ K \in Nat /\ Share = 1 .. K
  <2>1. received \in Seq({ShareOf(polys, s) : s \in Share})
    BY DEF TypeOK
  <2>2. Len(received) \in Nat
    BY <2>1
  <2> QED BY <2>2, Parameters, DeliveryAssumption DEF Insufficient
<1>2. \A i \in 1 .. T : received[i] = ShareOf(polys, received[i].index)
                        /\ received[i].index \in Share
  <2>1. ASSUME NEW i \in 1 .. T
        PROVE  received[i] = ShareOf(polys, received[i].index) /\ received[i].index \in Share
    <3>1. received[i] \in {ShareOf(polys, s) : s \in Share}
      <4> DEFINE S == {ShareOf(polys, s) : s \in Share}
      <4>1. received \in Seq(S)
        BY DEF TypeOK
      <4> HIDE DEF S
      <4>2. received[i] \in S
        BY <1>1, <4>1
      <4> QED BY <4>2 DEF S
    <3>2. PICK s \in Share : received[i] = ShareOf(polys, s)
      BY <3>1
    <3>3. ShareOf(polys, s).index = s
      BY DEF ShareOf
    <3> QED BY <3>2, <3>3
  <2> QED BY <2>1
<1>3. Distinct(xs)
  <2>1. xs \in [1 .. T -> 1 .. K]
    BY <1>1, <1>2
  <2>2. \A i, j \in 1 .. T : i # j => xs[i] # xs[j]
    BY DEF Repeated
  <2> HIDE DEF xs
  <2> QED BY <2>1, <2>2 DEF Distinct
<1>4. \A i \in 1 .. T : /\ DOMAIN received[i].data = DOMAIN polys
                        /\ \A c \in DOMAIN polys :
                              received[i].data[c] = EvaluatePolynomial(polys[c], xs[i])
                        /\ xs[i] = received[i].index
  <2>1. \A s : /\ DOMAIN ShareOf(polys, s).data = DOMAIN polys
               /\ \A c \in DOMAIN polys :
                     ShareOf(polys, s).data[c] = EvaluatePolynomial(polys[c], s)
    BY DEF ShareOf
  <2>2. \A i \in 1 .. T : xs[i] = received[i].index
    OBVIOUS
  <2> HIDE DEF xs
  <2> QED BY <1>2, <2>1, <2>2
<1> HIDE DEF xs, es
<1>9. ~ Panics(received)
  <2>1. \A i, j \in 1 .. T : i # j => Minus(received[i].index, received[j].index) # 0
    <3> SUFFICES ASSUME NEW i \in 1 .. T, NEW j \in 1 .. T, i # j
                 PROVE  Minus(received[i].index, received[j].index) # 0
      OBVIOUS
    <3>1. xs[i] \in 1 .. K /\ xs[j] \in 1 .. K /\ xs[i] # xs[j]
      BY <1>3 DEF Distinct
    <3>2. xs[i] \in Field /\ xs[j] \in Field
      BY <3>1, Parameters DEF Field
    <3>3. Minus(xs[i], xs[j]) # 0
      BY <3>1, <3>2, MinusIs
    <3> QED BY <1>4, <3>3
  <2> QED BY <2>1 DEF Panics
<1>5. ASSUME NEW c \in DOMAIN polys
      PROVE  LagrangeInterpolateAtZero([i \in 1 .. T |-> <<received[i].index, received[i].data[c]>>])
                = es[c]
  <2>1. [i \in 1 .. T |-> <<received[i].index, received[i].data[c]>>]
          = [i \in 1 .. T |-> <<xs[i], EvaluatePolynomial(polys[c], xs[i])>>]
    BY <1>4
  <2>2. polys[c] \in [1 .. T -> Field] /\ polys[c][1] = es[c]
    BY PolynomialsOf DEF es
  <2>3. LagrangeInterpolateAtZero([i \in 1 .. T |-> <<xs[i], EvaluatePolynomial(polys[c], xs[i])>>])
          = polys[c][1]
    BY <1>3, <2>2, InterpolationIs
  <2> QED BY <2>1, <2>2, <2>3
<1>6. [c \in DOMAIN received[1].data |->
         LagrangeInterpolateAtZero([i \in 1 .. T |-> <<received[i].index, received[i].data[c]>>])]
        = es
  <2>1. DOMAIN received[1].data = DOMAIN polys
    BY <1>1, <1>4
  <2>2. es = [c \in DOMAIN polys |-> es[c]]
    BY PolynomialsOf DEF es
  <2> QED BY <1>5, <2>1, <2>2
<1>7. Reconstruct(received) = FieldElementsToBytes(es)
  BY <1>6 DEF Reconstruct
<1>8. message \in Seq(0 .. Base - 1)
  BY PolynomialsOf
<1> QED BY <1>7, <1>8, <1>9, MessageRoundTrip DEF es

\* For any timers, whichever T shares arrive first and in whatever order, if
\* no share is among them twice, reconstruct inverts no zero and returns the
\* message: its interpolation finds the constant term of each chunk's
\* polynomial, and its bytes are those that split cut up.
THEOREM DeliveryReconstructs == Spec => []ThresholdSuffices
  BY DeliveryTyped, SharesSuffice, PTL
=============================================================================
