---------------------------- MODULE CoverTraffic ----------------------------
(***************************************************************************)
(* core/src/cover_traffic.rs: the scheduler that lets real shares replace  *)
(* cover slots, and the timers of its caller.                              *)
(*                                                                         *)
(* The caller samples an emission, waits for its delay, emits, and then    *)
(* acknowledges.  next_emission names a share by its index and reserves    *)
(* nothing, so pending_real_shares may change before the index comes back. *)
(* Delays and the kind of a cover are left out: a timer fires some time,   *)
(* and no operation reads which of the three processes won.                *)
(***************************************************************************)
EXTENDS Naturals, Sequences, SequencesExt, FiniteSets

CONSTANTS
    Share,      \* the real shares
    NoShare,    \* what a cover packet carries
    Timer       \* emissions that the caller may have under way at a time

ASSUME CoverAssumption == NoShare \notin Share

VARIABLES
    pending_real_shares,   \* the scheduler's Vec
    timer,                 \* per timer, the emission it is working on
    queued,                \* history: the shares handed to the scheduler
    emitted                \* history: how often each share was emitted

coverVars == <<pending_real_shares, timer, queued, emitted>>

\* idx is the index in RealShare(idx), counted from 1, and 0 in a cover.
Slot == [phase : {"idle", "waiting", "emitted"}, idx : Nat, share : Share \cup {NoShare}]

Idle == [phase |-> "idle", idx |-> 0, share |-> NoShare]

CoverInit ==
    /\ pending_real_shares = <<>>
    /\ timer = [t \in Timer |-> Idle]
    /\ queued = {}
    /\ emitted = [s \in Share |-> 0]

\* The caller hands over each share once.
QueueRealShare(s) ==
    /\ s \notin queued
    /\ pending_real_shares' = Append(pending_real_shares, s)
    /\ queued' = queued \cup {s}
    /\ UNCHANGED <<timer, emitted>>

\* Mutant: the index of the last share is taken without a look at emptiness.
NextEmission_unchecked(t) ==
    /\ timer[t].phase = "idle"
    /\ timer' = [timer EXCEPT ![t] = [phase |-> "waiting", share |-> NoShare,
                                      idx |-> Len(pending_real_shares) - 1]]
    /\ UNCHANGED <<pending_real_shares, queued, emitted>>

\* Mutant: a cover goes out also when shares are pending.
NextEmission_coverOnly(t) ==
    /\ timer[t].phase = "idle"
    /\ timer' = [timer EXCEPT ![t] = [phase |-> "waiting", idx |-> 0, share |-> NoShare]]
    /\ UNCHANGED <<pending_real_shares, queued, emitted>>

\* The last share in the Vec replaces the cover.  The Vec is private, so the
\* caller takes the share from its own copy, which is in step at this moment.
NextEmission(t) ==
    /\ timer[t].phase = "idle"
    /\ LET idx == Len(pending_real_shares)
       IN  timer' = [timer EXCEPT ![t] =
               [phase |-> "waiting", idx |-> idx,
                share |-> IF idx = 0 THEN NoShare ELSE pending_real_shares[idx]]]
    /\ UNCHANGED <<pending_real_shares, queued, emitted>>

EmitCover(t) ==
    /\ timer[t].phase = "waiting" /\ timer[t].share = NoShare
    /\ timer' = [timer EXCEPT ![t] = Idle]
    /\ UNCHANGED <<pending_real_shares, queued, emitted>>

EmitShare(t) ==
    /\ timer[t].phase = "waiting" /\ timer[t].share # NoShare
    /\ timer' = [timer EXCEPT ![t].phase = "emitted"]
    /\ emitted' = [emitted EXCEPT ![timer[t].share] = @ + 1]
    /\ UNCHANGED <<pending_real_shares, queued>>

\* Mutant: the first share is removed, where the last was offered.
Acknowledged_removesFirst(pending, idx) == IF pending = <<>> THEN pending ELSE Tail(pending)

\* Mutant: the last index is taken to be out of range.
Acknowledged_offByOne(pending, idx) ==
    IF idx < Len(pending) THEN RemoveAt(pending, idx) ELSE pending

\* What acknowledge_emission leaves in the Vec: an index that is out of range
\* by now is ignored.
Acknowledged(pending, idx) == IF idx <= Len(pending) THEN RemoveAt(pending, idx) ELSE pending

AcknowledgeEmission(t) ==
    /\ timer[t].phase = "emitted"
    /\ pending_real_shares' = Acknowledged(pending_real_shares, timer[t].idx)
    /\ timer' = [timer EXCEPT ![t] = Idle]
    /\ UNCHANGED <<queued, emitted>>

CoverNext ==
    \/ \E s \in Share : QueueRealShare(s)
    \/ \E t \in Timer :
          NextEmission(t) \/ EmitCover(t) \/ EmitShare(t) \/ AcknowledgeEmission(t)

CoverSpec == CoverInit /\ [][CoverNext]_coverVars

-----------------------------------------------------------------------------
CoverTypeOK ==
    /\ pending_real_shares \in Seq(Share)
    /\ timer \in [Timer -> Slot]
    /\ queued \subseteq Share
    /\ emitted \in [Share -> Nat]

\* "Acknowledge that a real share was emitted (remove from queue)"
\* (cover_traffic.rs:84): what leaves the Vec has been emitted, so no share is
\* dropped by an acknowledgement of another one.
NoShareDropped ==
    \A s \in queued : emitted[s] > 0 \/ \E i \in 1 .. Len(pending_real_shares) :
                                            pending_real_shares[i] = s

\* A share is emitted once: an emission that is sampled, or emitted and not
\* yet acknowledged, is not offered to a second one.
EmittedOnce == \A s \in Share : emitted[s] <= 1

\* The last come is the first served, yet when the caller runs out of shares
\* each share that was queued is emitted.
EveryShareLeaves == \A s \in Share : s \in queued ~> emitted[s] > 0
=============================================================================
