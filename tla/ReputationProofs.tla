-------------------------- MODULE ReputationProofs --------------------------
(***************************************************************************)
(* Proofs about the penalty log, its gossip and the reputation computed    *)
(* from it, for any replicas, nodes, ids, evidence, severities and growth. *)
(* Type correctness needs no assumption on the evidence; the rest assumes  *)
(* UniqueIds: an id stands for one event.  Where a result needs the        *)
(* severities against a node to be in [0, 1], its property says so.        *)
(*                                                                         *)
(* A factor is a product over a set in an order that the fold chooses.     *)
(* What a fold computes needs an induction over sets, which is done here   *)
(* with a minimal counterexample: strict inclusion is well founded on the  *)
(* subsets of a finite set.                                                *)
(***************************************************************************)
EXTENDS Reputation, FiniteSetTheorems, TLAPS

-----------------------------------------------------------------------------
\* The operations of the log.

\* insert and merge keep the shape of a log.
LEMMA OperationsTyped ==
    ASSUME NEW a \in Log, NEW b \in Log, NEW e \in PenaltyEvent
    PROVE  /\ EmptyLog \in Log
           /\ Insert(a, e) \in Log
           /\ Merge(a, b) \in Log
  BY DEF Log, EmptyLog, Insert, Merge, PenaltyEvent

\* The events of a coherent log: those stored, each under its own id.
LEMMA EventsOfCoherent ==
    ASSUME NEW a \in Log, Coherent(a)
    PROVE  /\ AllEvents(a) \subseteq Evidence
           /\ \A id \in PenaltyEventId :
                 a.events[id] # NoEvent <=> \E e \in AllEvents(a) : e.event_id = id
  BY DEF Coherent, AllEvents, Log

\* A new log is coherent and knows nothing.
LEMMA EmptyLogCoherent == Coherent(EmptyLog) /\ AllEvents(EmptyLog) = {}
  BY DEF Coherent, EmptyLog, AllEvents

\* insert keeps the two maps in agreement and adds exactly the event.
LEMMA InsertAdds ==
    ASSUME UniqueIds, NEW a \in Log, Coherent(a), NEW e \in Evidence
    PROVE  /\ Coherent(Insert(a, e))
           /\ AllEvents(Insert(a, e)) = AllEvents(a) \cup {e}
<1> DEFINE b == Insert(a, e)
<1>1. e \in PenaltyEvent /\ e # NoEvent
  BY GossipAssumption, NoEventAssumption
<1>2. ASSUME NEW id \in PenaltyEventId
      PROVE  b.events[id] = IF id = e.event_id THEN e ELSE a.events[id]
  BY <1>1 DEF Insert, Log, PenaltyEvent
<1>3. a.events[e.event_id] \in {NoEvent, e}
  BY <1>1 DEF Coherent, UniqueIds, PenaltyEvent
<1>4. ASSUME NEW n \in NodeId, NEW id \in PenaltyEventId
      PROVE  id \in b.penalties[n] <=>
                id \in a.penalties[n] \/ (n = e.target /\ id = e.event_id)
  BY <1>1 DEF Insert, Log, PenaltyEvent
<1>5. Coherent(b)
  BY <1>1, <1>2, <1>3, <1>4 DEF Coherent
<1>6. AllEvents(b) = AllEvents(a) \cup {e}
  <2>1. ASSUME NEW f PROVE f \in AllEvents(b) => f \in AllEvents(a) \cup {e}
    BY <1>2 DEF AllEvents
  <2>2. e \in AllEvents(b)
    BY <1>1, <1>2 DEF AllEvents, PenaltyEvent
  <2>3. ASSUME NEW f \in AllEvents(a) PROVE f \in AllEvents(b)
    BY <1>1, <1>2, <1>3, <2>2 DEF AllEvents
  <2> QED BY <2>1, <2>2, <2>3
<1> QED BY <1>5, <1>6

\* "Merge = set union of penalty events" (penalty_log.rs:7).
LEMMA MergeIsUnion ==
    ASSUME UniqueIds, NEW a \in Log, NEW b \in Log, Coherent(a), Coherent(b)
    PROVE  /\ Coherent(Merge(a, b))
           /\ AllEvents(Merge(a, b)) = AllEvents(a) \cup AllEvents(b)
<1> DEFINE c == Merge(a, b)
<1>1. ASSUME NEW id \in PenaltyEventId, a.events[id] # NoEvent, b.events[id] # NoEvent
      PROVE  a.events[id] = b.events[id]
  BY <1>1 DEF Coherent, UniqueIds
<1>2. ASSUME NEW id \in PenaltyEventId
      PROVE  c.events[id] = IF a.events[id] = NoEvent THEN b.events[id] ELSE a.events[id]
  <2>1. c.events[id] = IF id \in Fresh(a, b) THEN b.events[id] ELSE a.events[id]
    BY DEF Merge
  <2>2. CASE a.events[id] = NoEvent /\ b.events[id] # NoEvent
    <3>1. b.events[id].target \in NodeId
      BY <2>2 DEF Log, PenaltyEvent
    <3>2. id \in b.penalties[b.events[id].target] \ a.penalties[b.events[id].target]
      BY <2>2, <3>1 DEF Coherent
    <3> QED BY <2>1, <2>2, <3>1, <3>2 DEF Fresh
  <2>3. CASE a.events[id] # NoEvent \/ b.events[id] = NoEvent
    BY <1>1, <2>1, <2>3 DEF Fresh
  <2> QED BY <2>2, <2>3
<1>3. ASSUME NEW n \in NodeId
      PROVE  c.penalties[n] = a.penalties[n] \cup b.penalties[n]
  BY DEF Merge
<1>4. Coherent(c)
  BY <1>1, <1>2, <1>3 DEF Coherent
<1>5. AllEvents(c) = AllEvents(a) \cup AllEvents(b)
  <2>1. AllEvents(c) \subseteq AllEvents(a) \cup AllEvents(b)
    BY <1>2 DEF AllEvents
  <2>2. AllEvents(a) \subseteq AllEvents(c)
    BY <1>2 DEF AllEvents
  <2>3. AllEvents(b) \subseteq AllEvents(c)
    BY <1>1, <1>2 DEF AllEvents
  <2> QED BY <2>1, <2>2, <2>3
<1> QED BY <1>4, <1>5

\* The events determine the log.
LEMMA EventsDetermineLog ==
    ASSUME UniqueIds, NEW a \in Log, NEW b \in Log, Coherent(a), Coherent(b),
           AllEvents(a) = AllEvents(b)
    PROVE  a = b
<1>1. ASSUME NEW id \in PenaltyEventId PROVE a.events[id] = b.events[id]
  <2>1. CASE a.events[id] = NoEvent
    <3>1. b.events[id] = NoEvent
      BY <2>1, EventsOfCoherent
    <3> QED BY <2>1, <3>1
  <2>2. CASE a.events[id] # NoEvent
    <3>1. b.events[id] # NoEvent
      BY <2>2, EventsOfCoherent
    <3> QED BY <2>2, <3>1 DEF Coherent, UniqueIds
  <2> QED BY <2>1, <2>2
<1>2. a.events = b.events
  BY <1>1 DEF Log
<1>3. ASSUME NEW n \in NodeId PROVE a.penalties[n] = b.penalties[n]
  <2>1. \A id \in PenaltyEventId : id \in a.penalties[n] <=> id \in b.penalties[n]
    BY <1>1 DEF Coherent
  <2>2. a.penalties[n] \subseteq PenaltyEventId /\ b.penalties[n] \subseteq PenaltyEventId
    BY DEF Log
  <2> QED BY <2>1, <2>2
<1> QED BY <1>2, <1>3 DEF Log

\* penalty_log.rs:11-13: on coherent logs merge is commutative, associative
\* and idempotent.
LEMMA MergeIsSemilattice ==
    ASSUME UniqueIds, NEW a \in Log, NEW b \in Log, NEW c \in Log,
           Coherent(a), Coherent(b), Coherent(c)
    PROVE  /\ Merge(a, b) = Merge(b, a)
           /\ Merge(Merge(a, b), c) = Merge(a, Merge(b, c))
           /\ Merge(a, a) = a
<1>1. \A x, y \in Log : Coherent(x) /\ Coherent(y) =>
         /\ Merge(x, y) \in Log /\ Coherent(Merge(x, y))
         /\ AllEvents(Merge(x, y)) = AllEvents(x) \cup AllEvents(y)
  <2>1. \A x, y \in Log : Merge(x, y) \in Log
    BY DEF Merge, Log
  <2> QED BY <2>1, MergeIsUnion
<1>2. Merge(a, b) = Merge(b, a)
  <2>1. AllEvents(Merge(a, b)) = AllEvents(a) \cup AllEvents(b)
        /\ AllEvents(Merge(b, a)) = AllEvents(b) \cup AllEvents(a)
    BY <1>1
  <2>2. AllEvents(Merge(a, b)) = AllEvents(Merge(b, a))
    BY <2>1
  <2> QED BY <1>1, <2>2, EventsDetermineLog
<1>3. Merge(Merge(a, b), c) = Merge(a, Merge(b, c))
  <2> DEFINE left == Merge(Merge(a, b), c)
             right == Merge(a, Merge(b, c))
  <2>1. /\ left \in Log /\ Coherent(left)
        /\ AllEvents(left) = (AllEvents(a) \cup AllEvents(b)) \cup AllEvents(c)
    BY <1>1
  <2>2. /\ right \in Log /\ Coherent(right)
        /\ AllEvents(right) = AllEvents(a) \cup (AllEvents(b) \cup AllEvents(c))
    BY <1>1
  <2>3. AllEvents(left) = AllEvents(right)
    BY <2>1, <2>2
  <2> HIDE DEF left, right
  <2>4. left = right
    BY <2>1, <2>2, <2>3, EventsDetermineLog
  <2> QED BY <2>4 DEF left, right
<1>4. Merge(a, a) = a
  <2>1. AllEvents(Merge(a, a)) = AllEvents(a) \cup AllEvents(a)
    BY <1>1
  <2>2. AllEvents(Merge(a, a)) = AllEvents(a)
    BY <2>1
  <2> QED BY <1>1, <2>2, EventsDetermineLog
<1> QED BY <1>2, <1>3, <1>4

-----------------------------------------------------------------------------
\* The gossip.

\* Logs and snapshots have the shape of logs, with no assumption on ids.
THEOREM GossipTyped == GossipSpec => []GossipTypeOK
<1>1. GossipInit => GossipTypeOK
  BY OperationsTyped DEF GossipInit, GossipTypeOK, EmptyLog, Log
<1>2. GossipTypeOK /\ [GossipNext]_gossipVars => GossipTypeOK'
  <2> SUFFICES ASSUME GossipTypeOK, [GossipNext]_gossipVars PROVE GossipTypeOK'
    OBVIOUS
  <2> USE DEF GossipTypeOK
  <2>1. ASSUME NEW r \in Replica, NEW e \in Evidence, Observe(r, e) PROVE GossipTypeOK'
    <3>1. Insert(log[r], e) \in Log
      BY OperationsTyped, GossipAssumption
    <3> QED BY <2>1, <3>1 DEF Observe
  <2>2. ASSUME NEW r \in Replica, NEW q \in Replica, Gossip(r, q) PROVE GossipTypeOK'
    BY <2>2 DEF Gossip, Snapshot
  <2>3. ASSUME NEW m \in inflight, Deliver(m) PROVE GossipTypeOK'
    <3>1. m.to \in Replica /\ m.log \in Log
      BY DEF Snapshot
    <3>2. Merge(log[m.to], m.log) \in Log
      BY <3>1 DEF Merge, Log
    <3> QED BY <2>3, <3>1, <3>2 DEF Deliver
  <2>4. ASSUME NEW m \in inflight, Drop(m) PROVE GossipTypeOK'
    BY <2>4 DEF Drop
  <2>5. CASE UNCHANGED gossipVars
    BY <2>5 DEF gossipVars
  <2> QED BY <2>1, <2>2, <2>3, <2>4, <2>5 DEF GossipNext
<1> QED BY <1>1, <1>2, PTL DEF GossipSpec

\* No snapshot is ahead of the log it was cloned from: logs only grow.
SnapshotsKnown == \A m \in inflight : AllEvents(m.log) \subseteq AllEvents(log[m.from])

\* The inductive invariant.
GossipInv == GossipTypeOK /\ IndexCoherent /\ SnapshotsKnown

\* What one step does to the events: an observation adds one event at one
\* replica, a delivery adds those of the snapshot, nothing else changes them.
LEMMA StepEvents ==
    ASSUME UniqueIds, GossipInv
    PROVE  /\ \A r \in Replica, e \in Evidence :
                 Observe(r, e) =>
                    /\ \A q \in Replica : Coherent(log'[q])
                    /\ \A q \in Replica : AllEvents(log'[q]) =
                          IF q = r THEN AllEvents(log[r]) \cup {e} ELSE AllEvents(log[q])
           /\ \A m \in inflight :
                 Deliver(m) =>
                    /\ \A q \in Replica : Coherent(log'[q])
                    /\ \A q \in Replica : AllEvents(log'[q]) =
                          IF q = m.to THEN AllEvents(log[q]) \cup AllEvents(m.log)
                                      ELSE AllEvents(log[q])
<1> USE DEF GossipInv, GossipTypeOK, IndexCoherent
<1>1. ASSUME NEW r \in Replica, NEW e \in Evidence, Observe(r, e)
      PROVE  /\ \A q \in Replica : Coherent(log'[q])
             /\ \A q \in Replica : AllEvents(log'[q]) =
                   IF q = r THEN AllEvents(log[r]) \cup {e} ELSE AllEvents(log[q])
  <2>1. Coherent(Insert(log[r], e)) /\ AllEvents(Insert(log[r], e)) = AllEvents(log[r]) \cup {e}
    BY InsertAdds
  <2>2. \A q \in Replica : log'[q] = IF q = r THEN Insert(log[r], e) ELSE log[q]
    BY <1>1 DEF Observe
  <2> QED BY <2>1, <2>2
<1>2. ASSUME NEW m \in inflight, Deliver(m)
      PROVE  /\ \A q \in Replica : Coherent(log'[q])
             /\ \A q \in Replica : AllEvents(log'[q]) =
                   IF q = m.to THEN AllEvents(log[q]) \cup AllEvents(m.log)
                               ELSE AllEvents(log[q])
  <2>1. m.to \in Replica /\ m.log \in Log
    BY DEF Snapshot
  <2>2. /\ Coherent(Merge(log[m.to], m.log))
        /\ AllEvents(Merge(log[m.to], m.log)) = AllEvents(log[m.to]) \cup AllEvents(m.log)
    BY <2>1, MergeIsUnion
  <2>3. \A q \in Replica : log'[q] = IF q = m.to THEN Merge(log[m.to], m.log) ELSE log[q]
    BY <1>2, <2>1 DEF Deliver
  <2> QED BY <2>2, <2>3
<1> QED BY <1>1, <1>2

\* The inductive invariant holds.
THEOREM GossipInvariant == ASSUME UniqueIds PROVE GossipSpec => []GossipInv
<1>1. GossipInit => GossipInv
  BY EmptyLogCoherent, OperationsTyped
  DEF GossipInit, GossipInv, GossipTypeOK, IndexCoherent, SnapshotsKnown, EmptyLog, Log
<1>2. GossipInv /\ GossipTypeOK' /\ [GossipNext]_gossipVars => GossipInv'
  <2> SUFFICES ASSUME GossipInv, GossipTypeOK', [GossipNext]_gossipVars
               PROVE  IndexCoherent' /\ SnapshotsKnown'
    BY DEF GossipInv
  <2> USE DEF GossipInv, IndexCoherent, SnapshotsKnown
  <2>0. \A m \in inflight : m.from \in Replica /\ m.to \in Replica /\ m.log \in Log
    BY DEF GossipTypeOK, Snapshot
  <2>1. ASSUME NEW r \in Replica, NEW e \in Evidence, Observe(r, e)
        PROVE  IndexCoherent' /\ SnapshotsKnown'
    <3>1. inflight' = inflight
      BY <2>1 DEF Observe
    <3>2. \A q \in Replica : Coherent(log'[q]) /\ AllEvents(log[q]) \subseteq AllEvents(log'[q])
      BY <2>1, StepEvents
    <3> QED BY <2>0, <3>1, <3>2
  <2>2. ASSUME NEW r \in Replica, NEW q \in Replica, Gossip(r, q)
        PROVE  IndexCoherent' /\ SnapshotsKnown'
    BY <2>2 DEF Gossip
  <2>3. ASSUME NEW m \in inflight, Deliver(m)
        PROVE  IndexCoherent' /\ SnapshotsKnown'
    <3>1. inflight' \subseteq inflight
      BY <2>3 DEF Deliver
    <3>2. \A q \in Replica : Coherent(log'[q]) /\ AllEvents(log[q]) \subseteq AllEvents(log'[q])
      BY <2>3, StepEvents
    <3> QED BY <2>0, <3>1, <3>2
  <2>4. ASSUME NEW m \in inflight, Drop(m)
        PROVE  IndexCoherent' /\ SnapshotsKnown'
    BY <2>4 DEF Drop
  <2>5. CASE UNCHANGED gossipVars
    BY <2>5 DEF gossipVars
  <2> QED BY <2>1, <2>2, <2>3, <2>4, <2>5 DEF GossipNext
<1> QED BY <1>1, <1>2, GossipTyped, PTL DEF GossipSpec

\* In every log and snapshot the two maps agree on what is known and whom it
\* is about.
THEOREM IndexCoherence == ASSUME UniqueIds PROVE GossipSpec => []IndexCoherent
<1>1. GossipInv => IndexCoherent
  BY DEF GossipInv
<1> QED BY <1>1, GossipInvariant, PTL

\* Replicas that know the same events have the same log, in whatever order
\* and however often the events reached them.
THEOREM Agreement == ASSUME UniqueIds PROVE GossipSpec => []SameEventsSameLog
<1>1. GossipInv => SameEventsSameLog
  BY EventsDetermineLog DEF GossipInv, GossipTypeOK, IndexCoherent, SameEventsSameLog
<1> QED BY <1>1, GossipInvariant, PTL

\* merge is a semilattice operation on everything the replicas reach.
THEOREM Semilattice == ASSUME UniqueIds PROVE GossipSpec => []MergeAlgebra
<1>1. GossipInv => MergeAlgebra
  <2> SUFFICES ASSUME GossipInv PROVE MergeAlgebra
    OBVIOUS
  <2>1. \A a \in Logs : a \in Log /\ Coherent(a)
    BY DEF GossipInv, GossipTypeOK, Snapshot, IndexCoherent, Logs
  <2> HIDE DEF Logs
  <2> QED BY <2>1, MergeIsSemilattice DEF MergeAlgebra, MergeCommutes
<1> QED BY <1>1, GossipInvariant, PTL

-----------------------------------------------------------------------------
\* The refinement: a log stands for the set of its events.  An observation maps
\* to an observation, a delivery to learning the events of the snapshot, which
\* its sender still knows, and sending or losing a snapshot to a stutter.
THEOREM Refinement == ASSUME UniqueIds PROVE GossipSpec => ImplementsPenaltySet
<1> DEFINE known == [r \in Replica |-> AllEvents(log[r])]
<1>1. GossipInit => Abstract!Init
  BY EmptyLogCoherent DEF GossipInit, Abstract!Init
<1>2. GossipInv /\ [GossipNext]_gossipVars => [Abstract!Next]_known
  <2> SUFFICES ASSUME GossipInv, [GossipNext]_gossipVars, known' # known
               PROVE  Abstract!Next
    BY DEF Abstract!Next
  <2>1. ASSUME NEW r \in Replica, NEW e \in Evidence, Observe(r, e)
        PROVE  Abstract!Observe(r, e)
    BY <2>1, StepEvents, ZenonT(30) DEF Abstract!Observe
  <2>2. ASSUME NEW m \in inflight, Deliver(m)
        PROVE  /\ m.to \in Replica /\ Abstract!Learn(m.to, AllEvents(m.log))
               /\ AllEvents(m.log) \in SUBSET UNION {known[q] : q \in Replica}
    <3>1. m.to \in Replica /\ m.from \in Replica
      BY DEF GossipInv, GossipTypeOK, Snapshot
    <3>2. AllEvents(m.log) \subseteq known[m.from]
      BY <3>1 DEF GossipInv, SnapshotsKnown
    <3>3. Abstract!Learn(m.to, AllEvents(m.log))
      BY <2>2, <3>1, StepEvents DEF Abstract!Learn
    <3> QED BY <3>1, <3>2, <3>3
  <2>3. ASSUME log' = log PROVE FALSE
    BY <2>3
  <2>4. ASSUME \E r, q \in Replica : Gossip(r, q) PROVE FALSE
    BY <2>3, <2>4 DEF Gossip
  <2>5. ASSUME \E m \in inflight : Drop(m) PROVE FALSE
    BY <2>3, <2>5 DEF Drop
  <2>6. ASSUME UNCHANGED gossipVars PROVE FALSE
    BY <2>3, <2>6 DEF gossipVars
  <2> QED BY <2>1, <2>2, <2>4, <2>5, <2>6 DEF GossipNext, Abstract!Next
<1> QED BY <1>1, <1>2, GossipInvariant, PTL
        DEF GossipSpec, ImplementsPenaltySet, Abstract!Spec

-----------------------------------------------------------------------------
\* Products.

\* Induction over the subsets of a finite set, for a property given as a set.
LEMMA SubsetInduction ==
    ASSUME NEW S, IsFiniteSet(S), NEW A,
           \A s \in SUBSET S : (\A t \in SUBSET s : t # s => t \in A) => s \in A
    PROVE  SUBSET S \subseteq A
<1> DEFINE B == (SUBSET S) \ A
           R == StrictSubsetOrdering(S)
<1>1. IsWellFoundedOn(R, SUBSET S)
  BY FS_StrictSubsetOrderingWellFounded, FS_FiniteSubsetsOfFinite
<1>2. ASSUME B # {} PROVE FALSE
  <2>1. PICK s \in B : \A t \in B : ~ (<<t, s>> \in R)
    <3>1. B \subseteq SUBSET S
      OBVIOUS
    <3> HIDE DEF R, B
    <3> QED BY <1>1, <1>2, <3>1, WFMin
  <2>2. \A t \in SUBSET s : t # s => t \in A
    BY <2>1 DEF StrictSubsetOrdering
  <2> QED BY <2>1, <2>2
<1> QED BY <1>2

\* The element that a fold takes next, and the table of partial products that
\* it computes on the subsets of U.
Pick(s) == CHOOSE x \in s : TRUE

IsTable(g, weight, f, U) ==
    g = [s \in SUBSET U |-> IF s = {} THEN weight ELSE f[Pick(s)] * g[s \ {Pick(s)}]]

LEMMA PickIn == \A s : s # {} => Pick(s) \in s
  BY DEF Pick

\* There is one table for a finite set, and its restriction to a subset is
\* that of the subset.
LEMMA TableUnique ==
    ASSUME NEW U, IsFiniteSet(U), NEW V \in SUBSET U, NEW weight, NEW f,
           NEW g, NEW h, IsTable(g, weight, f, U), IsTable(h, weight, f, V)
    PROVE  \A s \in SUBSET V : g[s] = h[s]
<1> DEFINE A == {s \in SUBSET V : g[s] = h[s]}
<1>1. IsFiniteSet(V)
  BY FS_Subset
<1>2. ASSUME NEW s \in SUBSET V, \A t \in SUBSET s : t # s => t \in A
      PROVE  s \in A
  <2>1. CASE s = {}
    BY <2>1 DEF IsTable
  <2>2. CASE s # {}
    <3>1. Pick(s) \in s
      BY <2>2, PickIn
    <3>2. g[s \ {Pick(s)}] = h[s \ {Pick(s)}]
      BY <1>2, <3>1
    <3>3. g[s] = f[Pick(s)] * g[s \ {Pick(s)}]
      BY <2>2 DEF IsTable
    <3>4. h[s] = f[Pick(s)] * h[s \ {Pick(s)}]
      BY <2>2 DEF IsTable
    <3> QED BY <3>2, <3>3, <3>4
  <2> QED BY <2>1, <2>2
<1> HIDE DEF A
<1>3. SUBSET V \subseteq A
  BY <1>1, <1>2, SubsetInduction
<1> QED BY <1>3 DEF A

LEMMA TableExists ==
    ASSUME NEW U, IsFiniteSet(U), NEW weight, NEW f
    PROVE  \E g : IsTable(g, weight, f, U)
<1> DEFINE A == {s \in SUBSET U : \E g : IsTable(g, weight, f, s)}
<1>1. ASSUME NEW s \in SUBSET U, \A t \in SUBSET s : t # s => t \in A
      PROVE  s \in A
  <2> DEFINE Table(t) == CHOOSE g : IsTable(g, weight, f, t)
             last(t) == Table(t)[t]
             new == [t \in SUBSET s |->
                        IF t = {} THEN weight ELSE f[Pick(t)] * last(t \ {Pick(t)})]
  <2>1. ASSUME NEW t \in SUBSET s, t # s PROVE IsTable(Table(t), weight, f, t)
    <3>1. \E g : IsTable(g, weight, f, t)
      BY <1>1, <2>1
    <3> QED BY <3>1
  <2> HIDE DEF Table
  <2>2. ASSUME NEW t \in SUBSET s, t # {}
        PROVE  /\ Pick(t) \in t /\ t \ {Pick(t)} \in SUBSET t
               /\ t \ {Pick(t)} \in SUBSET s /\ t \ {Pick(t)} # s
    BY <2>2, PickIn
  <2>3. ASSUME NEW t \in SUBSET s, t # s PROVE new[t] = last(t)
    <3>1. IsTable(Table(t), weight, f, t)
      BY <2>1, <2>3
    <3>2. CASE t = {}
      BY <3>1, <3>2 DEF IsTable
    <3>3. CASE t # {}
      <4> DEFINE u == t \ {Pick(t)}
      <4>1. u \in SUBSET t /\ u \in SUBSET s /\ u # s
        BY <2>2, <3>3
      <4>2. IsTable(Table(u), weight, f, u)
        BY <2>1, <4>1
      <4>3. IsFiniteSet(t)
        BY FS_Subset
      <4>4. Table(t)[t] = f[Pick(t)] * Table(t)[u]
        BY <3>1, <3>3 DEF IsTable
      <4>5. Table(t)[u] = Table(u)[u]
        <5> HIDE DEF u
        <5> QED BY <3>1, <4>1, <4>2, <4>3, TableUnique
      <4> QED BY <3>3, <4>4, <4>5
    <3> QED BY <3>2, <3>3
  <2>4. IsTable(new, weight, f, s)
    <3>1. ASSUME NEW t \in SUBSET s, t # {}
          PROVE  new[t] = f[Pick(t)] * new[t \ {Pick(t)}]
      <4>1. new[t \ {Pick(t)}] = last(t \ {Pick(t)})
        BY <2>2, <2>3, <3>1
      <4> QED BY <3>1, <4>1
    <3>2. new[{}] = weight
      OBVIOUS
    <3>3. new = [t \in SUBSET s |->
                    IF t = {} THEN weight ELSE f[Pick(t)] * new[t \ {Pick(t)}]]
      <4>1. \A t \in SUBSET s :
               new[t] = IF t = {} THEN weight ELSE f[Pick(t)] * new[t \ {Pick(t)}]
        BY <3>1, <3>2
      <4>2. new = [t \in SUBSET s |-> new[t]]
        OBVIOUS
      <4> HIDE DEF new
      <4> QED BY <4>1, <4>2
    <3> QED BY <3>3 DEF IsTable
  <2> QED BY <2>4
<1> HIDE DEF A
<1>2. SUBSET U \subseteq A
  BY <1>1, SubsetInduction
<1> QED BY <1>2 DEF A

\* The products of weight and the values of f over the subsets of U: whichever
\* element is taken next, and all of them integers.
IsProducts(g, weight, f, U) ==
    /\ g \in [SUBSET U -> Int]
    /\ g[{}] = weight
    /\ \A s \in SUBSET U : \A x \in s : g[s] = f[x] * g[s \ {x}]

LEMMA TableIsProducts ==
    ASSUME NEW U, IsFiniteSet(U), NEW weight \in Int, NEW f \in [U -> Int],
           NEW g, IsTable(g, weight, f, U)
    PROVE  IsProducts(g, weight, f, U)
<1> DEFINE A == {s \in SUBSET U : g[s] \in Int /\ \A x \in s : g[s] = f[x] * g[s \ {x}]}
<1>1. ASSUME NEW s \in SUBSET U, \A t \in SUBSET s : t # s => t \in A
      PROVE  s \in A
  <2>1. CASE s = {}
    BY <2>1 DEF IsTable
  <2>2. CASE s # {}
    <3> DEFINE p == Pick(s)
    <3>1. p \in s
      BY <2>2, PickIn
    <3>2. g[s] = f[p] * g[s \ {p}]
      BY <2>2 DEF IsTable
    <3> HIDE DEF p
    <3>3. g[s \ {p}] \in Int /\ f[p] \in Int
      BY <1>1, <3>1
    <3>4. ASSUME NEW x \in s PROVE g[s] = f[x] * g[s \ {x}]
      <4>1. CASE x = p
        BY <3>2, <4>1
      <4>2. CASE x # p
        <5> DEFINE rest == s \ {p, x}
        <5>1. g[s \ {p}] = f[x] * g[(s \ {p}) \ {x}]
          BY <1>1, <3>1, <4>2
        <5>2. g[s \ {x}] = f[p] * g[(s \ {x}) \ {p}]
          BY <1>1, <3>1, <4>2
        <5>3. (s \ {p}) \ {x} = rest /\ (s \ {x}) \ {p} = rest
          OBVIOUS
        <5>4. g[rest] \in Int /\ f[x] \in Int
          BY <1>1, <3>1
        <5> HIDE DEF rest
        <5>5. g[s] = f[p] * (f[x] * g[rest]) /\ f[x] * g[s \ {x}] = f[x] * (f[p] * g[rest])
          BY <3>2, <5>1, <5>2, <5>3
        <5>6. \A a, b, c \in Int : a * (b * c) = b * (a * c)
          OBVIOUS
        <5> QED BY <3>3, <5>4, <5>5, <5>6
      <4> QED BY <4>1, <4>2
    <3>5. \A a, b \in Int : a * b \in Int
      OBVIOUS
    <3> QED BY <3>2, <3>3, <3>4, <3>5
  <2> QED BY <2>1, <2>2
<1> HIDE DEF A
<1>2. SUBSET U \subseteq A
  BY <1>1, SubsetInduction
<1>3. g = [s \in SUBSET U |-> g[s]] /\ g[{}] = weight
  BY DEF IsTable
<1> QED BY <1>2, <1>3 DEF A, IsProducts

\* The fold computes the product: the order that it chooses does not matter.
LEMMA ProductInAnyOrder ==
    ASSUME NEW U, IsFiniteSet(U), NEW weight \in Int, NEW f \in [U -> Int]
    PROVE  \E g : IsProducts(g, weight, f, U) /\ Product(weight, f) = g[U]
<1> DEFINE g == CHOOSE h : h = [s \in SUBSET DOMAIN f |->
                   IF s = {} THEN weight
                   ELSE f[CHOOSE x \in s : TRUE] * h[s \ {CHOOSE x \in s : TRUE}]]
<1>1. Product(weight, f) = g[DOMAIN f]
  BY Zenon DEF Product, FoldFunction, FoldFunctionOnSet, MapThenFoldSet
<1>2. IsTable(g, weight, f, U)
  <2>1. PICK h : IsTable(h, weight, f, U)
    BY TableExists
  <2>2. h = [s \in SUBSET DOMAIN f |->
                   IF s = {} THEN weight
                   ELSE f[CHOOSE x \in s : TRUE] * h[s \ {CHOOSE x \in s : TRUE}]]
    BY <2>1 DEF IsTable, Pick
  <2>3. g = [s \in SUBSET DOMAIN f |->
                   IF s = {} THEN weight
                   ELSE f[CHOOSE x \in s : TRUE] * g[s \ {CHOOSE x \in s : TRUE}]]
    BY <2>2, Zenon
  <2> HIDE DEF g
  <2> QED BY <2>3 DEF IsTable, Pick
<1> HIDE DEF g
<1> QED BY <1>1, <1>2, TableIsProducts

LEMMA ProductTyped ==
    ASSUME NEW U, IsFiniteSet(U), NEW weight \in Int, NEW f \in [U -> Int]
    PROVE  Product(weight, f) \in Int
<1>1. PICK g : IsProducts(g, weight, f, U) /\ Product(weight, f) = g[U]
  BY ProductInAnyOrder
<1> QED BY <1>1 DEF IsProducts

\* A product grows with its weight and with each of its factors.
LEMMA ProductMonotone ==
    ASSUME NEW U, IsFiniteSet(U), NEW v \in Nat, NEW w \in Nat, v <= w,
           NEW e \in [U -> Nat], NEW f \in [U -> Nat], \A x \in U : e[x] <= f[x]
    PROVE  /\ Product(v, e) \in Nat /\ Product(w, f) \in Nat
           /\ Product(v, e) <= Product(w, f)
<1>1. PICK g : IsProducts(g, v, e, U) /\ Product(v, e) = g[U]
  BY ProductInAnyOrder
<1>2. PICK h : IsProducts(h, w, f, U) /\ Product(w, f) = h[U]
  BY ProductInAnyOrder
<1> DEFINE A == {s \in SUBSET U : 0 <= g[s] /\ g[s] <= h[s]}
<1>3. ASSUME NEW s \in SUBSET U, \A t \in SUBSET s : t # s => t \in A
      PROVE  s \in A
  <2>1. CASE s = {}
    BY <1>1, <1>2, <2>1 DEF IsProducts
  <2>2. ASSUME NEW x \in s PROVE s \in A
    <3>1. g[s] = e[x] * g[s \ {x}] /\ h[s] = f[x] * h[s \ {x}]
      BY <1>1, <1>2 DEF IsProducts
    <3>2. /\ e[x] \in Nat /\ f[x] \in Nat /\ e[x] <= f[x]
          /\ g[s \ {x}] \in Int /\ h[s \ {x}] \in Int
      BY <1>1, <1>2 DEF IsProducts
    <3>3. /\ g[s \ {x}] <= h[s \ {x}]
          /\ g[s \ {x}] \in Nat /\ h[s \ {x}] \in Nat
      BY <1>3, <3>2
    <3>4. \A a, b, c, d \in Nat : a <= b /\ c <= d => 0 <= a * c /\ a * c <= b * d
      <4>1. ASSUME NEW a \in Nat, NEW b \in Nat, NEW c \in Nat, NEW d \in Nat, a <= b, c <= d
            PROVE  0 <= a * c /\ a * c <= b * d
        <5>1. a * c <= b * c
          BY <4>1
        <5>2. b * c <= b * d
          BY <4>1
        <5>3. a * c \in Nat /\ b * c \in Nat /\ b * d \in Nat
          OBVIOUS
        <5> QED BY <5>1, <5>2, <5>3
      <4> QED BY <4>1
    <3> QED BY <3>1, <3>2, <3>3, <3>4
  <2> QED BY <2>1, <2>2
<1> HIDE DEF A
<1>4. SUBSET U \subseteq A
  BY <1>3, SubsetInduction
<1> QED BY <1>1, <1>2, <1>4 DEF A, IsProducts

\* The weight is a factor of the product.
LEMMA ProductScales ==
    ASSUME NEW U, IsFiniteSet(U), NEW v \in Int, NEW f \in [U -> Int]
    PROVE  Product(v, f) = v * Product(1, f)
<1>1. PICK g : IsProducts(g, v, f, U) /\ Product(v, f) = g[U]
  BY ProductInAnyOrder
<1>2. PICK h : IsProducts(h, 1, f, U) /\ Product(1, f) = h[U]
  BY ProductInAnyOrder
<1> DEFINE A == {s \in SUBSET U : g[s] = v * h[s]}
<1>3. ASSUME NEW s \in SUBSET U, \A t \in SUBSET s : t # s => t \in A
      PROVE  s \in A
  <2>1. CASE s = {}
    BY <1>1, <1>2, <2>1 DEF IsProducts
  <2>2. ASSUME NEW x \in s PROVE s \in A
    <3> DEFINE gt == g[s \ {x}]
               ht == h[s \ {x}]
    <3>1. g[s] = f[x] * gt /\ h[s] = f[x] * ht /\ gt \in Int /\ ht \in Int
      BY <1>1, <1>2 DEF IsProducts
    <3>2. gt = v * ht /\ f[x] \in Int
      BY <1>3
    <3> HIDE DEF gt, ht, A
    <3>3. \A a, b \in Int : a * (v * b) = v * (a * b)
      OBVIOUS
    <3>4. g[s] = v * h[s]
      BY <3>1, <3>2, <3>3
    <3> QED BY <3>4 DEF A
  <2> QED BY <2>1, <2>2
<1> HIDE DEF A
<1>4. SUBSET U \subseteq A
  BY <1>3, SubsetInduction
<1> QED BY <1>1, <1>2, <1>4 DEF A

-----------------------------------------------------------------------------
\* Factors.

LEMMA RemainingTyped ==
    ASSUME NEW a \in Log, NEW n \in NodeId
    PROVE  Remaining(a, n) \in [PenaltyEventId -> Int]
<1>1. ASSUME NEW id \in PenaltyIds(a, n) PROVE Scale - a.events[id].severity \in Int
  <2>1. a.events[id] \in PenaltyEvent
    BY DEF PenaltyIds, Log
  <2>2. a.events[id].severity \in Int
    BY <2>1, ScaleAssumption DEF PenaltyEvent
  <2> QED BY <2>2, ScaleAssumption
<1> QED BY <1>1, ScaleAssumption DEF Remaining

\* Severities in [0, 1] leave factors in [0, 1].
LEMMA RemainingInRange ==
    ASSUME NEW a \in Log, NEW n \in NodeId, InRange(a, n), NEW id \in PenaltyEventId
    PROVE  Remaining(a, n)[id] \in 0 .. Scale
<1>1. CASE id \in PenaltyIds(a, n)
  <2>1. a.events[id].severity \in 0 .. Scale
    BY <1>1 DEF InRange, GetPenalties
  <2> QED BY <1>1, <2>1, ScaleAssumption DEF Remaining
<1>2. CASE id \notin PenaltyIds(a, n)
  BY <1>2, ScaleAssumption DEF Remaining
<1> QED BY <1>1, <1>2

\* The ids that count against a node, in a coherent log.
LEMMA PenaltyIdsCoherent ==
    ASSUME NEW a \in Log, Coherent(a), NEW n \in NodeId, NEW id \in PenaltyEventId
    PROVE  id \in PenaltyIds(a, n) <=> a.events[id] # NoEvent /\ a.events[id].target = n
  BY DEF PenaltyIds, Coherent

\* The events against a node, in a coherent log.
LEMMA PenaltiesCoherent ==
    ASSUME NEW a \in Log, Coherent(a), NEW n \in NodeId
    PROVE  GetPenalties(a, n) = {e \in AllEvents(a) : e.target = n}
<1>1. PenaltyIds(a, n) = {id \in PenaltyEventId : a.events[id] # NoEvent /\ a.events[id].target = n}
  BY PenaltyIdsCoherent DEF PenaltyIds, Log
<1> QED BY <1>1 DEF GetPenalties, AllEvents

\* What a log that knows more against a node has under an id.
LEMMA KnownPenaltyKept ==
    ASSUME NEW a \in Log, NEW b \in Log, Coherent(a), Coherent(b), NEW n \in NodeId,
           GetPenalties(a, n) \subseteq GetPenalties(b, n), NEW id \in PenaltyIds(a, n)
    PROVE  id \in PenaltyIds(b, n) /\ b.events[id] = a.events[id]
<1>1. id \in PenaltyEventId /\ a.events[id].event_id = id
  BY DEF PenaltyIds, Log, Coherent
<1>2. PICK j \in PenaltyIds(b, n) : b.events[j] = a.events[id]
  BY DEF GetPenalties
<1>3. b.events[j].event_id = j
  BY DEF PenaltyIds, Log, Coherent
<1> QED BY <1>1, <1>2, <1>3

\* Logs that know the same penalties of a node leave the same of its factor.
LEMMA SameRemaining ==
    ASSUME NEW a \in Log, NEW b \in Log, Coherent(a), Coherent(b), NEW n \in NodeId,
           GetPenalties(a, n) = GetPenalties(b, n)
    PROVE  Remaining(a, n) = Remaining(b, n)
<1>1. ASSUME NEW id \in PenaltyIds(a, n)
      PROVE  id \in PenaltyIds(b, n) /\ b.events[id] = a.events[id]
  BY KnownPenaltyKept
<1>2. ASSUME NEW id \in PenaltyIds(b, n) PROVE id \in PenaltyIds(a, n)
  BY KnownPenaltyKept
<1> QED BY <1>1, <1>2 DEF Remaining

\* More events against a node and less growth make a smaller product, as long
\* as the severities are in [0, 1].
LEMMA FactorShrinks ==
    ASSUME NEW a \in Log, NEW b \in Log, Coherent(a), Coherent(b), NEW n \in NodeId,
           GetPenalties(a, n) \subseteq GetPenalties(b, n), InRange(b, n),
           NEW v \in Nat, NEW w \in Nat, v <= w
    PROVE  /\ WeightedFactor(v, b, n) \in Nat /\ WeightedFactor(w, a, n) \in Nat
           /\ WeightedFactor(v, b, n) <= WeightedFactor(w, a, n)
<1>0. /\ \A id \in PenaltyEventId : Remaining(a, n)[id] \in 0 .. Scale
      /\ \A id \in PenaltyEventId : Remaining(b, n)[id] \in 0 .. Scale
  <2>1. InRange(a, n)
    BY DEF InRange
  <2> QED BY <2>1, RemainingInRange
<1>1. ASSUME NEW id \in PenaltyEventId PROVE Remaining(b, n)[id] <= Remaining(a, n)[id]
  <2>1. CASE id \in PenaltyIds(a, n)
    <3>1. id \in PenaltyIds(b, n) /\ b.events[id] = a.events[id]
      BY <2>1, KnownPenaltyKept
    <3>2. Remaining(b, n)[id] = Remaining(a, n)[id]
      BY <2>1, <3>1 DEF Remaining
    <3> QED BY <3>2, <1>0, ScaleAssumption
  <2>2. CASE id \notin PenaltyIds(a, n)
    <3>1. Remaining(a, n)[id] = Scale
      BY <2>2 DEF Remaining
    <3> QED BY <3>1, <1>0, ScaleAssumption
  <2> QED BY <2>1, <2>2
<1>2. /\ Remaining(a, n) \in [PenaltyEventId -> Nat]
      /\ Remaining(b, n) \in [PenaltyEventId -> Nat]
  <2>1. \A k \in 0 .. Scale : k \in Nat
    BY ScaleAssumption
  <2> QED BY <1>0, <2>1, RemainingTyped
<1> QED BY <1>1, <1>2, ProductMonotone, IdAssumption DEF WeightedFactor

\* No step takes an event from a log, or breaks its two maps.
LEMMA LogsGrow ==
    ASSUME UniqueIds, GossipInv, GossipTypeOK', [GossipNext]_gossipVars, NEW r \in Replica
    PROVE  /\ log[r] \in Log /\ Coherent(log[r])
           /\ log'[r] \in Log /\ Coherent(log'[r])
           /\ AllEvents(log[r]) \subseteq AllEvents(log'[r])
           /\ \A n \in NodeId : GetPenalties(log[r], n) \subseteq GetPenalties(log'[r], n)
<1>1. log[r] \in Log /\ Coherent(log[r]) /\ log'[r] \in Log
  BY DEF GossipInv, GossipTypeOK, IndexCoherent
<1>2. ASSUME NEW q \in Replica, NEW e \in Evidence, Observe(q, e)
      PROVE  Coherent(log'[r]) /\ AllEvents(log[r]) \subseteq AllEvents(log'[r])
  BY <1>2, StepEvents
<1>3. ASSUME NEW m \in inflight, Deliver(m)
      PROVE  Coherent(log'[r]) /\ AllEvents(log[r]) \subseteq AllEvents(log'[r])
  BY <1>3, StepEvents
<1>4. ASSUME log' = log
      PROVE  Coherent(log'[r]) /\ AllEvents(log[r]) \subseteq AllEvents(log'[r])
  BY <1>1, <1>4
<1>5. Coherent(log'[r]) /\ AllEvents(log[r]) \subseteq AllEvents(log'[r])
  BY <1>1, <1>2, <1>3, <1>4 DEF GossipNext, Gossip, Drop, gossipVars
<1> QED BY <1>1, <1>5, PenaltiesCoherent

\* No insert and no merge, however stale the snapshot, raises the factor of a
\* node whose penalties are in [0, 1] at the replica.
THEOREM InflationResistance ==
    ASSUME UniqueIds PROVE GossipSpec => InflationResistant
<1>1. GossipInv /\ GossipTypeOK' /\ [GossipNext]_gossipVars =>
         \A r \in Replica, n \in NodeId :
            InRange(log'[r], n) => PenaltyFactor(log'[r], n) <= PenaltyFactor(log[r], n)
  BY LogsGrow, FactorShrinks DEF PenaltyFactor
<1> QED BY <1>1, GossipInvariant, GossipTyped, PTL DEF GossipSpec, InflationResistant

-----------------------------------------------------------------------------
\* Each known event counts once.

LEMMA MulFacts ==
    /\ \A a, b \in Nat : a * b \in Nat
    /\ \A a, b, c, d, x \in Int : a * b = c * d => (x * a) * b = (x * c) * d
<1>1. \A a, b \in Nat : a * b \in Nat
  OBVIOUS
<1>2. ASSUME NEW a \in Int, NEW b \in Int, NEW c \in Int, NEW d \in Int,
             NEW x \in Int, a * b = c * d
      PROVE  (x * a) * b = (x * c) * d
  <2>1. (x * a) * b = x * (a * b) /\ (x * c) * d = x * (c * d)
    OBVIOUS
  <2> QED BY <1>2, <2>1
<1> QED BY <1>1, <1>2

\* The product over the ids, read through the two maps of a log, is the one
\* over the events.
LEMMA FactorIsOverEvents ==
    ASSUME NEW a \in Log, Coherent(a), NEW n \in NodeId
    PROVE  LET known == {e \in AllEvents(a) : e.target = n}
           IN  PenaltyFactor(a, n) * Product(1, [e \in known |-> Scale])
                  = FullFactor * Product(1, [e \in known |-> Scale - e.severity])
<1> DEFINE known == {e \in AllEvents(a) : e.target = n}
           ids == PenaltyIds(a, n)
           full == [id \in PenaltyEventId |-> Scale]
           one == [e \in known |-> Scale]
           rest == [e \in known |-> Scale - e.severity]
           of(s) == {a.events[id] : id \in s \cap ids}
<1>1. \A id \in PenaltyEventId : id \in ids <=> a.events[id] # NoEvent /\ a.events[id].target = n
  BY PenaltyIdsCoherent
<1>2. \A id \in PenaltyEventId : id \in ids => a.events[id] \in known /\ a.events[id].event_id = id
  BY <1>1 DEF AllEvents, Coherent
<1>3. IsFiniteSet(known)
  <2> DEFINE f == [id \in ids |-> a.events[id]]
  <2>1. ids \in SUBSET PenaltyEventId
    BY DEF PenaltyIds, Log
  <2>2. IsFiniteSet(ids)
    BY <2>1, FS_Subset, IdAssumption
  <2>3. f \in Surjection(ids, known)
    <3>1. \A e \in known : \E id \in ids : a.events[id] = e
      BY <1>1 DEF AllEvents
    <3> QED BY <1>2, <2>1, <3>1 DEF Surjection
  <2> HIDE DEF f, ids, known
  <2> QED BY <2>2, <2>3, FS_Surjection
<1>4. known \subseteq PenaltyEvent /\ Scale \in Int
      /\ \A e \in known : Scale - e.severity \in Int
  <2>1. known \subseteq PenaltyEvent
    BY DEF AllEvents, Log
  <2>2. \A e \in known : e.severity \in Int
    BY <2>1, ScaleAssumption DEF PenaltyEvent
  <2> QED BY <2>1, <2>2, ScaleAssumption
<1>5. /\ full \in [PenaltyEventId -> Int] /\ one \in [known -> Int] /\ rest \in [known -> Int]
      /\ Remaining(a, n) \in [PenaltyEventId -> Int]
  BY <1>4, RemainingTyped
<1> HIDE DEF known, full, one, rest, ids
<1>6. PICK g : IsProducts(g, 1, Remaining(a, n), PenaltyEventId)
               /\ Product(1, Remaining(a, n)) = g[PenaltyEventId]
  BY <1>5, ProductInAnyOrder, IdAssumption
<1>7. PICK h : IsProducts(h, 1, full, PenaltyEventId) /\ Product(1, full) = h[PenaltyEventId]
  BY <1>5, ProductInAnyOrder, IdAssumption
<1>8. PICK p : IsProducts(p, 1, one, known) /\ Product(1, one) = p[known]
  BY <1>3, <1>5, ProductInAnyOrder
<1>9. PICK q : IsProducts(q, 1, rest, known) /\ Product(1, rest) = q[known]
  BY <1>3, <1>5, ProductInAnyOrder
<1>10. \A s \in SUBSET PenaltyEventId : of(s) \in SUBSET known
  BY <1>2
<1> DEFINE A == {s \in SUBSET PenaltyEventId : g[s] * p[of(s)] = h[s] * q[of(s)]}
<1>11. ASSUME NEW s \in SUBSET PenaltyEventId, \A t \in SUBSET s : t # s => t \in A
       PROVE  s \in A
  <2>1. CASE s = {}
    <3>1. of(s) = {}
      BY <2>1
    <3> QED BY <2>1, <3>1, <1>6, <1>7, <1>8, <1>9 DEF IsProducts
  <2>2. ASSUME NEW x \in s PROVE s \in A
    <3> DEFINE t == s \ {x}
    <3>1. /\ g[s] = Remaining(a, n)[x] * g[t] /\ h[s] = full[x] * h[t]
          /\ g[t] \in Int /\ h[t] \in Int
      BY <1>6, <1>7 DEF IsProducts
    <3>2. full[x] = Scale
      BY DEF full
    <3>3. p[of(t)] \in Int /\ q[of(t)] \in Int
      <4>1. of(t) \in SUBSET known
        BY <1>10
      <4> HIDE DEF of
      <4> QED BY <4>1, <1>8, <1>9 DEF IsProducts
    <3>4. g[t] * p[of(t)] = h[t] * q[of(t)]
      BY <1>11
    <3>5. CASE x \in ids
      <4> DEFINE e == a.events[x]
      <4>1. e \in known /\ e \in of(s) /\ of(s) \in SUBSET known
        BY <1>2, <1>10, <3>5
      <4>2. of(s) \ {e} = of(t)
        <5> HIDE DEF A
        <5>1. ASSUME NEW id \in s \cap ids PROVE a.events[id] = e <=> id = x
          <6>1. a.events[id].event_id = id /\ a.events[x].event_id = x
            BY <1>2, <3>5
          <6> QED BY <6>1
        <5> QED BY <5>1
      <4>3. p[of(s)] = one[e] * p[of(s) \ {e}] /\ q[of(s)] = rest[e] * q[of(s) \ {e}]
        <5> HIDE DEF of, e
        <5> QED BY <4>1, <1>8, <1>9 DEF IsProducts
      <4>4. one[e] = Scale /\ rest[e] = Scale - e.severity
        <5> HIDE DEF e
        <5> QED BY <4>1 DEF one, rest
      <4>5. Remaining(a, n)[x] = Scale - e.severity /\ Scale - e.severity \in Int
        BY <3>5, <4>1, <1>4 DEF Remaining, ids
      <4> HIDE DEF of, e, t
      <4>6. /\ g[s] = (Scale - e.severity) * g[t] /\ h[s] = Scale * h[t]
            /\ p[of(s)] = Scale * p[of(t)] /\ q[of(s)] = (Scale - e.severity) * q[of(t)]
        BY <3>1, <3>2, <4>2, <4>3, <4>4, <4>5
      <4> HIDE DEF A
      <4>7. ((Scale - e.severity) * g[t]) * (Scale * p[of(t)])
               = (Scale * h[t]) * ((Scale - e.severity) * q[of(t)])
        <5> DEFINE y == Scale - e.severity
        <5>1. y \in Int
          BY <4>5
        <5>2. g[t] \in Int /\ h[t] \in Int /\ Scale \in Int
          BY <3>1, <1>4
        <5>3. \A b, c, d, z \in Int :
                 b * c = d * z => (y * b) * (Scale * c) = (Scale * d) * (y * z)
          <6>1. y \in Int /\ Scale \in Int
            BY <5>1, <5>2
          <6> HIDE DEF y
          <6>2. \A b, c, d, z \in Int :
                   /\ (y * b) * (Scale * c) = (y * Scale) * (b * c)
                   /\ (Scale * d) * (y * z) = (y * Scale) * (d * z)
            BY <6>1
          <6> QED BY <6>2
        <5> HIDE DEF y
        <5>4. (y * g[t]) * (Scale * p[of(t)]) = (Scale * h[t]) * (y * q[of(t)])
          <6> DEFINE b == g[t]
                     c == p[of(t)]
                     d == h[t]
                     z == q[of(t)]
          <6>1. b \in Int /\ c \in Int /\ d \in Int /\ z \in Int /\ b * c = d * z
            BY <3>3, <3>4, <5>2
          <6> HIDE DEF b, c, d, z
          <6>2. (y * b) * (Scale * c) = (Scale * d) * (y * z)
            BY <5>3, <6>1
          <6> QED BY <6>2 DEF b, c, d, z
        <5> QED BY <5>4 DEF y
      <4>8. g[s] * p[of(s)] = h[s] * q[of(s)]
        BY <4>6, <4>7
      <4> QED BY <4>8 DEF A
    <3>6. CASE x \notin ids
      <4>1. of(s) = of(t)
        BY <3>6
      <4>2. Remaining(a, n)[x] = Scale
        BY <3>6 DEF Remaining, ids
      <4> HIDE DEF of, t, A
      <4>3. g[s] = Scale * g[t] /\ h[s] = Scale * h[t]
        BY <3>1, <3>2, <4>2
      <4>4. g[s] * p[of(s)] = h[s] * q[of(s)]
        <5> DEFINE b == g[t]
                   c == p[of(t)]
                   d == h[t]
                   z == q[of(t)]
        <5>1. b \in Int /\ c \in Int /\ d \in Int /\ z \in Int /\ b * c = d * z
          BY <3>1, <3>3, <3>4
        <5>2. /\ g[s] = Scale * b /\ h[s] = Scale * d
              /\ p[of(s)] = c /\ q[of(s)] = z
          BY <4>1, <4>3
        <5> HIDE DEF b, c, d, z
        <5>3. (Scale * b) * c = (Scale * d) * z
          BY <5>1, <1>4, MulFacts
        <5> QED BY <5>2, <5>3
      <4> QED BY <4>4 DEF A
    <3> QED BY <3>5, <3>6
  <2> QED BY <2>1, <2>2
<1>12. PenaltyEventId \in A
  <2> HIDE DEF A
  <2>1. SUBSET PenaltyEventId \subseteq A
    BY <1>11, SubsetInduction, IdAssumption
  <2> QED BY <2>1
<1>13. of(PenaltyEventId) = known
  <2>1. of(PenaltyEventId) \subseteq known
    BY <1>10
  <2>2. ASSUME NEW e \in known PROVE e \in of(PenaltyEventId)
    <3>1. PICK id \in PenaltyEventId : a.events[id] = e /\ e # NoEvent /\ e.target = n
      BY DEF known, AllEvents
    <3> QED BY <3>1, <1>1
  <2> QED BY <2>1, <2>2
<1>14. g[PenaltyEventId] * p[known] = h[PenaltyEventId] * q[known]
  <2> HIDE DEF of
  <2> QED BY <1>12, <1>13
<1>15. PenaltyFactor(a, n) = g[PenaltyEventId] /\ FullFactor = h[PenaltyEventId]
  BY <1>6, <1>7 DEF PenaltyFactor, WeightedFactor, FullFactor, full
<1>16. PenaltyFactor(a, n) * Product(1, one) = FullFactor * Product(1, rest)
  BY <1>8, <1>9, <1>14, <1>15
<1> QED BY <1>16 DEF known, one, rest

\* Each known event counts once, against the node that it names.
THEOREM FactorExact == ASSUME UniqueIds PROVE GossipSpec => []FactorOfKnownEvents
<1>1. GossipInv => FactorOfKnownEvents
  BY FactorIsOverEvents DEF GossipInv, GossipTypeOK, IndexCoherent, FactorOfKnownEvents
<1> QED BY <1>1, GossipInvariant, PTL

-----------------------------------------------------------------------------
\* Reputation.

\* Observers that count relays gossip as if they did not.
LEMMA ReputationGossips == Spec => GossipSpec
<1>1. Init => GossipInit
  BY DEF Init
<1>2. [Next]_vars => [GossipNext]_gossipVars
  BY DEF Next, vars, RecordVerifiedRelay, gossipVars
<1> QED BY <1>1, <1>2, PTL DEF Spec, GossipSpec

\* Type correctness; in particular no count exceeds its bound.
THEOREM ReputationTyped == Spec => []TypeOK
<1> DEFINE CountsOK == local_relay_counts \in [Replica -> [NodeId -> 0 .. MaxRelays]]
<1>1. Init => CountsOK
  BY GrowthAssumption DEF Init
<1>2. CountsOK /\ [Next]_vars => CountsOK'
  <2> SUFFICES ASSUME CountsOK, [Next]_vars PROVE CountsOK'
    OBVIOUS
  <2>1. ASSUME NEW r \in Replica, NEW n \in NodeId, RecordVerifiedRelay(r, n) PROVE CountsOK'
    <3>1. local_relay_counts[r][n] + 1 \in 0 .. MaxRelays
      BY <2>1, GrowthAssumption DEF RecordVerifiedRelay
    <3> QED BY <2>1, <3>1 DEF RecordVerifiedRelay
  <2> QED BY <2>1 DEF Next, vars
<1>3. GossipTypeOK /\ CountsOK => TypeOK
  BY DEF TypeOK
<1> QED BY <1>1, <1>2, <1>3, ReputationGossips, GossipTyped, PTL DEF Spec

\* A step changes a count by recording one relay, and then no log.
LEMMA CountsStep ==
    ASSUME TypeOK, TypeOK', [Next]_vars, NEW r \in Replica, NEW n \in NodeId
    PROVE  LET k == local_relay_counts[r][n]
           IN  /\ k \in 0 .. MaxRelays /\ local_relay_counts'[r][n] \in 0 .. MaxRelays
               /\ local_relay_counts'[r][n] = k \/ local_relay_counts'[r][n] = k + 1
<1>1. ASSUME NEW q \in Replica, NEW m \in NodeId, RecordVerifiedRelay(q, m)
      PROVE  \/ local_relay_counts'[r][n] = local_relay_counts[r][n]
             \/ local_relay_counts'[r][n] = local_relay_counts[r][n] + 1
  BY <1>1 DEF RecordVerifiedRelay, TypeOK
<1> QED BY <1>1 DEF Next, vars, TypeOK

LEMMA GrowthMonotone ==
    \A j, k \in 0 .. MaxRelays : j <= k =>
        Growth[j] \in Nat /\ Growth[k] \in 0 .. Scale /\ Growth[j] <= Growth[k]
  BY GrowthAssumption, ScaleAssumption

LEMMA FullFactorTyped == FullFactor \in Nat \ {0} /\ RMin * FullFactor \in Nat \ {0}
<1> DEFINE full == [id \in PenaltyEventId |-> Scale]
<1>1. full \in [PenaltyEventId -> Int] /\ Scale \in Nat \ {0}
  BY ScaleAssumption
<1>2. PICK h : IsProducts(h, 1, full, PenaltyEventId) /\ Product(1, full) = h[PenaltyEventId]
  BY <1>1, ProductInAnyOrder, IdAssumption
<1> DEFINE A == {s \in SUBSET PenaltyEventId : h[s] \in Nat \ {0}}
<1>3. ASSUME NEW s \in SUBSET PenaltyEventId, \A t \in SUBSET s : t # s => t \in A
      PROVE  s \in A
  <2>1. CASE s = {}
    BY <1>2, <2>1 DEF IsProducts
  <2>2. ASSUME NEW x \in s PROVE s \in A
    <3> DEFINE ht == h[s \ {x}]
    <3>1. h[s] = Scale * ht
      BY <1>2 DEF IsProducts
    <3>2. ht \in Nat \ {0}
      BY <1>3
    <3> HIDE DEF ht, A
    <3>3. Scale * ht \in Nat \ {0}
      BY <1>1, <3>2
    <3> QED BY <3>1, <3>3 DEF A
  <2> QED BY <2>1, <2>2
<1> HIDE DEF A
<1>4. PenaltyEventId \in A
  BY <1>3, SubsetInduction, IdAssumption
<1>5. FullFactor \in Nat \ {0}
  BY <1>2, <1>4 DEF A, FullFactor
<1>6. RMin \in Nat \ {0}
  BY GrowthAssumption, ScaleAssumption
<1> QED BY <1>5, <1>6

\* Growth is never merged: only a relay that the observer itself recorded lifts
\* a node, whose known penalties are in [0, 1], into its reputable set.
THEOREM OwnWitnessOnly == ASSUME UniqueIds PROVE Spec => OnlyOwnWitnessRaises
<1> DEFINE OK == GossipInv /\ TypeOK
<1>1. OK /\ OK' /\ [Next]_vars /\ [GossipNext]_gossipVars =>
         \A r \in Replica, n \in NodeId :
            InRange(log'[r], n) /\ ~IsReputable(r, n) /\ IsReputable(r, n)' =>
                local_relay_counts'[r][n] = local_relay_counts[r][n] + 1
  <2> SUFFICES ASSUME OK, OK', [Next]_vars, [GossipNext]_gossipVars,
                      NEW r \in Replica, NEW n \in NodeId, InRange(log'[r], n),
                      ~IsReputable(r, n), IsReputable(r, n)',
                      local_relay_counts'[r][n] = local_relay_counts[r][n]
               PROVE  FALSE
    BY CountsStep
  <2> DEFINE v == Growth[local_relay_counts[r][n]]
             old == WeightedFactor(v, log[r], n)
             new == WeightedFactor(v, log'[r], n)
  <2>1. v \in Nat
    BY CountsStep, GrowthMonotone
  <2>2. old \in Nat /\ new \in Nat /\ new <= old
    <3>1. /\ log[r] \in Log /\ Coherent(log[r]) /\ log'[r] \in Log /\ Coherent(log'[r])
          /\ GetPenalties(log[r], n) \subseteq GetPenalties(log'[r], n)
      BY LogsGrow DEF TypeOK
    <3> HIDE DEF v
    <3>2. v <= v
      BY <2>1
    <3> QED BY <2>1, <3>1, <3>2, FactorShrinks
  <2>3. ~ (old >= RMin * FullFactor) /\ new >= RMin * FullFactor
    BY DEF IsReputable, ComputeReputation
  <2> HIDE DEF old, new
  <2> QED BY <2>2, <2>3, FullFactorTyped
<1> QED BY <1>1, ReputationGossips, GossipInvariant, ReputationTyped, PTL
        DEF Spec, GossipSpec, OnlyOwnWitnessRaises

\* Only a new penalty against the node itself takes it out of the reputable
\* set of an observer, whatever the severities are.
THEOREM NewPenaltyOnly == ASSUME UniqueIds PROVE Spec => OnlyNewPenaltyLowers
<1> DEFINE OK == GossipInv /\ TypeOK
<1>1. OK /\ OK' /\ [Next]_vars /\ [GossipNext]_gossipVars =>
         \A r \in Replica, n \in NodeId :
            IsReputable(r, n) /\ ~IsReputable(r, n)' =>
                GetPenalties(log[r], n) \subseteq GetPenalties(log'[r], n)
                /\ GetPenalties(log[r], n) # GetPenalties(log'[r], n)
  <2> SUFFICES ASSUME OK, OK', [Next]_vars, [GossipNext]_gossipVars,
                      NEW r \in Replica, NEW n \in NodeId,
                      IsReputable(r, n), ~IsReputable(r, n)',
                      GetPenalties(log[r], n) = GetPenalties(log'[r], n)
               PROVE  FALSE
    BY LogsGrow DEF TypeOK
  <2> DEFINE v == Growth[local_relay_counts[r][n]]
             w == Growth[local_relay_counts'[r][n]]
             f == Remaining(log[r], n)
             p == Product(1, f)
  <2>1. v \in Nat /\ w \in Nat /\ v <= w
    BY CountsStep, GrowthMonotone
  <2>2. Remaining(log'[r], n) = f
    BY LogsGrow, SameRemaining DEF TypeOK
  <2>3. f \in [PenaltyEventId -> Int]
    BY LogsGrow, RemainingTyped DEF TypeOK
  <2>4. Product(v, f) >= RMin * FullFactor /\ ~ (Product(w, f) >= RMin * FullFactor)
    BY <2>2 DEF IsReputable, ComputeReputation, WeightedFactor
  <2> HIDE DEF v, w, f
  <2>5. Product(v, f) = v * p /\ Product(w, f) = w * p /\ p \in Int
    BY <2>1, <2>3, ProductScales, ProductTyped, IdAssumption
  <2> HIDE DEF p
  <2>6. v * p > 0
    BY <2>1, <2>4, <2>5, FullFactorTyped
  <2>7. p > 0
    BY <2>1, <2>5, <2>6
  <2>8. v * p <= w * p
    BY <2>1, <2>5, <2>7
  <2> QED BY <2>1, <2>4, <2>5, <2>8, FullFactorTyped
<1> QED BY <1>1, ReputationGossips, GossipInvariant, ReputationTyped, PTL
        DEF Spec, GossipSpec, OnlyNewPenaltyLowers

\* A factor below RMin keeps the product below it, whatever the other factors
\* and whatever growth the product starts from.
LEMMA SmallFactorDecides ==
    ASSUME NEW w \in 0 .. Scale, NEW f \in [PenaltyEventId -> 0 .. Scale],
           NEW x \in PenaltyEventId, f[x] < RMin
    PROVE  Product(w, f) < RMin * FullFactor
<1> DEFINE full == [id \in PenaltyEventId |-> Scale]
<1>1. Scale \in Nat /\ Scale > 0 /\ w \in Nat /\ w <= Scale
      /\ full \in [PenaltyEventId -> Nat] /\ f \in [PenaltyEventId -> Nat]
  BY ScaleAssumption
<1>2. PICK g : IsProducts(g, w, f, PenaltyEventId) /\ Product(w, f) = g[PenaltyEventId]
  BY <1>1, ProductInAnyOrder, IdAssumption
<1>3. PICK h : IsProducts(h, 1, full, PenaltyEventId) /\ Product(1, full) = h[PenaltyEventId]
  BY <1>1, ProductInAnyOrder, IdAssumption
<1> DEFINE B == {s \in SUBSET PenaltyEventId :
                    0 <= g[s] /\ g[s] <= Scale * h[s] /\ h[s] > 0}
<1>4. ASSUME NEW s \in SUBSET PenaltyEventId, \A t \in SUBSET s : t # s => t \in B
      PROVE  s \in B
  <2>1. CASE s = {}
    BY <1>1, <1>2, <1>3, <2>1 DEF IsProducts
  <2>2. ASSUME NEW y \in s PROVE s \in B
    <3> DEFINE gt == g[s \ {y}]
               ht == h[s \ {y}]
    <3>0. g[s] = f[y] * gt /\ h[s] = Scale * ht /\ gt \in Int /\ ht \in Int
      BY <1>2, <1>3 DEF IsProducts
    <3>2. 0 <= gt /\ gt <= Scale * ht /\ ht > 0
      BY <1>4
    <3>1. g[s] = f[y] * gt /\ h[s] = Scale * ht /\ gt \in Nat /\ ht \in Nat
      BY <3>0, <3>2
    <3>3. f[y] \in Nat /\ f[y] <= Scale
      BY <1>1
    <3> HIDE DEF gt, ht, B
    <3>4. Scale * ht \in Nat /\ Scale * ht > 0
      BY <1>1, <3>1, <3>2
    <3>5. 0 <= f[y] * gt /\ f[y] * gt <= Scale * (Scale * ht)
      <4>1. f[y] * gt <= Scale * gt
        BY <1>1, <3>1, <3>3
      <4>2. Scale * gt <= Scale * (Scale * ht)
        BY <1>1, <3>1, <3>2, <3>4
      <4> QED BY <1>1, <3>1, <3>3, <3>4, <4>1, <4>2, MulFacts
    <3> QED BY <3>1, <3>4, <3>5 DEF B
  <2> QED BY <2>1, <2>2
<1>5. SUBSET PenaltyEventId \subseteq B
  <2> HIDE DEF B
  <2> QED BY <1>4, SubsetInduction, IdAssumption
<1> DEFINE gt == g[PenaltyEventId \ {x}]
           ht == h[PenaltyEventId \ {x}]
<1>6. /\ g[PenaltyEventId] = f[x] * gt /\ h[PenaltyEventId] = Scale * ht
      /\ gt \in Nat /\ ht \in Nat /\ gt <= Scale * ht /\ ht > 0
  <2>1. /\ g[PenaltyEventId] = f[x] * gt /\ h[PenaltyEventId] = Scale * ht
        /\ gt \in Int /\ ht \in Int
    BY <1>2, <1>3 DEF IsProducts
  <2>2. 0 <= gt /\ gt <= Scale * ht /\ ht > 0
    BY <1>5
  <2> HIDE DEF gt, ht, B
  <2> QED BY <2>1, <2>2
<1> HIDE DEF gt, ht, B
<1>7. f[x] * gt <= f[x] * (Scale * ht)
  BY <1>1, <1>6
<1>8. Scale * ht \in Nat /\ Scale * ht > 0
  BY <1>1, <1>6
<1>9. f[x] * (Scale * ht) < RMin * (Scale * ht)
  <2>1. \A a, b, c \in Nat : a < b /\ c > 0 => a * c < b * c
    OBVIOUS
  <2> QED BY <1>1, <1>8, <2>1, GrowthAssumption
<1>10. f[x] * gt < RMin * (Scale * ht)
  <2>1. f[x] \in Nat /\ RMin \in Nat
    BY <1>1, GrowthAssumption
  <2>2. f[x] * gt \in Nat /\ f[x] * (Scale * ht) \in Nat /\ RMin * (Scale * ht) \in Nat
    BY <1>6, <1>8, <2>1, MulFacts
  <2> QED BY <1>7, <1>9, <2>2
<1> QED BY <1>2, <1>3, <1>6, <1>10 DEF FullFactor

\* A node of which an observer knows a grave penalty is not reputable to it,
\* whatever it relayed and whatever else is known of it, as long as what is
\* known is in [0, 1].
THEOREM GraveDecides == ASSUME UniqueIds PROVE Spec => []GraveOutweighsGrowth
<1>1. GossipInv /\ TypeOK => GraveOutweighsGrowth
  <2> SUFFICES ASSUME GossipInv, TypeOK, NEW r \in Replica,
                      NEW e \in AllEvents(log[r]), Grave(e), InRange(log[r], e.target)
               PROVE  ~IsReputable(r, e.target)
    BY DEF GraveOutweighsGrowth
  <2>1. log[r] \in Log /\ Coherent(log[r])
    BY DEF GossipInv, TypeOK, GossipTypeOK, IndexCoherent
  <2>2. PICK id \in PenaltyEventId : log[r].events[id] = e /\ e # NoEvent
    BY DEF AllEvents
  <2>3. e \in PenaltyEvent
    BY <2>1, <2>2 DEF Log
  <2>4. e.target \in NodeId
    BY <2>3 DEF PenaltyEvent
  <2> DEFINE f == Remaining(log[r], e.target)
             w == Growth[local_relay_counts[r][e.target]]
  <2>5. f \in [PenaltyEventId -> 0 .. Scale]
    BY <2>1, <2>4, RemainingTyped, RemainingInRange
  <2>6. f[id] < RMin
    BY <2>1, <2>2, <2>4, PenaltyIdsCoherent DEF Remaining, Grave
  <2>7. w \in 0 .. Scale
    BY <2>4, GrowthAssumption DEF TypeOK
  <2>8. IsReputable(r, e.target) <=> Product(w, f) >= RMin * FullFactor
    BY DEF IsReputable, ComputeReputation, WeightedFactor
  <2>9. Product(w, f) \in Int
    <3> HIDE DEF w, f
    <3>1. w \in Int /\ f \in [PenaltyEventId -> Int]
      BY <2>5, <2>7, ScaleAssumption
    <3> QED BY <3>1, ProductTyped, IdAssumption
  <2> HIDE DEF w, f
  <2>10. Product(w, f) < RMin * FullFactor
    BY <2>5, <2>6, <2>7, SmallFactorDecides
  <2> QED BY <2>8, <2>9, <2>10, FullFactorTyped
<1> QED BY <1>1, ReputationGossips, GossipInvariant, ReputationTyped, PTL
=============================================================================
