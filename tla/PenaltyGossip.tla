--------------------------- MODULE PenaltyGossip ---------------------------
(***************************************************************************)
(* Replicas of the penalty log that gossip their whole log.                *)
(*                                                                         *)
(* The library has no network: a caller clones a log (it derives Clone),   *)
(* ships the clone and merges it at the other side.  The exchange follows  *)
(* simulate_gossip_propagation of simulation/crdt_convergence.py: a node   *)
(* gossips to nodes of its own partition group, a withholding node neither *)
(* propagates nor takes part.  Between the clone and the merge the sender  *)
(* goes on, so a snapshot may arrive late, out of order, twice, or never.  *)
(***************************************************************************)
EXTENDS PenaltyLog

CONSTANTS
    Replica,       \* the nodes that keep a log
    Evidence,      \* the penalty events that can be observed
    Peers,         \* Peers[r]: whom r may gossip to
    Withholding,   \* the replicas that do not propagate
    MaxInFlight    \* bound on the snapshots in flight at a time

ASSUME GossipAssumption ==
    /\ Evidence \subseteq PenaltyEvent
    /\ Peers \in [Replica -> SUBSET Replica]
    /\ Withholding \subseteq Replica

VARIABLES
    log,       \* log[r]: the PenaltyLog of replica r
    inflight   \* snapshots sent and not yet delivered or lost

gossipVars == <<log, inflight>>

Snapshot == [from : Replica, to : Replica, log : Log]

Honest == Replica \ Withholding

GossipInit ==
    /\ log = [r \in Replica |-> EmptyLog]
    /\ inflight = {}

\* A node turns evidence of a protocol violation into a penalty event.
Observe(r, e) ==
    /\ log' = [log EXCEPT ![r] = Insert(@, e)]
    /\ UNCHANGED inflight

\* Mutant: a withholding node propagates and takes part like any other.
Gossip_anyNode(r, q) ==
    /\ q \in Peers[r] \ {r}
    /\ Cardinality(inflight) < MaxInFlight
    /\ inflight' = inflight \cup {[from |-> r, to |-> q, log |-> log[r]]}
    /\ UNCHANGED log

\* q is cloned a snapshot of r's log.  (Nothing is sent that is in flight already.)
Gossip(r, q) ==
    /\ {r, q} \subseteq Honest /\ q \in Peers[r] \ {r}
    /\ Cardinality(inflight) < MaxInFlight
    /\ inflight' = inflight \cup {[from |-> r, to |-> q, log |-> log[r]]}
    /\ UNCHANGED log

\* Mutant: the snapshot replaces the log.
Deliver_replaces(m) ==
    /\ log' = [log EXCEPT ![m.to] = m.log]
    /\ inflight' \in {inflight, inflight \ {m}}

\* The snapshot is merged; the network may still hold a duplicate of it.
Deliver(m) ==
    /\ log' = [log EXCEPT ![m.to] = Merge(@, m.log)]
    /\ inflight' \in {inflight, inflight \ {m}}

\* The snapshot is lost (the receiver is offline).
Drop(m) ==
    /\ inflight' = inflight \ {m}
    /\ UNCHANGED log

GossipNext ==
    \/ \E r \in Replica, e \in Evidence : Observe(r, e)
    \/ \E r, q \in Replica : Gossip(r, q)
    \/ \E m \in inflight : Deliver(m) \/ Drop(m)

GossipSpec == GossipInit /\ [][GossipNext]_gossipVars

-----------------------------------------------------------------------------
\* Fairness.  An online node gossips in every round and picks its targets
\* uniformly, so a peer that it can send to again and again is picked again
\* and again (strong fairness: the bound on the snapshots in flight may stop
\* the sender meanwhile), and a snapshot can be lost but the link does not
\* lose them all (strong fairness of the delivery from r to q).  Observation
\* is left to the environment.

DeliverFrom(r, q) ==
    \E m \in inflight : m.from = r /\ m.to = q /\ Deliver(m) /\ inflight' = inflight \ {m}

GossipFairness ==
    \A r \in Honest : \A q \in (Peers[r] \cap Honest) \ {r} :
        SF_gossipVars(Gossip(r, q)) /\ SF_gossipVars(DeliverFrom(r, q))

-----------------------------------------------------------------------------
\* Types; and what is under way is a snapshot of an honest node for an honest
\* peer of its: a withholding node neither propagates nor takes part.
GossipTypeOK ==
    /\ log \in [Replica -> Log]
    /\ inflight \subseteq Snapshot
    /\ \A m \in inflight : {m.from, m.to} \subseteq Honest /\ m.to \in Peers[m.from] \ {m.from}

\* An id stands for one event: observers of the same misbehaviour agree on
\* target and severity.  insert and merge do not check it.
UniqueIds == \A e, f \in Evidence : e.event_id = f.event_id => e = f

\* The two maps of one log agree: an id is listed under a node exactly when
\* the event stored for it names that node, and it was really observed.
Coherent(l) ==
    /\ \A id \in PenaltyEventId :
          l.events[id] # NoEvent => l.events[id] \in Evidence /\ l.events[id].event_id = id
    /\ \A n \in NodeId : \A id \in PenaltyEventId :
          id \in l.penalties[n] <=> l.events[id] # NoEvent /\ l.events[id].target = n

IndexCoherent ==
    /\ \A r \in Replica : Coherent(log[r])
    /\ \A m \in inflight : Coherent(m.log)

-----------------------------------------------------------------------------
Logs == {log[r] : r \in Replica} \cup {m.log : m \in inflight}

\* penalty_log.rs:11 "Commutative: merge(A, B) == merge(B, A)", for the logs
\* and snapshots that the replicas reach.
MergeCommutes == \A a, b \in Logs : Merge(a, b) = Merge(b, a)

\* penalty_log.rs:11-13: merge is commutative, associative and idempotent, on
\* every log the replicas reach and not only on logs made by inserts.
MergeAlgebra ==
    /\ MergeCommutes
    /\ \A a, b, c \in Logs : Merge(Merge(a, b), c) = Merge(a, Merge(b, c))
    /\ \A a \in Logs : Merge(a, a) = a

\* Replicas that know the same events have the same log, whatever the order
\* in which inserts and merges (stale and repeated ones included) brought
\* them, so they compute the same penalty factor of every node.
SameEventsSameLog ==
    \A r, q \in Replica : AllEvents(log[r]) = AllEvents(log[q]) => log[r] = log[q]

\* Each known event counts once, against the node it names, and against no
\* other, whatever its severity: the factor read through the two maps is the
\* product over the events.
FactorOfKnownEvents ==
    \A r \in Replica, n \in NodeId :
        LET known == {e \in AllEvents(log[r]) : e.target = n}
        IN  PenaltyFactor(log[r], n) * Product(1, [e \in known |-> Scale])
               = FullFactor * Product(1, [e \in known |-> Scale - e.severity])

\* The severities that a log counts against a node are in [0, 1].  Nothing in
\* the code sees to it.
InRange(l, n) == \A e \in GetPenalties(l, n) : e.severity \in 0 .. Scale

\* "Inflation resistant: penalties can only decrease reputation"
\* (penalty_log.rs:14): no insert and no merge, however stale the snapshot,
\* raises the factor of a node at a replica, as long as the penalties counted
\* there against that node are in [0, 1]; those against other nodes may be
\* anything.  (A negative severity, or two above 1, do raise the factor.)
InflationResistant ==
    [][\A r \in Replica, n \in NodeId :
          InRange(log'[r], n) => PenaltyFactor(log'[r], n) <= PenaltyFactor(log[r], n)]_log

\* The gossiping replicas implement sets that only grow by union.
Abstract == INSTANCE PenaltySet WITH
    Event <- Evidence,
    known <- [r \in Replica |-> AllEvents(log[r])]

ImplementsPenaltySet == Abstract!Spec
=============================================================================
