------------------------- MODULE PartitionedGossip -------------------------
(***************************************************************************)
(* PenaltyGossip over a network that breaks into groups, as the argument   *)
(* partition_groups of simulate_gossip_propagation has it, and whose       *)
(* groups change.  A node that is offline is a group of its own: it keeps  *)
(* its log, has no candidates and is nobody's candidate.                   *)
(***************************************************************************)
EXTENDS PenaltyGossip

CONSTANT Partitions    \* the partitions the network may break into; {}: none

ASSUME PartitionsAssumption == Partitions \subseteq SUBSET SUBSET Replica

VARIABLE partition_groups

vars == <<log, inflight, partition_groups>>

\* Without groups everyone; a node of no group has no candidates.
Candidates(r) ==
    IF partition_groups = {} THEN Replica
                             ELSE UNION {g \in partition_groups : r \in g}

Connected(r, q) == q \in Candidates(r)

Init == GossipInit /\ partition_groups \in Partitions

GroupGossip(r, q) ==
    /\ Connected(r, q)
    /\ Gossip(r, q)
    /\ UNCHANGED partition_groups

Step ==
    /\ \/ \E r \in Replica, e \in Evidence : Observe(r, e)
       \/ \E m \in inflight : Deliver(m) \/ Drop(m)
    /\ UNCHANGED partition_groups

\* Nodes leave, come back and regroup; what was under way between two that are
\* no longer connected is lost.
Regroup ==
    /\ partition_groups' \in Partitions \ {partition_groups}
    /\ inflight' = {m \in inflight : Connected(m.from, m.to)'}
    /\ UNCHANGED log

Next == (\E r, q \in Replica : GroupGossip(r, q)) \/ Step \/ Regroup

Spec == Init /\ [][Next]_vars

-----------------------------------------------------------------------------
\* Honest nodes that draw each other as targets.
Links == {l \in Honest \X Honest : l[2] \in Peers[l[1]] \ {l[1]}}

\* Targets are drawn uniformly from the candidates, in every round: who is a
\* candidate again and again is drawn again and again.  A link may lose
\* snapshots, but not all of them.
FairDraw(r, q) == []<>Connected(r, q) => []<><<GroupGossip(r, q)>>_vars

GroupDelivery(r, q) == DeliverFrom(r, q) /\ UNCHANGED partition_groups

FairSpec ==
    /\ Spec
    /\ \A l \in Links : FairDraw(l[1], l[2]) /\ SF_vars(GroupDelivery(l[1], l[2]))

\* Convergence under loss, duplication, withholding, churn and partitions: if
\* every link is whole again and again, be it one at a time and never the
\* whole network, what one honest replica knows every honest replica comes to
\* know.  "Penalty-log CRDT converges under network churn, partitions, and
\* adversarial withholding" (crdt_convergence.py:5).
Converges ==
    (\A l \in Links : []<>Connected(l[1], l[2]))
        => \A r, q \in Honest : \A e \in Evidence :
              e \in AllEvents(log[r]) ~> e \in AllEvents(log[q])
=============================================================================
