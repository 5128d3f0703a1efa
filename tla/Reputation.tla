----------------------------- MODULE Reputation -----------------------------
(***************************************************************************)
(* core/src/reputation.rs composed with the gossiped penalty log: each     *)
(* replica is an observer that multiplies the growth it has seen itself    *)
(* with the penalty factor of its log.                                     *)
(*   R(n) = (1 - e^(-lambda k)) * product of (1 - severity)                *)
(***************************************************************************)
EXTENDS PenaltyGossip

CONSTANTS
    Growth,      \* Growth[k] = 1 - e^(-lambda k), in units of 1/Scale
    MaxRelays,   \* bound on the relays recorded per node and observer
    RMin         \* R_MIN, in units of 1/Scale

\* The exponential is abstracted to its shape: 0 at 0, never decreasing, at
\* most 1 (where the f64 saturates).
ASSUME GrowthAssumption ==
    /\ MaxRelays \in Nat /\ RMin \in 1 .. Scale
    /\ Growth \in [0 .. MaxRelays -> 0 .. Scale]
    /\ Growth[0] = 0
    /\ \A j, k \in 0 .. MaxRelays : j <= k => Growth[j] <= Growth[k]

VARIABLE local_relay_counts   \* per observer and node; never merged

vars == <<log, inflight, local_relay_counts>>

Init ==
    /\ GossipInit
    /\ local_relay_counts = [r \in Replica |-> [n \in NodeId |-> 0]]

\* r verified a relay proof of node n.
RecordVerifiedRelay(r, n) ==
    /\ local_relay_counts[r][n] < MaxRelays
    /\ local_relay_counts' = [local_relay_counts EXCEPT ![r][n] = @ + 1]
    /\ UNCHANGED gossipVars

Next ==
    \/ GossipNext /\ UNCHANGED local_relay_counts
    \/ \E r \in Replica, n \in NodeId : RecordVerifiedRelay(r, n)

Spec == Init /\ [][Next]_vars

\* Relays and observations are the environment's; only the gossip is fair.
FairSpec == Spec /\ GossipFairness

\* In units of 1/(Scale * FullFactor).
ComputeReputation(r, n) ==
    WeightedFactor(Growth[local_relay_counts[r][n]], log[r], n)

IsReputable(r, n) == ComputeReputation(r, n) >= RMin * FullFactor

-----------------------------------------------------------------------------
\* Types of logs, snapshots and relay counts.
TypeOK == GossipTypeOK /\ local_relay_counts \in [Replica -> [NodeId -> 0 .. MaxRelays]]

\* "Growth is NEVER merged" (reputation.rs:10): the only step that can lift a
\* node, whose known penalties are in [0, 1], into an observer's reputable set
\* is a relay of that node that the observer itself verified; no gossip,
\* however late or stale and whatever it says of other nodes, does it.
OnlyOwnWitnessRaises ==
    [][\A r \in Replica, n \in NodeId :
          InRange(log'[r], n) /\ ~IsReputable(r, n) /\ IsReputable(r, n)' =>
              local_relay_counts'[r][n] = local_relay_counts[r][n] + 1]_vars

\* "Deflation resistant" (penalty_log.rs:15): a node leaves an observer's
\* reputable set only in a step that brings the observer a penalty event
\* against that very node which it did not have.  Severities may be anything.
OnlyNewPenaltyLowers ==
    [][\A r \in Replica, n \in NodeId :
          IsReputable(r, n) /\ ~IsReputable(r, n)' =>
              GetPenalties(log[r], n) \subseteq GetPenalties(log'[r], n)
              /\ GetPenalties(log[r], n) # GetPenalties(log'[r], n)]_vars

\* A penalty that leaves less than R_MIN of the largest growth (GAMMA_DIRECT
\* does) outweighs all growth.
Grave(e) == Scale - e.severity < RMin

\* No relays, whenever they were recorded and however many, keep a node in the
\* reputable set of an observer that knows of a grave penalty of it, unless
\* the observer counts a severity outside [0, 1] against that node as well.
GraveOutweighsGrowth ==
    \A r \in Replica : \A e \in AllEvents(log[r]) :
        Grave(e) /\ InRange(log[r], e.target) => ~IsReputable(r, e.target)

Excluded(n) == \A r \in Honest : ~IsReputable(r, n)

\* The grave penalties of nodes that no event outside [0, 1] names.
Decisive == {e \in Evidence : Grave(e) /\ \A f \in Evidence :
                                  f.target = e.target => f.severity \in 0 .. Scale}

\* A grave penalty ends a node's standing everywhere: once one honest observer
\* has it, all of them eventually drop the node for good, whatever it relays
\* later, provided that no severity outside [0, 1] is reported of that node.
MisbehaverExcluded ==
    \A r \in Honest : \A e \in Decisive : e \in AllEvents(log[r]) ~> []Excluded(e.target)
=============================================================================
