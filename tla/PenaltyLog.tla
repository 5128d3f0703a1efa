----------------------------- MODULE PenaltyLog -----------------------------
(***************************************************************************)
(* The penalty log of core/src/penalty_log.rs: a CRDT that every node      *)
(* keeps of the penalty events it knows.  This module has the log's value  *)
(* and its operations; PenaltyGossip runs replicas of it.                  *)
(*                                                                         *)
(* The struct has two maps that are updated separately: the ids listed     *)
(* under each node, and the event stored under each id.  Both are total    *)
(* functions here, an absent key being {} or NoEvent; no operation of the  *)
(* code tells a missing node from one with no ids.                         *)
(***************************************************************************)
EXTENDS Integers, FiniteSetsExt

CONSTANTS
    NodeId,          \* nodes a penalty may name
    PenaltyEventId,  \* 32-byte event ids
    Scale,           \* 1.0 in the integer units of severities and factors
    Severity,        \* the severities that occur, in units of 1/Scale
    NoEvent          \* the absent entry of the events map

ASSUME IdAssumption == IsFiniteSet(PenaltyEventId)    \* they are 32 bytes

\* The severity is an f64 that neither insert nor merge checks: it may be
\* negative or above 1.  (Infinities and NaN are not modelled.)
ASSUME ScaleAssumption == Scale \in Nat \ {0} /\ Severity \subseteq Int

\* Epoch and evidence hash of an event are payload that no operation reads.
PenaltyEvent ==
    [event_id : PenaltyEventId, target : NodeId, severity : Severity]

ASSUME NoEventAssumption == NoEvent \notin PenaltyEvent

Log == [penalties : [NodeId -> SUBSET PenaltyEventId],
        events    : [PenaltyEventId -> PenaltyEvent \cup {NoEvent}]]

EmptyLog == [penalties |-> [n \in NodeId |-> {}],
             events    |-> [id \in PenaltyEventId |-> NoEvent]]

\* Mutant: or_insert without the insert, a second id of a node is not listed.
Insert_firstOnly(log, event) ==
    [penalties |-> [log.penalties EXCEPT ![event.target] =
                       IF @ = {} THEN {event.event_id} ELSE @],
     events    |-> [log.events EXCEPT ![event.event_id] = event]]

\* A second insert under the same id replaces the stored event, and leaves the
\* id listed under the node that the replaced event named.
Insert(log, event) ==
    [penalties |-> [log.penalties EXCEPT ![event.target] = @ \cup {event.event_id}],
     events    |-> [log.events EXCEPT ![event.event_id] = event]]

\* The ids that other lists under a node for which self does not list them:
\* these, and no others, bring their event along in a merge.
Fresh(self, other) ==
    {id \in PenaltyEventId :
        /\ other.events[id] # NoEvent
        /\ \E n \in NodeId : id \in other.penalties[n] \ self.penalties[n]}

\* Mutant: the id sets are merged, the events are not.
Merge_idsOnly(self, other) ==
    [self EXCEPT !.penalties = [n \in NodeId |-> @[n] \cup other.penalties[n]]]

\* Mutant: the ids of a node are replaced, where they should be extended.
Merge_replacesIds(self, other) ==
    [penalties |-> [n \in NodeId |-> IF other.penalties[n] = {} THEN self.penalties[n]
                                                                ELSE other.penalties[n]],
     events    |-> [id \in PenaltyEventId |->
                       IF id \in Fresh(self, other) THEN other.events[id]
                                                    ELSE self.events[id]]]

\* Mutant: the events map is replaced by the other one.
Merge_takesEvents(self, other) ==
    [penalties |-> [n \in NodeId |-> self.penalties[n] \cup other.penalties[n]],
     events    |-> other.events]

Merge(self, other) ==
    [penalties |-> [n \in NodeId |-> self.penalties[n] \cup other.penalties[n]],
     events    |-> [id \in PenaltyEventId |->
                       IF id \in Fresh(self, other) THEN other.events[id]
                                                    ELSE self.events[id]]]

\* Mutant: the node is not looked up.
PenaltyIds_anyNode(log, node) == {id \in PenaltyEventId : log.events[id] # NoEvent}

\* The ids under a node whose event is stored, and the events they stand for.
\* Their targets are not compared with the node.
PenaltyIds(log, node) == {id \in log.penalties[node] : log.events[id] # NoEvent}

GetPenalties(log, node) == {log.events[id] : id \in PenaltyIds(log, node)}

\* weight times the values of f, multiplied in some order: the f64 product,
\* which rounds in the order of the hash set, is exact here.
Product(weight, f) == FoldFunction(LAMBDA a, b : a * b, weight, f)

\* Mutant: the factor of a node counts the events of every node.
WeightedFactor_allEvents(weight, log, node) ==
    Product(weight, [id \in PenaltyEventId |->
                        IF log.events[id] # NoEvent THEN Scale - log.events[id].severity
                                                    ELSE Scale])

\* Mutant: the severity is taken for what remains.
Remaining_severity(log, node) ==
    [id \in PenaltyEventId |-> IF id \in PenaltyIds(log, node)
                                  THEN log.events[id].severity ELSE Scale]

\* What an id leaves of the node's factor; 1 if it does not count.
Remaining(log, node) ==
    [id \in PenaltyEventId |-> IF id \in PenaltyIds(log, node)
                                  THEN Scale - log.events[id].severity ELSE Scale]

\* weight times the product of (1 - severity), in units of
\* Scale^-|PenaltyEventId|.
WeightedFactor(weight, log, node) == Product(weight, Remaining(log, node))

PenaltyFactor(log, node) == WeightedFactor(1, log, node)

\* The factor of a node without penalties.
FullFactor == Product(1, [id \in PenaltyEventId |-> Scale])

AllEvents(log) == {log.events[id] : id \in PenaltyEventId} \ {NoEvent}
=============================================================================
