---------------------------- MODULE MCReputation ----------------------------
(* Small instances of Reputation. *)
EXTENDS Reputation, TLC

CONSTANTS r1, r2, n1, n2, i1, i2, i3

Event(id, node, severity) == [event_id |-> id, target |-> node, severity |-> severity]

Severities == {-10, 4, 9}

\* A grave penalty of one node; a light one of the other, and a severity of -1
\* that doubles its factor.  In tenths, as R_MIN = 0.3.
TwoNodeEvidence == {Event(i1, n1, 9), Event(i2, n2, 4), Event(i3, n2, -10)}

EachOther == [r \in Replica |-> Replica \ {r}]

\* Relay counts at which the growth is nothing, just R_MIN, and enough to
\* survive the light penalty (0.6 * 0.6 >= 0.3).
GrowthCurve == <<0, 3, 6>>
GrowthSteps == [k \in 0 .. MaxRelays |-> GrowthCurve[k + 1]]
=============================================================================
