--------------------------- MODULE MCPenaltyGossip ---------------------------
(* Small instances of PenaltyGossip. *)
EXTENDS PenaltyGossip, TLC

CONSTANTS r1, r2, r3, w, n1, n2, i1, i2

Event(id, node, severity) == [event_id |-> id, target |-> node, severity |-> severity]

\* Two penalties of one node, one of them total.
TwoEvents == {Event(i1, n1, 1), Event(i2, n1, 2)}

\* Observers that do not agree on the severity of i1.
ConflictingEvidence == {Event(i1, n1, 1), Event(i1, n1, 2)}

EachOther == [r \in Replica |-> Replica \ {r}]

\* A ring with the withholding node w in it: r1 and r3 reach each other
\* through r2 only.
Ring == [r \in Replica |-> CASE r = r1 -> {r2, w}
                             [] r = r2 -> {r1, r3}
                             [] r = r3 -> {r2, w}
                             [] r = w  -> {r1, r3}]
=============================================================================
