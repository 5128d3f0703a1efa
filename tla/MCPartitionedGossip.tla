------------------------ MODULE MCPartitionedGossip ------------------------
\* The ring of MCPenaltyGossip, whose links do not all hold at once.
EXTENDS MCPenaltyGossip, PartitionedGossip

\* r2 is cut off from r3, then from r1; or is offline.
Alternating == {{{r1, r2, w}, {r3}}, {{r1}, {r2, r3, w}}, {{r1, r3, w}, {r2}}}
=============================================================================
