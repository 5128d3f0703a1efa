---------------------------- MODULE MCRelayStep ----------------------------
\* A tree of four leaves over the reputable sets of up to five nodes.
EXTENDS RelayStep

CONSTANTS a, b, c, d, e, p, q

MCWidth == [k \in 0 .. Depth |-> 2 ^ (Depth - k)]

\* Two nodes, a full tree, one that differs from it in one leaf, and one node
\* too many.
MCLeafLists == {<<b, a>>, <<a, b, c, d>>, <<e, b, c, d>>, <<a, c, b, d, e>>}

\* Packets that differ in the order of the two blocks that are hashed, or only
\* in the third, which is not.
MCHeader == {<<p, q, p>>, <<p, q, q>>, <<q, p, p>>}
=============================================================================
