-------------------------- MODULE MCPoseidonGadget --------------------------
\* All inputs over the field of 13 elements: 5 does not divide 12, so that x^5
\* is a permutation, and 13 is above the entries' denominators 5 .. 9.
EXTENDS PoseidonGadget

MCSha == [i \in 0 .. T * (FullRounds + PartialRounds) - 1 |-> (5 * i * i + 3 * i + 1) % P]
=============================================================================
