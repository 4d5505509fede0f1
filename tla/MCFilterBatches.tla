-------------------------- MODULE MCFilterBatches --------------------------
EXTENDS FilterBatches, TLC
\* A chain: page 2 is like both others, which are not like each other.
MCScore == <<1, 3, 2>>
MCSimilar == <<{1, 2}, {1, 2, 3}, {2, 3}>>
=============================================================================
