------------------------------ MODULE MCFourD ------------------------------
\* FourD for TLC: two threads upload, reshape and close while a peer starts.
EXTENDS FourD, TLC
CONSTANTS S, P
Symmetry == Permutations(Threads)
=============================================================================
