----------------------------- MODULE MCJobStore -----------------------------
EXTENDS JobStore, TLC

Symmetry == Permutations(Jobs) \cup Permutations(Clients)

=============================================================================
