---------------------------- MODULE MCWorkspaces ----------------------------
\* Workspaces for TLC.
EXTENDS Workspaces, TLC
Symmetry == Permutations(Threads) \cup Permutations(Slugs)
=============================================================================
