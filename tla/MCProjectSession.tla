--------------------------- MODULE MCProjectSession ---------------------------
EXTENDS ProjectSession, TLC

\* Ids, files and requests are interchangeable.
Symmetry == Permutations(Ids) \cup Permutations(Paths) \cup Permutations(Threads)
=============================================================================
