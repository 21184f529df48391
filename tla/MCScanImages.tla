---------------------------- MODULE MCScanImages ----------------------------
EXTENDS ScanImages, TLC

\* Request threads are interchangeable.
Symmetry == Permutations(Threads)

=============================================================================
