---------------------------- MODULE MCFolderWatch ----------------------------
\* FolderWatch for TLC: a burst of files under one watch, or one file under a
\* watch and the next.
EXTENDS FolderWatch

CONSTANT Second     \* the file that comes only where one watch is all there is

BurstOrRestart == started > 1 => folder[Second].version = 0

=============================================================================
