------------------------- MODULE MC_WorkspacePurge -------------------------
EXTENDS WorkspacePurge, TLC

CONSTANTS p1, p2, c1, a1, q1, v0

=============================================================================
