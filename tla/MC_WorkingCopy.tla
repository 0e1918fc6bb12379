--------------------------- MODULE MC_WorkingCopy ---------------------------
EXTENDS WorkingCopy, TLC

CONSTANTS a, b, n1

Symmetric == Permutations({a, b})
=============================================================================
