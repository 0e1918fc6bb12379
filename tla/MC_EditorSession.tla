------------------------- MODULE MC_EditorSession --------------------------
EXTENDS EditorSession, TLC

CONSTANTS e1, e2, w

Symmetric == Permutations(Edits)
=============================================================================
