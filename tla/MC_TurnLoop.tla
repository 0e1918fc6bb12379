----------------------------- MODULE MC_TurnLoop ----------------------------
EXTENDS TurnLoop, TLC

CONSTANTS r, m, s, f

\* One key of each kind of tool.
OneOfEach == (r :> "read") @@ (m :> "mutate") @@ (s :> "select") @@ (f :> "finish")
=============================================================================
