---------------------------- MODULE MC_AgentRuns ----------------------------
EXTENDS AgentRuns, TLC

CONSTANTS u1, r1, r2, r3, t1, t2

OneRun == r1 :> u1
OneOwner == (r1 :> u1) @@ (r2 :> u1)
OneOwner3 == (r1 :> u1) @@ (r2 :> u1) @@ (r3 :> u1)

\* Runs of one owner, and tabs, are interchangeable.
Symmetric == Permutations({r1, r2}) \cup Permutations({t1, t2})
=============================================================================
