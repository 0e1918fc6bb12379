-------------------------- MODULE MC_ExecutionLease -------------------------
EXTENDS ExecutionLease, TLC

CONSTANTS u1, u2, t1, t2, t3, t4

\* Three calls of one user, so that a first holder, its successor and a late
\* caller meet, and one of another.
MCUserOf == (t1 :> u1) @@ (t2 :> u1) @@ (t3 :> u1) @@ (t4 :> u2)

CallSymmetry == Permutations({t1, t2, t3})
=============================================================================
