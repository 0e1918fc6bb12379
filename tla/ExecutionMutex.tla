--------------------------- MODULE ExecutionMutex ---------------------------
(***************************************************************************)
(* What the execution lease of apps/api/src/agent/execution-lease.ts       *)
(* promises: a user has at most one agent execution at a time ("Another    *)
(* agent execution is already active.").  The promise is withdrawn for the *)
(* users with an unfinished run that looks abandoned (an earlier process   *)
(* left it behind, or a tab came upon it before the process tracked it):   *)
(* the repair of such a run deletes the user's lease row whoever holds it. *)
(***************************************************************************)
CONSTANTS Users, Tokens, UserOf

VARIABLES
    running,   \* the executions in progress, named by their lease token
    suspect    \* users for whom exclusion is no longer promised

vars == <<running, suspect>>

Init == running = {} /\ suspect = {}

RunningFor(u) == {t \in running : UserOf[t] = u}

Enter(t) ==
    /\ t \notin running
    /\ RunningFor(UserOf[t]) = {} \/ UserOf[t] \in suspect
    /\ running' = running \cup {t}
    /\ UNCHANGED suspect

Leave(t) ==
    /\ running' = running \ {t}
    /\ UNCHANGED suspect

\* The process dies: every execution stops and may leave an unfinished run.
Crash ==
    /\ running' = {}
    /\ suspect' = suspect \cup {UserOf[t] : t \in running}

\* An execution that has only begun is taken for an abandoned one.
Distrust(u) ==
    /\ RunningFor(u) # {}
    /\ suspect' = suspect \cup {u}
    /\ UNCHANGED running

Next ==
    \/ \E t \in Tokens : Enter(t) \/ Leave(t)
    \/ \E u \in Users : Distrust(u)
    \/ Crash

Spec == Init /\ [][Next]_vars
=============================================================================
