---------------------------- MODULE RunLifecycle ----------------------------
(***************************************************************************)
(* What the run manager promises of an agent run to those who watch it:    *)
(* a run ends once, its end never changes ("Terminal states have no        *)
(* outgoing edges", persistence.ts:137), and its live stream announces     *)
(* that end, once, after it is durable.  The promise is withdrawn for a    *)
(* run that was disowned: a tab asked for its events before the process    *)
(* tracked it, and took it for one a dead process left behind; and for     *)
(* every run when a query fails.                                           *)
(***************************************************************************)
CONSTANTS Runs

VARIABLES
    outcome,    \* the durable state of each run
    announced,  \* what its live stream said its end was
    disowned

vars == <<outcome, announced, disowned>>

Ends == {"completed", "failed", "cancelled"}

Init ==
    /\ outcome \in [Runs -> {"absent"} \cup Ends]
    /\ announced = [r \in Runs |-> "nothing"]
    /\ disowned = {}

Create(r) ==
    /\ outcome[r] = "absent"
    /\ outcome' = [outcome EXCEPT ![r] = "open"]
    /\ UNCHANGED <<announced, disowned>>

End(r, e) ==
    /\ outcome[r] = "open"
    /\ outcome' = [outcome EXCEPT ![r] = e]
    /\ UNCHANGED <<announced, disowned>>

\* Two writers, neither of which sees the other.
Overwrite(r, e) ==
    /\ r \in disowned
    /\ outcome' = [outcome EXCEPT ![r] = e]
    /\ UNCHANGED <<announced, disowned>>

Announce(r, e) ==
    /\ announced[r] = "nothing"
    /\ outcome[r] = e \/ r \in disowned
    /\ announced' = [announced EXCEPT ![r] = e]
    /\ UNCHANGED <<outcome, disowned>>

Disown(r) ==
    /\ outcome[r] = "open"
    /\ disowned' = disowned \cup {r}
    /\ UNCHANGED <<outcome, announced>>

\* A query fails, whatever it leaves undone.
Fail ==
    /\ disowned' = Runs
    /\ outcome' \in [Runs -> Ends \cup {"absent", "open"}]
    /\ announced' \in [Runs -> Ends \cup {"nothing"}]

\* The process dies with its live streams.
Crash ==
    /\ announced' = [r \in Runs |-> "nothing"]
    /\ UNCHANGED <<outcome, disowned>>

Next ==
    \/ \E r \in Runs :
          \/ Create(r) \/ Disown(r)
          \/ \E e \in Ends : End(r, e) \/ Announce(r, e)
          \/ \E e \in Ends \cup {"open"} : Overwrite(r, e)
    \/ Fail
    \/ Crash

Spec == Init /\ [][Next]_vars
=============================================================================
