------------------------------ MODULE AgentRuns ------------------------------
(***************************************************************************)
(* One agent run from the request that asks for it to its terminal state,  *)
(* and the browser tabs that watch it:                                     *)
(*   apps/api/src/agent/execution.ts       start, runExecution             *)
(*   apps/api/src/agent/run-settlement.ts  settling a run, its lease       *)
(*   apps/api/src/agent/run-manager.ts     live runs, hub, repair          *)
(*   apps/api/src/agent/persistence.ts     agent_run, updateRunStatus      *)
(*   apps/api/src/routes/agent.ts          cancel, the SSE route           *)
(*                                                                         *)
(* Everything between two awaits of the code is one step; a statement that *)
(* waits for the database is a step of its own, so updateRunStatus, which  *)
(* reads the row, checks the transition and then updates by id, is two.    *)
(* A database call may fail without effect, or (for a commit whose reply   *)
(* is lost) fail having had its effect: both are counted in `faults`.      *)
(*                                                                         *)
(* status[r] is the status of the row with the part of errorCode that the  *)
(* code reads back: "failed" with AGENT_MAX_TURNS is "resumable" and with  *)
(* RUN_ABANDONED is "abandoned".  completed_with_input_needed differs from *)
(* completed in nothing modelled here.                                     *)
(***************************************************************************)
EXTENDS Integers, Sequences, FiniteSets

CONSTANTS
    Users, Runs, OwnerOf,
    Tabs,          \* event-stream requests
    Stopped,       \* a run that stopped at the turn limit before, or None
    None,
    MaxFaults,     \* bound of the failing database calls, for TLC
    MaxCrashes     \* bound of the restarts, for TLC

ASSUME OwnersAssumption == OwnerOf \in [Runs -> Users]
ASSUME NoneAssumption == None \notin Runs
ASSUME StoppedAssumption == Stopped \in Runs \cup {None}
ASSUME BoundsAssumption == MaxFaults \in Nat /\ MaxCrashes \in Nat

VARIABLES
    (* the database *)
    status,    \* agent_run.status, refined as said above
    chain,     \* the runs of the task up to this one: its first is the run whose
               \* message triggers them all, the one before the last its parent
    created,   \* the rows of agent_run, by createdAt
    stored,    \* runs whose continuation (their part of the replay) is stored
    lease,     \* the run, or call of start(), that holds each user's lease
    (* the API process *)
    pc,        \* where each call of start(), and then its execution, is
    from,      \* continueFromRunId of the call
    plan,      \* what settleTerminalRunFailure was told to write
    aborted,   \* runs whose abort signal fired
    active,    \* the run manager's map
    events,    \* terminal events in the buffer of each run's hub
    tab,       \* the event-stream request of each tab
    (* bounds and history *)
    faults,
    crashes,
    mistaken,  \* runs a tab took for abandoned while they were in progress
    dropped    \* users for whom a repair deleted the lease of a live holder

rows     == <<status, chain, created, stored>>
process  == <<pc, from, plan, aborted>>
hubs     == <<active, events, tab>>
history  == <<faults, crashes, mistaken, dropped>>
vars == <<rows, lease, process, hubs, history>>

Failed   == {"failed", "resumable", "abandoned"}
Terminal == Failed \cup {"completed", "cancelled"}
Statuses == {"absent", "queued", "running"} \cup Terminal

\* resumable and cancelledResumable carry a continuation to store.
Plans == {"none", "failed", "cancelled", "resumable", "cancelledResumable"}

Starting   == {"checking", "creating", "committed", "unwinding"}
Executing  == {"setup", "setupWrite", "model", "finalize", "finalWrite", "publish",
               "settle", "store", "settleRead", "settleWrite", "emit"}
Returning  == {"returning", "rejecting"}
Escaped    == {"net", "netWrite"}
Pcs == {"idle", "acquiring", "ended"} \cup Starting \cup Executing \cup Returning \cup Escaped

TabStates == {"closed", "subscribing", "streaming",
              "repair", "repairWrite", "repairLease", "dropLease"}

\* A call that holds the lease, or has every reason to believe it does.
Live(r) == pc[r] \in Starting \cup Executing \cup Returning
\* A call that may still write the row of its run.
Busy(r) == pc[r] \in {"committed"} \cup Executing \cup Returning \cup Escaped

Parent(r) == IF Len(chain[r]) > 1 THEN chain[r][Len(chain[r]) - 1] ELSE None

TypeOK ==
    /\ status \in [Runs -> Statuses]
    /\ chain \in [Runs -> Seq(Runs)]
    /\ created \in Seq(Runs)
    /\ stored \in SUBSET Runs
    /\ lease \in [Users -> Runs \cup {None}]
    /\ pc \in [Runs -> Pcs]
    /\ from \in [Runs -> Runs \cup {None}]
    /\ plan \in [Runs -> Plans]
    /\ aborted \in SUBSET Runs
    /\ active \in SUBSET Runs
    /\ events \in [Runs -> Seq({"completed", "failed", "cancelled"})]
    /\ tab \in [Tabs -> [at : TabStates, run : Runs \cup {None}, seen : Statuses]]
    /\ faults \in Nat /\ crashes \in Nat
    /\ mistaken \in SUBSET Runs
    /\ dropped \in SUBSET Users

NoTab == [at |-> "closed", run |-> None, seen |-> "absent"]

Init ==
    /\ status = [r \in Runs |-> IF r = Stopped THEN "resumable" ELSE "absent"]
    /\ chain = [r \in Runs |-> IF r = Stopped THEN <<r>> ELSE <<>>]
    /\ created = IF Stopped = None THEN <<>> ELSE <<Stopped>>
    /\ stored = {Stopped} \ {None}
    /\ lease = [u \in Users |-> None]
    /\ pc = [r \in Runs |-> IF r = Stopped THEN "ended" ELSE "idle"]
    /\ from = [r \in Runs |-> None]
    /\ plan = [r \in Runs |-> "none"]
    /\ aborted = {} /\ active = {}
    /\ events = [r \in Runs |-> <<>>]
    /\ tab = [t \in Tabs |-> NoTab]
    /\ faults = 0 /\ crashes = 0
    /\ mistaken = {} /\ dropped = {}

Go(r, p) == pc' = [pc EXCEPT ![r] = p]

Fault == faults < MaxFaults /\ faults' = faults + 1

\* RUN_STATUS_TRANSITIONS, for the writes that end a run.
RefusesNothing(r) == FALSE                                         \* mutant
Refused(r) == status[r] \in Terminal

Write(r, s) == status' = [status EXCEPT ![r] = s]
-----------------------------------------------------------------------------
(* start()                                                                 *)

\* resolveContinuation and loadRunContinuation: the prior run and every run
\* before it in its task failed at the turn limit and have stored their part.
Resumable(p) ==
    /\ status[p] = "resumable"
    /\ \A i \in 1 .. Len(chain[p]) :
          chain[p][i] \in stored /\ status[chain[p][i]] = "resumable"

Request(r, p) ==
    /\ pc[r] = "idle"
    /\ p # None => OwnerOf[p] = OwnerOf[r] /\ Resumable(p)
    /\ from' = [from EXCEPT ![r] = p]
    /\ Go(r, "acquiring")
    /\ UNCHANGED <<rows, lease, plan, aborted, hubs, history>>

Acquire(r) ==
    /\ pc[r] = "acquiring"
    /\ lease[OwnerOf[r]] = None
    /\ lease' = [lease EXCEPT ![OwnerOf[r]] = r]
    /\ IF from[r] = None THEN Go(r, "creating") ELSE Go(r, "checking")
    /\ UNCHANGED <<rows, from, plan, aborted, hubs, history>>

\* AGENT_EXECUTION_BUSY, or the query fails: nothing was written, the call may
\* be made again.
AcquireBusy(r) ==
    /\ pc[r] = "acquiring"
    /\ lease[OwnerOf[r]] # None
    /\ from' = [from EXCEPT ![r] = None]
    /\ Go(r, "idle")
    /\ UNCHANGED <<rows, lease, plan, aborted, hubs, history>>

\* listRunsForTriggerMessages(...)[0]: the newest run of the task of p.
SameTask(p) == {i \in 1 .. Len(created) : Head(chain[created[i]]) = Head(chain[p])}
NewestUnchecked(p) == p                                            \* mutant
Newest(p) == created[CHOOSE i \in SameTask(p) : \A j \in SameTask(p) : j =< i]

CheckLatest(r) ==
    /\ pc[r] = "checking"
    /\ IF Newest(from[r]) = from[r] THEN Go(r, "creating") ELSE Go(r, "unwinding")
    /\ UNCHANGED <<rows, lease, from, plan, aborted, hubs, history>>

Before(r) == IF from[r] = None THEN <<>> ELSE chain[from[r]]

InsertRow(r) ==
    /\ Write(r, "queued")
    /\ created' = Append(created, r)
    /\ chain' = [chain EXCEPT ![r] = Append(Before(r), r)]
    /\ UNCHANGED stored

\* The transaction of start() commits.  Until the process handles the reply
\* the row is visible and the run is not in the map.
CreateRun(r) ==
    /\ pc[r] = "creating"
    /\ InsertRow(r)
    /\ Go(r, "committed")
    /\ UNCHANGED <<lease, from, plan, aborted, hubs, history>>

\* active.set: runExecution was called and waits for its first query.
Track(r) ==
    /\ pc[r] = "committed"
    /\ active' = active \cup {r}
    /\ Go(r, "setup")
    /\ UNCHANGED <<rows, lease, from, plan, aborted, events, tab, history>>

\* A precondition fails, or a query before the commit.
StartFails(r) ==
    /\ pc[r] \in {"checking", "creating"}
    /\ Go(r, "unwinding")
    /\ UNCHANGED <<rows, lease, from, plan, aborted, hubs, history>>

\* The commit takes effect and its reply is lost.
CreateAmbiguous(r) ==
    /\ pc[r] = "creating"
    /\ Fault
    /\ InsertRow(r)
    /\ Go(r, "unwinding")
    /\ UNCHANGED <<lease, from, plan, aborted, hubs, crashes, mistaken, dropped>>

\* leases.release deletes the row if the token still matches.
ReleaseLease(r) ==
    IF lease[OwnerOf[r]] = r THEN lease' = [lease EXCEPT ![OwnerOf[r]] = None]
                             ELSE UNCHANGED lease

Released(r) ==
    \/ ReleaseLease(r) /\ UNCHANGED faults
    \/ Fault /\ UNCHANGED lease

\* The catch of start() releases the lease and rejects.
Unwind(r) ==
    /\ pc[r] = "unwinding"
    /\ Released(r)
    /\ from' = [from EXCEPT ![r] = None]
    /\ IF status[r] = "absent" THEN Go(r, "idle") ELSE Go(r, "ended")
    /\ UNCHANGED <<rows, plan, aborted, hubs, crashes, mistaken, dropped>>
-----------------------------------------------------------------------------
(* runExecution                                                            *)

SettleWith(r, p) ==
    /\ plan' = [plan EXCEPT ![r] = p]
    /\ Go(r, "settle")

\* The outer catch: the error becomes "failed", or "cancelled" when the run
\* was aborted.
Caught(r) ==
    IF r \in aborted THEN SettleWith(r, "cancelled") ELSE SettleWith(r, "failed")

\* loadHistory, and the row updateRunStatus(running) checks: a run that a
\* repair made terminal is refused.
ReadForRunning(r) ==
    /\ pc[r] = "setup"
    /\ IF status[r] = "queued"
       THEN Go(r, "setupWrite") /\ UNCHANGED plan
       ELSE Caught(r)
    /\ UNCHANGED <<rows, lease, from, aborted, hubs, history>>

WriteRunning(r) ==
    /\ pc[r] = "setupWrite"
    /\ Write(r, "running")
    /\ Go(r, "model")
    /\ UNCHANGED <<chain, created, stored, lease, from, plan, aborted, hubs, history>>

SetupFails(r) ==
    /\ pc[r] \in {"setup", "setupWrite"}
    /\ Fault
    /\ Caught(r)
    /\ UNCHANGED <<rows, lease, from, aborted, hubs, crashes, mistaken, dropped>>

\* The model loop stopped by itself, its document was flushed and verified.
ModelSucceeds(r) ==
    /\ pc[r] = "model"
    /\ Go(r, "finalize")
    /\ UNCHANGED <<rows, lease, from, plan, aborted, hubs, history>>

\* It stopped at the turn limit, with a continuation to store.
ModelBounded(r) ==
    /\ pc[r] = "model"
    /\ IF r \in aborted THEN SettleWith(r, "cancelledResumable")
                        ELSE SettleWith(r, "resumable")
    /\ UNCHANGED <<rows, lease, from, aborted, hubs, history>>

\* It threw, was aborted, hit the output limit or left work unfinished; an
\* aborted run that could not save its document, or left work unfinished, is
\* failed and not cancelled.
ModelFails(r) ==
    /\ pc[r] = "model"
    /\ Caught(r) \/ SettleWith(r, "failed")
    /\ UNCHANGED <<rows, lease, from, aborted, hubs, history>>

\* finalizeCompletedRun: the row is read, then written, in one transaction
\* that does not lock it at the read.
ReadForCompleted(r) ==
    /\ pc[r] = "finalize"
    /\ IF status[r] = "running"
       THEN Go(r, "finalWrite") /\ UNCHANGED plan
       ELSE Caught(r)
    /\ UNCHANGED <<rows, lease, from, aborted, hubs, history>>

WriteCompleted(r) ==
    /\ pc[r] = "finalWrite"
    /\ Write(r, "completed")
    /\ Go(r, "publish")
    /\ UNCHANGED <<chain, created, stored, lease, from, plan, aborted, hubs, history>>

\* The transaction fails, or commits and its reply is lost.
FinalizeSwallowed(r) ==                                            \* mutant
    /\ pc[r] \in {"finalize", "finalWrite"}
    /\ Fault
    /\ Go(r, "publish")
    /\ UNCHANGED <<rows, lease, from, plan, aborted, hubs, crashes, mistaken, dropped>>

FinalizeFails(r) ==
    /\ pc[r] \in {"finalize", "finalWrite"}
    /\ Fault
    /\ Caught(r)
    /\ \/ UNCHANGED status
       \/ pc[r] = "finalWrite" /\ Write(r, "completed")
    /\ UNCHANGED <<chain, created, stored, lease, from, aborted, hubs, crashes, mistaken, dropped>>

\* hub.publishFromAgent: nothing once the hub is closed; every subscribed
\* request gets the event and ends its response.
Emit(r, e) ==
    IF r \in active
    THEN /\ events' = [events EXCEPT ![r] = Append(@, e)]
         /\ tab' = [t \in Tabs |-> IF tab[t].at = "streaming" /\ tab[t].run = r
                                   THEN NoTab ELSE tab[t]]
    ELSE UNCHANGED <<events, tab>>

PublishCompleted(r) ==
    /\ pc[r] = "publish"
    /\ Emit(r, "completed")
    /\ Go(r, "returning")
    /\ UNCHANGED <<rows, lease, from, plan, aborted, active, history>>
-----------------------------------------------------------------------------
(* settleTerminalRunFailure                                                *)

Outcome(p) ==
    IF p \in {"cancelled", "cancelledResumable"} THEN "cancelled"
    ELSE IF p = "resumable" THEN "resumable" ELSE "failed"
EventAlwaysFailed(p) == "failed"                                   \* mutant
EventOf(p) == IF Outcome(p) = "cancelled" THEN "cancelled" ELSE "failed"

\* The continuation of a resumable stop is stored before anything else.
NeverStored(r) == "settleRead"                                     \* mutant
AfterCheck(r) ==
    IF plan[r] \in {"resumable", "cancelledResumable"} THEN "store" ELSE "settleRead"

\* An already terminal run is left alone: no write, no event.  A failing read
\* is ignored.
SettleCheck(r) ==
    /\ pc[r] = "settle"
    /\ \/ /\ IF status[r] \in Terminal THEN Go(r, "returning") ELSE Go(r, AfterCheck(r))
          /\ UNCHANGED faults
       \/ Fault /\ Go(r, AfterCheck(r))
    /\ UNCHANGED <<rows, lease, from, plan, aborted, hubs, crashes, mistaken, dropped>>

\* persistTranscript of a transcript with a continuation rethrows, and nothing
\* here catches it: the execution's promise rejects.
StoreContinuation(r) ==
    /\ pc[r] = "store"
    /\ \/ stored' = stored \cup {r} /\ Go(r, "settleRead") /\ UNCHANGED faults
       \/ Fault /\ Go(r, "rejecting") /\ stored' \in {stored, stored \cup {r}}
    /\ UNCHANGED <<status, chain, created, lease, from, plan, aborted, hubs,
                   crashes, mistaken, dropped>>

\* updateRunStatus; a refused transition or a failing query is logged and the
\* event is emitted all the same.
SettleRead(r) ==
    /\ pc[r] = "settleRead"
    /\ \/ /\ IF Refused(r) THEN Go(r, "emit") ELSE Go(r, "settleWrite")
          /\ UNCHANGED faults
       \/ Fault /\ Go(r, "emit")
    /\ UNCHANGED <<rows, lease, from, plan, aborted, hubs, crashes, mistaken, dropped>>

SettleWrite(r) ==
    /\ pc[r] = "settleWrite"
    /\ \/ Write(r, Outcome(plan[r])) /\ UNCHANGED faults
       \/ Fault /\ UNCHANGED status
    /\ Go(r, "emit")
    /\ UNCHANGED <<chain, created, stored, lease, from, plan, aborted, hubs,
                   crashes, mistaken, dropped>>

EmitFailure(r) ==
    /\ pc[r] = "emit"
    /\ Emit(r, EventOf(plan[r]))
    /\ Go(r, "returning")
    /\ UNCHANGED <<rows, lease, from, plan, aborted, active, history>>

\* keepLeaseUntilFinished releases; then the entry counts as finished and, on
\* a rejection, the safety net starts with the abort signal as it is now.
Return(r) ==
    /\ pc[r] \in Returning
    /\ Released(r)
    /\ IF pc[r] = "returning"
       THEN Go(r, "ended") /\ plan' = [plan EXCEPT ![r] = "none"]
       ELSE /\ Go(r, "net")
            /\ plan' = [plan EXCEPT ![r] = IF r \in aborted THEN "cancelled" ELSE "failed"]
    /\ UNCHANGED <<rows, from, aborted, hubs, crashes, mistaken, dropped>>
-----------------------------------------------------------------------------
(* terminalizeEscapedBackgroundFailure: a failing query of its own is logged *)
(* and nothing is emitted.                                                  *)
NetRead(r) ==
    /\ pc[r] = "net"
    /\ \/ /\ IF status[r] \in Terminal THEN Go(r, "ended") ELSE Go(r, "netWrite")
          /\ UNCHANGED faults
       \/ Fault /\ Go(r, "ended")
    /\ UNCHANGED <<rows, lease, from, plan, aborted, hubs, crashes, mistaken, dropped>>

NetWrite(r) ==
    /\ pc[r] = "netWrite"
    /\ Write(r, Outcome(plan[r]))
    /\ Emit(r, EventOf(plan[r]))
    /\ Go(r, "ended")
    /\ UNCHANGED <<chain, created, stored, lease, from, plan, aborted, active, history>>

NetWriteFails(r) ==
    /\ pc[r] = "netWrite"
    /\ Fault
    /\ UNCHANGED status \/ Write(r, Outcome(plan[r]))
    /\ Go(r, "ended")
    /\ UNCHANGED <<chain, created, stored, lease, from, plan, aborted, hubs,
                   crashes, mistaken, dropped>>

\* liveGraceMs after the result settled: the entry goes with its abort signal,
\* and the hub closes and forgets its listeners, without ending their responses.
GraceExpires(r) ==
    /\ r \in active
    /\ pc[r] \in {"ended"} \cup Escaped
    /\ active' = active \ {r} /\ aborted' = aborted \ {r}
    /\ UNCHANGED <<rows, lease, pc, from, plan, events, tab, history>>

\* The cancel route: the status it checks may be older than the abort, so it
\* guards nothing.  Nothing reads the signal of a run that is not busy.
Cancel(r) ==
    /\ r \in active /\ Busy(r)
    /\ aborted' = aborted \cup {r}
    /\ UNCHANGED <<rows, lease, pc, from, plan, hubs, history>>
-----------------------------------------------------------------------------
(* GET /api/agent/runs/:runId/events                                       *)

SetTab(t, at) == tab' = [tab EXCEPT ![t] = [@ EXCEPT !.at = at, !.seen = "absent"]]

\* The response ends, and the browser may open another.
EndTab(t) == tab' = [tab EXCEPT ![t] = NoTab]

\* getRun: the status the rest of the handler goes by.
Fetch(t, r) ==
    /\ tab[t].at = "closed"
    /\ status[r] # "absent"
    /\ tab' = [tab EXCEPT ![t] = [at |-> "subscribing", run |-> r, seen |-> status[r]]]
    /\ UNCHANGED <<rows, lease, process, active, events, history>>

\* hub.subscribe first hands the listener what the buffer holds.
NoReplay(r) == FALSE                                               \* mutant
ReplaysEnd(r) == events[r] # <<>>

RepairsOnlyRunning(t) == tab[t].seen = "running"                   \* mutant
NeedsRepair(t) == tab[t].seen \notin Terminal

\* subscribeEvents: a tracked run replays its buffer and goes on streaming
\* unless that held the end; of an untracked one the end is made up from the
\* row, which is repaired first if it is not terminal.
Subscribe(t) ==
    /\ tab[t].at = "subscribing"
    /\ LET r == tab[t].run
           live == r \in active
           repair == ~ live /\ NeedsRepair(t)
       IN  /\ IF repair THEN SetTab(t, "repair")
              ELSE IF live /\ ~ ReplaysEnd(r) THEN SetTab(t, "streaming")
              ELSE EndTab(t)
           /\ mistaken' = IF repair /\ Busy(r) THEN mistaken \cup {r} ELSE mistaken
    /\ UNCHANGED <<rows, lease, process, active, events, faults, crashes, dropped>>

\* repairAbandonedRun: updateRunStatus; if it fails the run is only reported.
RepairRead(t) ==
    /\ tab[t].at = "repair"
    /\ \/ /\ IF Refused(tab[t].run) THEN EndTab(t) ELSE SetTab(t, "repairWrite")
          /\ UNCHANGED faults
       \/ Fault /\ EndTab(t)
    /\ UNCHANGED <<rows, lease, process, active, events, crashes, mistaken, dropped>>

RepairWrite(t) ==
    /\ tab[t].at = "repairWrite"
    /\ Write(tab[t].run, "abandoned")
    /\ SetTab(t, "repairLease")
    /\ UNCHANGED <<chain, created, stored, lease, process, active, events, history>>

RepairWriteFails(t) ==
    /\ tab[t].at = "repairWrite"
    /\ Fault
    /\ EndTab(t)
    /\ UNCHANGED <<rows, lease, process, active, events, crashes, mistaken, dropped>>

\* hasLiveForOwner: the map, which a call that is still in start() is not in.
HasLive(u) == \E r \in active : OwnerOf[r] = u

RepairLease(t) ==
    /\ tab[t].at = "repairLease"
    /\ IF HasLive(OwnerOf[tab[t].run]) THEN EndTab(t) ELSE SetTab(t, "dropLease")
    /\ UNCHANGED <<rows, lease, process, active, events, history>>

\* lease.releaseUser deletes the row of the user, whoever holds it.
DropLease(t) ==
    /\ tab[t].at = "dropLease"
    /\ LET u == OwnerOf[tab[t].run]
       IN  \/ /\ lease' = [lease EXCEPT ![u] = None]
              /\ dropped' = IF \E r \in Runs : lease[u] = r /\ Live(r)
                            THEN dropped \cup {u} ELSE dropped
              /\ UNCHANGED faults
           \/ Fault /\ UNCHANGED <<lease, dropped>>
    /\ EndTab(t)
    /\ UNCHANGED <<rows, process, active, events, crashes, mistaken>>

\* The browser closes the response.
Leave(t) ==
    /\ tab[t].at = "streaming"
    /\ EndTab(t)
    /\ UNCHANGED <<rows, lease, process, active, events, history>>
-----------------------------------------------------------------------------
(* The environment.                                                        *)

\* A lease row expires, its holder gone: a live holder renews it in time, as
\* module ExecutionLease shows.
NotRenewed(u) == TRUE                                              \* mutant
NotTakenOver(u) == FALSE                                           \* mutant
HolderGone(u) == \A r \in Runs : lease[u] = r => ~ Live(r)

ExpireLease(u) ==
    /\ lease[u] # None
    /\ HolderGone(u)
    /\ lease' = [lease EXCEPT ![u] = None]
    /\ UNCHANGED <<rows, process, hubs, history>>

\* The process dies and boots again: runtime.ts clears the leases, unless the
\* database is not reachable at that moment, and touches no run.
Restart ==
    /\ crashes < MaxCrashes
    /\ crashes' = crashes + 1
    /\ pc' = [r \in Runs |-> IF status[r] = "absent" THEN "idle" ELSE "ended"]
    /\ from' = [r \in Runs |-> None]
    /\ plan' = [r \in Runs |-> "none"]
    /\ aborted' = {} /\ active' = {}
    /\ events' = [r \in Runs |-> <<>>]
    /\ tab' = [t \in Tabs |-> NoTab]
    /\ lease' = [u \in Users |-> None] \/ UNCHANGED lease
    /\ UNCHANGED <<rows, faults, mistaken, dropped>>

Start(r) ==
    \/ \E p \in Runs \cup {None} : Request(r, p)
    \/ Acquire(r) \/ AcquireBusy(r) \/ CheckLatest(r) \/ CreateRun(r) \/ Track(r)
    \/ StartFails(r) \/ CreateAmbiguous(r) \/ Unwind(r)

Execute(r) ==
    \/ ReadForRunning(r) \/ WriteRunning(r) \/ SetupFails(r)
    \/ ModelSucceeds(r) \/ ModelBounded(r) \/ ModelFails(r)
    \/ ReadForCompleted(r) \/ WriteCompleted(r) \/ FinalizeFails(r) \/ PublishCompleted(r)

Settle(r) ==
    \/ SettleCheck(r) \/ StoreContinuation(r) \/ SettleRead(r) \/ SettleWrite(r)
    \/ EmitFailure(r) \/ Return(r) \/ NetRead(r) \/ NetWrite(r) \/ NetWriteFails(r)

Watch(t) ==
    \/ \E r \in Runs : Fetch(t, r)
    \/ Subscribe(t) \/ RepairRead(t) \/ RepairWrite(t) \/ RepairWriteFails(t)
    \/ RepairLease(t) \/ DropLease(t) \/ Leave(t)

Next ==
    \/ \E r \in Runs : Start(r) \/ Execute(r) \/ Settle(r) \/ GraceExpires(r) \/ Cancel(r)
    \/ \E t \in Tabs : Watch(t)
    \/ \E u \in Users : ExpireLease(u)
    \/ Restart

Spec == Init /\ [][Next]_vars

\* Steps the process takes by itself once it can: replies of the database and
\* of the model (its loop is bounded by MAX_MODEL_TURNS) arrive.
Work(r) ==
    \/ Acquire(r) \/ AcquireBusy(r) \/ CheckLatest(r) \/ CreateRun(r) \/ Track(r)
    \/ Unwind(r) \/ Execute(r) \/ Settle(r)
Serve(t) ==
    \/ Subscribe(t) \/ RepairRead(t) \/ RepairWrite(t) \/ RepairLease(t) \/ DropLease(t)

\* The event loop runs, timers fire and rows expire.
Fairness ==
    /\ \A r \in Runs : WF_vars(Work(r)) /\ WF_vars(GraceExpires(r))
    /\ \A t \in Tabs : WF_vars(Serve(t))
    /\ \A u \in Users : WF_vars(ExpireLease(u))
FairSpec == Spec /\ Fairness

\* The page of every run is opened again and again, and a stream that may never
\* hear of an end (StreamEnds excepts it) is not kept open for ever.
LeaveSilent(t) == (faults > 0 \/ tab[t].run \in mistaken) /\ Leave(t)
Visits ==
    /\ \A r \in Runs : SF_vars(\E t \in Tabs : Fetch(t, r))
    /\ \A t \in Tabs : WF_vars(LeaveSilent(t))
VisitedSpec == FairSpec /\ Visits
-----------------------------------------------------------------------------
(* A user has at most one execution at a time, unless a repair deleted the *)
(* lease of one that was starting or running (start, execution.ts:250-253; *)
(* repairAbandonedRun, run-manager.ts:411-415).                            *)
OneExecutionPerUser ==
    \A r, s \in Runs :
        Live(r) /\ Live(s) /\ OwnerOf[r] = OwnerOf[s] /\ OwnerOf[r] \notin dropped => r = s

\* "A resumable stop is advertised only after its complete replay state is
\* durable" (run-settlement.ts:141): whatever fails or crashes, a run whose
\* row says it stopped at the turn limit can be continued, with every earlier
\* run of its task, unless a tab repaired one of them while it was running.
ResumableIsReplayable ==
    \A r \in Runs :
        status[r] = "resumable" /\ (\A i \in 1 .. Len(chain[r]) : chain[r][i] \notin mistaken)
            => Resumable(r)

\* A run is continued at most once, however many tabs ask and even if the
\* commit of a continuation was not acknowledged (execution.ts:257-259), as
\* long as its owner's executions exclude each other.
ContinuedOnce ==
    \A r, s \in Runs :
        Parent(r) # None /\ Parent(r) = Parent(s) /\ OwnerOf[r] \notin dropped => r = s

\* "completed" is announced only of a run whose row says so, and stays true
\* of that row; no run announces two ends (run-settlement.ts:116, "duplicate
\* terminal SSE").
AnnouncedTruthfully ==
    \A r \in Runs :
        /\ Len(events[r]) =< 1
        /\ events[r] = <<"completed">> /\ r \notin mistaken => status[r] = "completed"

\* "Terminal states have no outgoing edges" (persistence.ts:137), although
\* updateRunStatus updates by id what it checked before: true of every run
\* that no tab repairs while the process still works on it.
TerminalIsFinal ==
    [][\A r \in Runs : status[r] \in Terminal /\ r \notin mistaken
                        => status'[r] = status[r]]_vars

\* The exclusion with nothing excepted but a tab's mistake: what
\* AGENT_EXECUTION_BUSY and the repair's own comment promise.
AtMostOneExecution ==
    \A r, s \in Runs :
        Live(r) /\ Live(s) /\ OwnerOf[r] = OwnerOf[s] /\ mistaken = {} => r = s

\* The runs implement the lifecycle their watchers rely on: one end, never
\* changed, announced once and truthfully.  A failing query withdraws the
\* promise: it may leave a run without its event, or its event without the
\* end it announces.
EndOf(s) ==
    IF s \in {"queued", "running"} THEN "open"
    ELSE IF s \in Failed THEN "failed" ELSE s
Lifecycle == INSTANCE RunLifecycle WITH
    outcome <- [r \in Runs |-> EndOf(status[r])],
    announced <- [r \in Runs |-> IF events[r] = <<>> THEN "nothing" ELSE Head(events[r])],
    disowned <- IF faults > 0 THEN Runs ELSE mistaken
ImplementsLifecycle == Lifecycle!Spec

\* Without failing queries a stream ends, whether its run completes, fails, is
\* cancelled or ends with the process: "so the UI cannot stay in Thinking
\* forever" (run-manager.ts:279-280).
Streaming(t, r) == tab[t].at = "streaming" /\ tab[t].run = r
StreamEnds ==
    \A t \in Tabs : \A r \in Runs :
        Streaming(t, r) /\ r \notin mistaken /\ faults = 0 ~>
            ~ Streaming(t, r) \/ r \in mistaken \/ faults > 0

\* Every run becomes terminal, whatever fails and if the process dies under it:
\* by its own settlement, the safety net, or the repair its next visitor makes.
EveryRunEnds == \A r \in Runs : (status[r] # "absent") ~> (status[r] \in Terminal)

\* No failure locks a user out: the lease is free again and again.
LeaseFreed == \A u \in Users : []<>(lease[u] = None)
=============================================================================
