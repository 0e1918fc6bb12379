--------------------------- MODULE AgentRuns_proofs ---------------------------
(***************************************************************************)
(* What holds of agent runs for any number of users, runs and tabs, of     *)
(* failing queries and of restarts: a user's executions exclude each       *)
(* other, a terminal state is final and announced truthfully, a resumable  *)
(* run can be replayed and is continued once, and all of it implements     *)
(* the lifecycle that the watchers of a run rely on.                       *)
(***************************************************************************)
EXTENDS AgentRuns, SequenceTheorems, WellFoundedInduction, TLAPS

-----------------------------------------------------------------------------
(* The inductive invariant.                                                *)

Unstarted == {"idle", "acquiring", "checking", "creating"}
Open == {"queued", "running"}

\* A call between acquire and release has the lease, unless a repair took it.
LeaseHeld ==
    \A r \in Runs :
        Live(r) /\ OwnerOf[r] \notin dropped => lease[OwnerOf[r]] = r

\* What a call knows of its row, if no tab has repaired it meanwhile.
RowMatches ==
    \A r \in Runs :
        /\ pc[r] \in Unstarted <=> status[r] = "absent" /\ pc[r] # "unwinding"
        /\ pc[r] \in Escaped => plan[r] \in {"failed", "cancelled"}
        /\ r \notin mistaken =>
              /\ pc[r] \in {"committed", "setup", "setupWrite"} => status[r] = "queued"
              /\ pc[r] \in {"model", "finalize", "finalWrite"} => status[r] = "running"
              /\ pc[r] = "publish" => status[r] = "completed"
              /\ pc[r] \in {"settleWrite", "netWrite"} => status[r] \in Open

\* A tab repairs a run nobody works on, or the run is one it mistook.
TabsRepair ==
    \A t \in Tabs :
        /\ tab[t].at # "closed" => tab[t].run \in Runs /\ status[tab[t].run] # "absent"
        /\ tab[t].at \in {"repair", "repairWrite"} /\ tab[t].run \notin mistaken
              => ~ Busy(tab[t].run)
        /\ tab[t].at = "repairWrite" /\ tab[t].run \notin mistaken
              => status[tab[t].run] \in Open \cup {"abandoned"}

\* An end is announced once, as the last thing a call does.
Announced ==
    \A r \in Runs :
        /\ Len(events[r]) =< 1
        /\ events[r] # <<>> => pc[r] \in {"returning", "ended"}
        /\ events[r] = <<"completed">> /\ r \notin mistaken => status[r] = "completed"

\* created lists the rows, a run after the one it continues; its chain is that
\* run's with itself added.
Listed ==
    /\ \A i, j \in DOMAIN created : created[i] = created[j] => i = j
    /\ \A r \in Runs : status[r] # "absent" <=> \E i \in DOMAIN created : created[i] = r

Chained ==
    \A r \in Runs :
        IF status[r] = "absent" THEN chain[r] = <<>>
        ELSE \/ chain[r] = <<r>>
             \/ \E p \in Runs :
                   /\ chain[r] = Append(chain[p], r) /\ chain[p] # <<>>
                   /\ OwnerOf[p] = OwnerOf[r]
                   /\ \E i, j \in DOMAIN created : created[i] = p /\ created[j] = r /\ i < j

\* p and the runs before it can be replayed, but for what a tab repaired.
Replayable(p) ==
    \A i \in DOMAIN chain[p] :
        chain[p][i] \in mistaken \/ (chain[p][i] \in stored /\ status[chain[p][i]] = "resumable")

\* A resumable row has its continuation stored; one about to be written too.
Stored ==
    \A r \in Runs :
        /\ status[r] = "resumable" => r \in stored
        /\ pc[r] \in {"settleRead", "settleWrite"} /\ plan[r] = "resumable" => r \in stored

\* What is continued could be replayed when it was, and still can.
Continued ==
    \A r \in Runs :
        /\ pc[r] \in Unstarted /\ from[r] # None =>
              status[from[r]] # "absent" /\ OwnerOf[from[r]] = OwnerOf[r] /\ Replayable(from[r])
        /\ Parent(r) # None => Replayable(Parent(r))

\* A call that has seen its run to be the newest of the task is the next.
NextInTask ==
    \A r \in Runs :
        pc[r] = "creating" /\ from[r] # None /\ OwnerOf[r] \notin dropped
            => \A s \in Runs : Parent(s) # from[r]

IInv ==
    /\ TypeOK
    /\ LeaseHeld /\ RowMatches /\ TabsRepair /\ Announced
    /\ Listed /\ Chained /\ Stored /\ Continued /\ NextInTask /\ ContinuedOnce

\* While no query failed, a call in progress is tracked and its row is open
\* until the end it announces is written.
Faultless ==
    /\ \A r \in Runs : pc[r] \in Executing \cup Returning => r \in active
    /\ faults = 0 =>
          \A r \in Runs :
              /\ pc[r] \notin Escaped \cup {"rejecting"}
              /\ r \notin mistaken =>
                    /\ pc[r] \in {"settle", "store", "settleRead"} => status[r] \in Open
                    /\ pc[r] = "emit" => EndOf(status[r]) = EventOf(plan[r])

USE OwnersAssumption, NoneAssumption, StoppedAssumption, BoundsAssumption

-----------------------------------------------------------------------------
(* What the helpers of the actions do, pointwise.                          *)

EndEvents == {"completed", "failed", "cancelled"}

\* Literals of the source are in the sets the variables range over.
LEMMA Names ==
    /\ "completed" \in EndEvents
    /\ {"idle", "acquiring", "ended", "checking", "creating", "committed", "unwinding", "setup"} \subseteq Pcs
    /\ {"setupWrite", "model", "finalize", "finalWrite", "publish", "settle", "store"} \subseteq Pcs
    /\ {"settleRead", "settleWrite", "emit", "returning", "rejecting", "net", "netWrite"} \subseteq Pcs
    /\ {"queued", "running", "completed", "failed", "cancelled", "resumable", "abandoned", "absent"} \subseteq Statuses
    /\ {"none", "failed", "cancelled", "resumable", "cancelledResumable"} \subseteq Plans
    /\ {"closed", "subscribing", "streaming", "repair", "repairWrite", "repairLease", "dropLease"} \subseteq TabStates
    /\ NoTab \in [at : TabStates, run : Runs \cup {None}, seen : Statuses]
BY DEF Pcs, Starting, Executing, Returning, Escaped, Statuses, Terminal, Failed, Plans,
     TabStates, NoTab, EndEvents

\* The end a plan writes and announces.
LEMMA Values ==
    /\ \A p : Outcome(p) \in {"cancelled", "resumable", "failed"} /\ Outcome(p) \in Statuses
    /\ \A p : EventOf(p) \in {"cancelled", "failed"} /\ EventOf(p) \in EndEvents
    /\ \A r : AfterCheck(r) \in {"store", "settleRead"} /\ AfterCheck(r) \in Pcs
BY Names DEF Outcome, EventOf, AfterCheck, EndEvents

\* The insert of start(): a row, after all others, that continues one.
LEMMA InsertEffect ==
    TypeOK => \A r \in Runs : InsertRow(r) =>
        /\ Write(r, "queued") /\ created' = Append(created, r) /\ created' \in Seq(Runs)
        /\ chain' \in [Runs -> Seq(Runs)] /\ chain'[r] = Append(Before(r), r)
        /\ \A s \in Runs \ {r} : chain'[s] = chain[s]
        /\ stored' = stored
<1> SUFFICES ASSUME TypeOK, NEW r \in Runs, InsertRow(r)
             PROVE  /\ created' \in Seq(Runs)
                    /\ chain' \in [Runs -> Seq(Runs)] /\ chain'[r] = Append(Before(r), r)
                    /\ \A s \in Runs \ {r} : chain'[s] = chain[s]
  BY DEF InsertRow
<1>1. Before(r) \in Seq(Runs)
  BY DEF TypeOK, Before
<1>2. Append(Before(r), r) \in Seq(Runs) /\ Append(created, r) \in Seq(Runs)
  BY <1>1 DEF TypeOK
<1>3. chain' = [chain EXCEPT ![r] = Append(Before(r), r)] /\ created' = Append(created, r)
  BY DEF InsertRow
<1> QED  BY <1>2, <1>3 DEF TypeOK

\* A call goes on, no other does.
LEMMA GoEffect ==
    TypeOK => \A r \in Runs : \A p \in Pcs : Go(r, p) =>
        pc' \in [Runs -> Pcs] /\ pc'[r] = p /\ \A s \in Runs \ {r} : pc'[s] = pc[s]
BY DEF TypeOK, Go

\* A status is written by id.
LEMMA WriteEffect ==
    TypeOK => \A r \in Runs : \A x \in Statuses : Write(r, x) =>
        status' \in [Runs -> Statuses] /\ status'[r] = x /\ \A s \in Runs \ {r} : status'[s] = status[s]
BY DEF TypeOK, Write

\* runExecution hands its end over to settleTerminalRunFailure.
LEMMA SettleEffect ==
    TypeOK => \A r \in Runs : \A x \in Plans : SettleWith(r, x) =>
        /\ Go(r, "settle")
        /\ plan' \in [Runs -> Plans] /\ plan'[r] = x /\ \A s \in Runs \ {r} : plan'[s] = plan[s]
BY DEF TypeOK, SettleWith

\* The outer catch, by the abort signal.
LEMMA CaughtEffect ==
    TypeOK => \A r \in Runs : Caught(r) =>
        SettleWith(r, "cancelled") \/ SettleWith(r, "failed")
BY DEF Caught

\* A query fails.
LEMMA FaultEffect == TypeOK /\ Fault => faults' \in Nat /\ faults' > 0
BY DEF TypeOK, Fault

\* A release deletes at most the lease of the call itself.
LEMMA ReleaseEffect ==
    TypeOK => \A r \in Runs : Released(r) =>
        /\ lease' \in [Users -> Runs \cup {None}]
        /\ \A u \in Users : lease'[u] = lease[u] \/ (lease[u] = r /\ lease'[u] = None)
        /\ (faults' = faults) \/ Fault
BY DEF TypeOK, Released, ReleaseLease

\* An event goes into the buffer of a tracked run and ends its streams.
LEMMA EmitEffect ==
    TypeOK => \A r \in Runs : \A e \in EndEvents : Emit(r, e) =>
        /\ events' \in [Runs -> Seq({"completed", "failed", "cancelled"})]
        /\ tab' \in [Tabs -> [at : TabStates, run : Runs \cup {None}, seen : Statuses]]
        /\ events'[r] = IF r \in active THEN Append(events[r], e) ELSE events[r]
        /\ \A s \in Runs \ {r} : events'[s] = events[s]
        /\ \A t \in Tabs : tab'[t] = tab[t] \/ tab'[t] = NoTab
<1> SUFFICES ASSUME TypeOK, NEW r \in Runs, NEW e \in EndEvents, Emit(r, e)
             PROVE  /\ events' \in [Runs -> Seq({"completed", "failed", "cancelled"})]
                    /\ tab' \in [Tabs -> [at : TabStates, run : Runs \cup {None}, seen : Statuses]]
                    /\ events'[r] = IF r \in active THEN Append(events[r], e) ELSE events[r]
                    /\ \A s \in Runs \ {r} : events'[s] = events[s]
                    /\ \A t \in Tabs : tab'[t] = tab[t] \/ tab'[t] = NoTab
  OBVIOUS
<1>1. CASE r \in active
  <2>1. /\ events' = [events EXCEPT ![r] = Append(events[r], e)]
        /\ tab' = [t \in Tabs |-> IF tab[t].at = "streaming" /\ tab[t].run = r THEN NoTab ELSE tab[t]]
    BY <1>1 DEF Emit
  <2>2. Append(events[r], e) \in Seq({"completed", "failed", "cancelled"})
    BY DEF TypeOK, EndEvents
  <2>3. tab' \in [Tabs -> [at : TabStates, run : Runs \cup {None}, seen : Statuses]]
    BY <2>1, Names DEF TypeOK
  <2>4. \A t \in Tabs : tab'[t] = tab[t] \/ tab'[t] = NoTab
    BY <2>1
  <2> QED  BY <1>1, <2>1, <2>2, <2>3, <2>4 DEF TypeOK
<1>2. CASE r \notin active
  BY <1>2 DEF Emit, TypeOK
<1> QED  BY <1>1, <1>2

\* A tab goes on or its response ends, no other does.
LEMMA TabEffect ==
    TypeOK => \A t \in Tabs :
        /\ \A at \in TabStates : SetTab(t, at) =>
              /\ tab' \in [Tabs -> [at : TabStates, run : Runs \cup {None}, seen : Statuses]]
              /\ tab'[t].at = at /\ tab'[t].run = tab[t].run
              /\ \A s \in Tabs \ {t} : tab'[s] = tab[s]
        /\ EndTab(t) =>
              /\ tab' \in [Tabs -> [at : TabStates, run : Runs \cup {None}, seen : Statuses]]
              /\ tab'[t] = NoTab
              /\ \A s \in Tabs \ {t} : tab'[s] = tab[s]
<1> SUFFICES ASSUME TypeOK, NEW t \in Tabs
             PROVE  /\ \A at \in TabStates : SetTab(t, at) =>
                          /\ tab' \in [Tabs -> [at : TabStates, run : Runs \cup {None}, seen : Statuses]]
                          /\ tab'[t].at = at /\ tab'[t].run = tab[t].run
                          /\ \A s \in Tabs \ {t} : tab'[s] = tab[s]
                    /\ EndTab(t) =>
                          /\ tab' \in [Tabs -> [at : TabStates, run : Runs \cup {None}, seen : Statuses]]
                          /\ tab'[t] = NoTab
                          /\ \A s \in Tabs \ {t} : tab'[s] = tab[s]
  OBVIOUS
<1>1. ASSUME NEW at \in TabStates, SetTab(t, at)
      PROVE  /\ tab' \in [Tabs -> [at : TabStates, run : Runs \cup {None}, seen : Statuses]]
             /\ tab'[t].at = at /\ tab'[t].run = tab[t].run
             /\ \A s \in Tabs \ {t} : tab'[s] = tab[s]
  <2> DEFINE new == [tab[t] EXCEPT !.at = at, !.seen = "absent"]
  <2>1. tab[t] \in [at : TabStates, run : Runs \cup {None}, seen : Statuses]
    BY DEF TypeOK
  <2>2. new \in [at : TabStates, run : Runs \cup {None}, seen : Statuses] /\ new.at = at /\ new.run = tab[t].run
    BY <2>1, Names
  <2>3. tab' = [tab EXCEPT ![t] = new]
    BY <1>1 DEF SetTab
  <2> HIDE DEF new
  <2> QED  BY <2>2, <2>3 DEF TypeOK
<1>2. ASSUME EndTab(t)
      PROVE  /\ tab' \in [Tabs -> [at : TabStates, run : Runs \cup {None}, seen : Statuses]]
             /\ tab'[t] = NoTab
             /\ \A s \in Tabs \ {t} : tab'[s] = tab[s]
  BY <1>2, Names DEF EndTab, TypeOK
<1> QED  BY <1>1, <1>2

\* A rejected execution goes to the safety net with its abort signal.
LEMMA ReturnEffect ==
    TypeOK => \A r \in Runs : Return(r) =>
        /\ pc' \in [Runs -> Pcs] /\ plan' \in [Runs -> Plans]
        /\ pc[r] \in Returning /\ pc'[r] \in {"ended", "net"}
        /\ pc'[r] = "net" => pc[r] = "rejecting" /\ plan'[r] \in {"cancelled", "failed"}
        /\ \A s \in Runs \ {r} : pc'[s] = pc[s] /\ plan'[s] = plan[s]
<1> SUFFICES ASSUME TypeOK, NEW r \in Runs, Return(r)
             PROVE  /\ pc' \in [Runs -> Pcs] /\ plan' \in [Runs -> Plans]
                    /\ pc[r] \in Returning /\ pc'[r] \in {"ended", "net"}
                    /\ pc'[r] = "net" => pc[r] = "rejecting" /\ plan'[r] \in {"cancelled", "failed"}
                    /\ \A s \in Runs \ {r} : pc'[s] = pc[s] /\ plan'[s] = plan[s]
  OBVIOUS
<1>1. CASE pc[r] = "returning"
  <2>1. Go(r, "ended") /\ plan' = [plan EXCEPT ![r] = "none"]
    BY <1>1 DEF Return
  <2> QED  BY <1>1, <2>1, GoEffect, Names DEF TypeOK, Returning
<1>2. CASE pc[r] = "rejecting"
  <2> DEFINE p == IF r \in aborted THEN "cancelled" ELSE "failed"
  <2>1. Go(r, "net") /\ plan' = [plan EXCEPT ![r] = p]
    BY <1>2 DEF Return
  <2>2. p \in {"cancelled", "failed"} /\ p \in Plans
    BY Names
  <2> HIDE DEF p
  <2> QED  BY <1>2, <2>1, <2>2, GoEffect, Names DEF TypeOK, Returning
<1> QED  BY <1>1, <1>2 DEF Return, Returning

\* An inserted row is queued.
LEMMA InsertStatus ==
    TypeOK => \A r \in Runs : InsertRow(r) =>
        status'[r] = "queued" /\ \A s \in Runs \ {r} : status'[s] = status[s]
BY InsertEffect, WriteEffect, Names

\* The first event of a hub.
LEMMA FirstEvent ==
    /\ Len(<<>>) = 0 /\ <<>> # <<"completed">>
    /\ \A e \in EndEvents :
          /\ Append(<<>>, e) = <<e>> /\ Len(<<e>>) = 1
          /\ <<e>> = <<"completed">> => e = "completed"
OBVIOUS

\* updateRunStatus refuses all writes to a terminal row.
LEMMA NotTerminal == TypeOK => \A r \in Runs : ~ Refused(r) => status[r] \in Open \cup {"absent"}
BY DEF TypeOK, Refused, Statuses, Open

\* Every step keeps the types.
LEMMA TypeKeeps == TypeOK /\ TabsRepair /\ [Next]_vars => TypeOK'
<1> SUFFICES ASSUME TypeOK, TabsRepair, [Next]_vars PROVE TypeOK'
  OBVIOUS
<1>1. ASSUME NEW r \in Runs, Acquire(r) PROVE TypeOK'
  BY <1>1, Names, GoEffect DEF Acquire, TypeOK, rows, hubs, history
<1>2. ASSUME NEW r \in Runs, AcquireBusy(r) PROVE TypeOK'
  BY <1>2, Names, GoEffect DEF AcquireBusy, TypeOK, rows, hubs, history
<1>3. ASSUME NEW r \in Runs, CheckLatest(r) PROVE TypeOK'
  BY <1>3, Names, GoEffect DEF CheckLatest, TypeOK, rows, hubs, history
<1>4. ASSUME NEW r \in Runs, Track(r) PROVE TypeOK'
  BY <1>4, Names, GoEffect DEF Track, TypeOK, rows, history
<1>5. ASSUME NEW r \in Runs, StartFails(r) PROVE TypeOK'
  BY <1>5, Names, GoEffect DEF StartFails, TypeOK, rows, hubs, history
<1>6. ASSUME NEW r \in Runs, CreateRun(r) PROVE TypeOK'
  BY <1>6, Names, GoEffect, WriteEffect, InsertEffect DEF CreateRun, TypeOK, hubs, history
<1>7. ASSUME NEW r \in Runs, CreateAmbiguous(r) PROVE TypeOK'
  BY <1>7, Names, GoEffect, WriteEffect, FaultEffect, InsertEffect DEF CreateAmbiguous,
       TypeOK, hubs
<1>8. ASSUME NEW r \in Runs, Unwind(r) PROVE TypeOK'
  BY <1>8, Names, GoEffect, ReleaseEffect, FaultEffect DEF Unwind, TypeOK, rows, hubs
<1>9. ASSUME NEW r \in Runs, ReadForRunning(r) PROVE TypeOK'
  BY <1>9, Names, GoEffect, CaughtEffect, SettleEffect DEF ReadForRunning, TypeOK, rows,
       hubs, history
<1>10. ASSUME NEW r \in Runs, WriteRunning(r) PROVE TypeOK'
  BY <1>10, Names, GoEffect, WriteEffect DEF WriteRunning, TypeOK, hubs, history
<1>11. ASSUME NEW r \in Runs, SetupFails(r) PROVE TypeOK'
  BY <1>11, Names, GoEffect, CaughtEffect, SettleEffect, FaultEffect DEF SetupFails, TypeOK,
       rows, hubs
<1>12. ASSUME NEW r \in Runs, ModelSucceeds(r) PROVE TypeOK'
  BY <1>12, Names, GoEffect DEF ModelSucceeds, TypeOK, rows, hubs, history
<1>13. ASSUME NEW r \in Runs, ModelBounded(r) PROVE TypeOK'
  BY <1>13, Names, GoEffect, SettleEffect DEF ModelBounded, TypeOK, rows, hubs, history
<1>14. ASSUME NEW r \in Runs, ModelFails(r) PROVE TypeOK'
  BY <1>14, Names, GoEffect, CaughtEffect, SettleEffect DEF ModelFails, TypeOK, rows, hubs,
       history
<1>15. ASSUME NEW r \in Runs, ReadForCompleted(r) PROVE TypeOK'
  BY <1>15, Names, GoEffect, CaughtEffect, SettleEffect DEF ReadForCompleted, TypeOK, rows,
       hubs, history
<1>16. ASSUME NEW r \in Runs, WriteCompleted(r) PROVE TypeOK'
  BY <1>16, Names, GoEffect, WriteEffect DEF WriteCompleted, TypeOK, hubs, history
<1>17. ASSUME NEW r \in Runs, FinalizeFails(r) PROVE TypeOK'
  <2>1. Caught(r) /\ Fault /\ (UNCHANGED status \/ Write(r, "completed"))
    BY <1>17 DEF FinalizeFails
  <2>2. status' \in [Runs -> Statuses]
    BY <2>1, WriteEffect, Names DEF TypeOK
  <2>3. pc' \in [Runs -> Pcs] /\ plan' \in [Runs -> Plans] /\ faults' \in Nat
    BY <2>1, CaughtEffect, SettleEffect, GoEffect, FaultEffect, Names
  <2> QED  BY <1>17, <2>2, <2>3 DEF FinalizeFails, TypeOK, hubs
<1>18. ASSUME NEW r \in Runs, PublishCompleted(r) PROVE TypeOK'
  BY <1>18, Names, GoEffect, EmitEffect DEF PublishCompleted, TypeOK, rows, history
<1>19. ASSUME NEW r \in Runs, SettleCheck(r) PROVE TypeOK'
  BY <1>19, Names, GoEffect, FaultEffect, Values DEF SettleCheck, TypeOK, rows, hubs
<1>20. ASSUME NEW r \in Runs, StoreContinuation(r) PROVE TypeOK'
  BY <1>20, Names, GoEffect, FaultEffect DEF StoreContinuation, TypeOK, hubs
<1>21. ASSUME NEW r \in Runs, SettleRead(r) PROVE TypeOK'
  BY <1>21, Names, GoEffect, FaultEffect DEF SettleRead, TypeOK, rows, hubs
<1>22. ASSUME NEW r \in Runs, SettleWrite(r) PROVE TypeOK'
  BY <1>22, Names, GoEffect, WriteEffect, FaultEffect, Values DEF SettleWrite, TypeOK, hubs
<1>23. ASSUME NEW r \in Runs, EmitFailure(r) PROVE TypeOK'
  BY <1>23, Names, GoEffect, EmitEffect, Values DEF EmitFailure, TypeOK, rows, history
<1>24. ASSUME NEW r \in Runs, Return(r) PROVE TypeOK'
  <2>1. lease' \in [Users -> Runs \cup {None}] /\ faults' \in Nat
    BY <1>24, ReleaseEffect, FaultEffect DEF Return, TypeOK
  <2>2. pc' \in [Runs -> Pcs] /\ plan' \in [Runs -> Plans]
    BY <1>24, ReturnEffect
  <2> QED  BY <1>24, <2>1, <2>2 DEF Return, TypeOK, rows, hubs
<1>25. ASSUME NEW r \in Runs, NetRead(r) PROVE TypeOK'
  BY <1>25, Names, GoEffect, FaultEffect DEF NetRead, TypeOK, rows, hubs
<1>26. ASSUME NEW r \in Runs, NetWrite(r) PROVE TypeOK'
  BY <1>26, Names, GoEffect, WriteEffect, EmitEffect, Values DEF NetWrite, TypeOK, history
<1>27. ASSUME NEW r \in Runs, NetWriteFails(r) PROVE TypeOK'
  BY <1>27, Names, GoEffect, WriteEffect, FaultEffect, Values DEF NetWriteFails, TypeOK, hubs
<1>28. ASSUME NEW r \in Runs, GraceExpires(r) PROVE TypeOK'
  BY <1>28, Names DEF GraceExpires, TypeOK, rows, history
<1>29. ASSUME NEW r \in Runs, Cancel(r) PROVE TypeOK'
  BY <1>29, Names DEF Cancel, TypeOK, rows, hubs, history
<1>30. ASSUME NEW r \in Runs, NEW p \in Runs \cup {None}, Request(r, p) PROVE TypeOK'
  BY <1>30, Names, GoEffect DEF Request, TypeOK, rows, hubs, history
<1>31. ASSUME NEW t \in Tabs, NEW r \in Runs, Fetch(t, r) PROVE TypeOK'
  BY <1>31, Names DEF Fetch, TypeOK, rows, process, history
<1>32. ASSUME NEW t \in Tabs, Subscribe(t) PROVE TypeOK'
  <2>1. tab' \in [Tabs -> [at : TabStates, run : Runs \cup {None}, seen : Statuses]]
    BY <1>32, TabEffect, Names DEF Subscribe
  <2>2. mistaken' \in SUBSET Runs
    BY <1>32 DEF Subscribe, TabsRepair, TypeOK
  <2> QED  BY <1>32, <2>1, <2>2 DEF Subscribe, TypeOK, rows, process
<1>33. ASSUME NEW t \in Tabs, RepairRead(t) PROVE TypeOK'
  BY <1>33, Names, TabEffect, FaultEffect DEF RepairRead, TabsRepair, TypeOK, rows, process
<1>34. ASSUME NEW t \in Tabs, RepairWrite(t) PROVE TypeOK'
  BY <1>34, Names, TabEffect, WriteEffect DEF RepairWrite, TabsRepair, TypeOK, process,
       history
<1>35. ASSUME NEW t \in Tabs, RepairWriteFails(t) PROVE TypeOK'
  BY <1>35, Names, TabEffect, FaultEffect DEF RepairWriteFails, TabsRepair, TypeOK, rows,
       process
<1>36. ASSUME NEW t \in Tabs, RepairLease(t) PROVE TypeOK'
  BY <1>36, Names, TabEffect DEF RepairLease, TabsRepair, TypeOK, rows, process, history
<1>37. ASSUME NEW t \in Tabs, DropLease(t) PROVE TypeOK'
  <2> DEFINE u == OwnerOf[tab[t].run]
  <2>1. u \in Users
    BY <1>37 DEF DropLease, TabsRepair
  <2>2. lease' \in [Users -> Runs \cup {None}] /\ dropped' \in SUBSET Users /\ faults' \in Nat
    BY <1>37, <2>1, FaultEffect DEF DropLease, TabsRepair, TypeOK
  <2>3. tab' \in [Tabs -> [at : TabStates, run : Runs \cup {None}, seen : Statuses]]
    BY <1>37, TabEffect DEF DropLease
  <2> QED  BY <1>37, <2>2, <2>3 DEF DropLease, TabsRepair, TypeOK, rows, process
<1>38. ASSUME NEW t \in Tabs, Leave(t) PROVE TypeOK'
  BY <1>38, Names, TabEffect DEF Leave, TypeOK, rows, process, history
<1>39. ASSUME NEW u \in Users, ExpireLease(u) PROVE TypeOK'
  BY <1>39, Names DEF ExpireLease, TypeOK, rows, process, hubs, history
<1>40. ASSUME Restart PROVE TypeOK'
  BY <1>40, Names DEF Restart, TypeOK, rows
<1>41. CASE UNCHANGED vars
  BY <1>41 DEF vars, rows, process, hubs, history, TypeOK
<1> QED  BY <1>1, <1>2, <1>3, <1>4, <1>5, <1>6, <1>7, <1>8, <1>9, <1>10, <1>11, <1>12,
            <1>13, <1>14, <1>15, <1>16, <1>17, <1>18, <1>19, <1>20, <1>21, <1>22, <1>23,
            <1>24, <1>25, <1>26, <1>27, <1>28, <1>29, <1>30, <1>31, <1>32, <1>33, <1>34,
            <1>35, <1>36, <1>37, <1>38, <1>39, <1>40, <1>41 DEF Next, Start, Execute,
            Settle, Watch

\* Every step leaves a live call its lease, but for a repair.
LEMMA LeaseKeeps == TypeOK /\ LeaseHeld /\ TabsRepair /\ [Next]_vars => LeaseHeld'
<1> SUFFICES ASSUME TypeOK, LeaseHeld, TabsRepair, [Next]_vars PROVE LeaseHeld'
  OBVIOUS
<1>0. lease \in [Users -> Runs \cup {None}] /\ \A r \in Runs : OwnerOf[r] \in Users
  BY OwnersAssumption DEF TypeOK
<1>1. ASSUME NEW r \in Runs, Acquire(r) PROVE LeaseHeld'
  BY <1>1, <1>0, Names, GoEffect DEF Acquire, LeaseHeld, Live, Starting, Executing,
       Returning, rows, hubs, history
<1>2. ASSUME NEW r \in Runs, AcquireBusy(r) PROVE LeaseHeld'
  BY <1>2, <1>0, Names, GoEffect DEF AcquireBusy, LeaseHeld, Live, Starting, Executing,
       Returning, rows, hubs, history
<1>3. ASSUME NEW r \in Runs, CheckLatest(r) PROVE LeaseHeld'
  BY <1>3, <1>0, Names, GoEffect DEF CheckLatest, LeaseHeld, Live, Starting, Executing,
       Returning, rows, hubs, history
<1>4. ASSUME NEW r \in Runs, Track(r) PROVE LeaseHeld'
  BY <1>4, <1>0, Names, GoEffect DEF Track, LeaseHeld, Live, Starting, Executing, Returning,
       rows, history
<1>5. ASSUME NEW r \in Runs, StartFails(r) PROVE LeaseHeld'
  BY <1>5, <1>0, Names, GoEffect DEF StartFails, LeaseHeld, Live, Starting, Executing,
       Returning, rows, hubs, history
<1>6. ASSUME NEW r \in Runs, CreateRun(r) PROVE LeaseHeld'
  BY <1>6, <1>0, Names, GoEffect DEF CreateRun, LeaseHeld, Live, Starting, Executing,
       Returning, hubs, history
<1>7. ASSUME NEW r \in Runs, CreateAmbiguous(r) PROVE LeaseHeld'
  BY <1>7, <1>0, Names, GoEffect DEF CreateAmbiguous, LeaseHeld, Live, Starting, Executing,
       Returning, hubs
<1>8. ASSUME NEW r \in Runs, Unwind(r) PROVE LeaseHeld'
  BY <1>8, <1>0, Names, GoEffect, ReleaseEffect DEF Unwind, LeaseHeld, Live, Starting,
       Executing, Returning, rows, hubs
<1>9. ASSUME NEW r \in Runs, ReadForRunning(r) PROVE LeaseHeld'
  BY <1>9, <1>0, Names, GoEffect, CaughtEffect, SettleEffect DEF ReadForRunning, LeaseHeld,
       Live, Starting, Executing, Returning, rows, hubs, history
<1>10. ASSUME NEW r \in Runs, WriteRunning(r) PROVE LeaseHeld'
  BY <1>10, <1>0, Names, GoEffect DEF WriteRunning, LeaseHeld, Live, Starting, Executing,
       Returning, hubs, history
<1>11. ASSUME NEW r \in Runs, SetupFails(r) PROVE LeaseHeld'
  BY <1>11, <1>0, Names, GoEffect, CaughtEffect, SettleEffect DEF SetupFails, LeaseHeld,
       Live, Starting, Executing, Returning, rows, hubs
<1>12. ASSUME NEW r \in Runs, ModelSucceeds(r) PROVE LeaseHeld'
  BY <1>12, <1>0, Names, GoEffect DEF ModelSucceeds, LeaseHeld, Live, Starting, Executing,
       Returning, rows, hubs, history
<1>13. ASSUME NEW r \in Runs, ModelBounded(r) PROVE LeaseHeld'
  BY <1>13, <1>0, Names, GoEffect, SettleEffect DEF ModelBounded, LeaseHeld, Live, Starting,
       Executing, Returning, rows, hubs, history
<1>14. ASSUME NEW r \in Runs, ModelFails(r) PROVE LeaseHeld'
  BY <1>14, <1>0, Names, GoEffect, CaughtEffect, SettleEffect DEF ModelFails, LeaseHeld,
       Live, Starting, Executing, Returning, rows, hubs, history
<1>15. ASSUME NEW r \in Runs, ReadForCompleted(r) PROVE LeaseHeld'
  BY <1>15, <1>0, Names, GoEffect, CaughtEffect, SettleEffect DEF ReadForCompleted,
       LeaseHeld, Live, Starting, Executing, Returning, rows, hubs, history
<1>16. ASSUME NEW r \in Runs, WriteCompleted(r) PROVE LeaseHeld'
  BY <1>16, <1>0, Names, GoEffect DEF WriteCompleted, LeaseHeld, Live, Starting, Executing,
       Returning, hubs, history
<1>17. ASSUME NEW r \in Runs, FinalizeFails(r) PROVE LeaseHeld'
  BY <1>17, <1>0, Names, GoEffect, CaughtEffect, SettleEffect DEF FinalizeFails, LeaseHeld,
       Live, Starting, Executing, Returning, hubs
<1>18. ASSUME NEW r \in Runs, PublishCompleted(r) PROVE LeaseHeld'
  BY <1>18, <1>0, Names, GoEffect DEF PublishCompleted, LeaseHeld, Live, Starting,
       Executing, Returning, rows, history
<1>19. ASSUME NEW r \in Runs, SettleCheck(r) PROVE LeaseHeld'
  BY <1>19, <1>0, Names, GoEffect, Values DEF SettleCheck, LeaseHeld, Live, Starting,
       Executing, Returning, rows, hubs
<1>20. ASSUME NEW r \in Runs, StoreContinuation(r) PROVE LeaseHeld'
  BY <1>20, <1>0, Names, GoEffect DEF StoreContinuation, LeaseHeld, Live, Starting,
       Executing, Returning, hubs
<1>21. ASSUME NEW r \in Runs, SettleRead(r) PROVE LeaseHeld'
  BY <1>21, <1>0, Names, GoEffect DEF SettleRead, LeaseHeld, Live, Starting, Executing,
       Returning, rows, hubs
<1>22. ASSUME NEW r \in Runs, SettleWrite(r) PROVE LeaseHeld'
  BY <1>22, <1>0, Names, GoEffect, Values DEF SettleWrite, LeaseHeld, Live, Starting,
       Executing, Returning, hubs
<1>23. ASSUME NEW r \in Runs, EmitFailure(r) PROVE LeaseHeld'
  BY <1>23, <1>0, Names, GoEffect, Values DEF EmitFailure, LeaseHeld, Live, Starting,
       Executing, Returning, rows, history
<1>24. ASSUME NEW r \in Runs, Return(r) PROVE LeaseHeld'
  BY <1>24, <1>0, Names, GoEffect, ReleaseEffect DEF Return, LeaseHeld, Live, Starting,
       Executing, Returning, rows, hubs
<1>25. ASSUME NEW r \in Runs, NetRead(r) PROVE LeaseHeld'
  BY <1>25, <1>0, Names, GoEffect DEF NetRead, LeaseHeld, Live, Starting, Executing,
       Returning, rows, hubs
<1>26. ASSUME NEW r \in Runs, NetWrite(r) PROVE LeaseHeld'
  BY <1>26, <1>0, Names, GoEffect, Values DEF NetWrite, LeaseHeld, Live, Starting,
       Executing, Returning, history
<1>27. ASSUME NEW r \in Runs, NetWriteFails(r) PROVE LeaseHeld'
  BY <1>27, <1>0, Names, GoEffect, Values DEF NetWriteFails, LeaseHeld, Live, Starting,
       Executing, Returning, hubs
<1>28. ASSUME NEW r \in Runs, GraceExpires(r) PROVE LeaseHeld'
  BY <1>28, <1>0, Names DEF GraceExpires, LeaseHeld, Live, Starting, Executing, Returning,
       rows, history
<1>29. ASSUME NEW r \in Runs, Cancel(r) PROVE LeaseHeld'
  BY <1>29, <1>0, Names DEF Cancel, LeaseHeld, Live, Starting, Executing, Returning, rows,
       hubs, history
<1>30. ASSUME NEW r \in Runs, NEW p \in Runs \cup {None}, Request(r, p) PROVE LeaseHeld'
  BY <1>30, <1>0, Names, GoEffect DEF Request, LeaseHeld, Live, Starting, Executing,
       Returning, rows, hubs, history
<1>31. ASSUME NEW t \in Tabs, NEW r \in Runs, Fetch(t, r) PROVE LeaseHeld'
  BY <1>31, <1>0, Names DEF Fetch, LeaseHeld, Live, Starting, Executing, Returning, rows,
       process, history
<1>32. ASSUME NEW t \in Tabs, Subscribe(t) PROVE LeaseHeld'
  BY <1>32, <1>0, Names DEF Subscribe, LeaseHeld, Live, Starting, Executing, Returning,
       rows, process
<1>33. ASSUME NEW t \in Tabs, RepairRead(t) PROVE LeaseHeld'
  BY <1>33, <1>0, Names DEF RepairRead, LeaseHeld, Live, Starting, Executing, Returning,
       rows, process
<1>34. ASSUME NEW t \in Tabs, RepairWrite(t) PROVE LeaseHeld'
  BY <1>34, <1>0, Names DEF RepairWrite, LeaseHeld, Live, Starting, Executing, Returning,
       process, history
<1>35. ASSUME NEW t \in Tabs, RepairWriteFails(t) PROVE LeaseHeld'
  BY <1>35, <1>0, Names DEF RepairWriteFails, LeaseHeld, Live, Starting, Executing,
       Returning, rows, process
<1>36. ASSUME NEW t \in Tabs, RepairLease(t) PROVE LeaseHeld'
  BY <1>36, <1>0, Names DEF RepairLease, LeaseHeld, Live, Starting, Executing, Returning,
       rows, process, history
<1>37. ASSUME NEW t \in Tabs, DropLease(t) PROVE LeaseHeld'
  BY <1>37, <1>0, Names DEF DropLease, TabsRepair, LeaseHeld, Live, Starting, Executing,
       Returning, rows, process
<1>38. ASSUME NEW t \in Tabs, Leave(t) PROVE LeaseHeld'
  BY <1>38, <1>0, Names DEF Leave, LeaseHeld, Live, Starting, Executing, Returning, rows,
       process, history
<1>39. ASSUME NEW u \in Users, ExpireLease(u) PROVE LeaseHeld'
  BY <1>39, <1>0, Names DEF ExpireLease, HolderGone, LeaseHeld, Live, Starting, Executing,
       Returning, rows, process, hubs, history
<1>40. ASSUME Restart PROVE LeaseHeld'
  BY <1>40, <1>0, Names DEF Restart, LeaseHeld, Live, Starting, Executing, Returning, rows
<1>41. CASE UNCHANGED vars
  BY <1>41 DEF vars, rows, process, hubs, history, LeaseHeld, Live, Starting, Executing,
       Returning
<1> QED  BY <1>1, <1>2, <1>3, <1>4, <1>5, <1>6, <1>7, <1>8, <1>9, <1>10, <1>11, <1>12,
            <1>13, <1>14, <1>15, <1>16, <1>17, <1>18, <1>19, <1>20, <1>21, <1>22, <1>23,
            <1>24, <1>25, <1>26, <1>27, <1>28, <1>29, <1>30, <1>31, <1>32, <1>33, <1>34,
            <1>35, <1>36, <1>37, <1>38, <1>39, <1>40, <1>41 DEF Next, Start, Execute,
            Settle, Watch

\* Every step leaves a call what it knows of its row: two writers of a row
\* are the call itself and a tab, and the tab's run is one it mistook.
LEMMA RowsKeep == TypeOK /\ RowMatches /\ TabsRepair /\ [Next]_vars => RowMatches'
<1> SUFFICES ASSUME TypeOK, RowMatches, TabsRepair, [Next]_vars PROVE RowMatches'
  OBVIOUS
<1>1. ASSUME NEW r \in Runs, Acquire(r) PROVE RowMatches'
  BY <1>1, Names, GoEffect DEF Acquire, RowMatches, Unstarted, Escaped, Open, rows, hubs,
       history
<1>2. ASSUME NEW r \in Runs, AcquireBusy(r) PROVE RowMatches'
  BY <1>2, Names, GoEffect DEF AcquireBusy, RowMatches, Unstarted, Escaped, Open, rows,
       hubs, history
<1>3. ASSUME NEW r \in Runs, CheckLatest(r) PROVE RowMatches'
  BY <1>3, Names, GoEffect DEF CheckLatest, RowMatches, Unstarted, Escaped, Open, rows,
       hubs, history
<1>4. ASSUME NEW r \in Runs, Track(r) PROVE RowMatches'
  BY <1>4, Names, GoEffect DEF Track, RowMatches, Unstarted, Escaped, Open, rows, history
<1>5. ASSUME NEW r \in Runs, StartFails(r) PROVE RowMatches'
  BY <1>5, Names, GoEffect DEF StartFails, RowMatches, Unstarted, Escaped, Open, rows, hubs,
       history
<1>6. ASSUME NEW r \in Runs, CreateRun(r) PROVE RowMatches'
  BY <1>6, Names, GoEffect, InsertStatus DEF CreateRun, RowMatches, Unstarted, Escaped,
       Open, hubs, history
<1>7. ASSUME NEW r \in Runs, CreateAmbiguous(r) PROVE RowMatches'
  BY <1>7, Names, GoEffect, InsertStatus DEF CreateAmbiguous, RowMatches, Unstarted,
       Escaped, Open, hubs
<1>8. ASSUME NEW r \in Runs, Unwind(r) PROVE RowMatches'
  BY <1>8, Names, GoEffect DEF Unwind, RowMatches, Unstarted, Escaped, Open, rows, hubs
<1>9. ASSUME NEW r \in Runs, ReadForRunning(r) PROVE RowMatches'
  BY <1>9, Names, GoEffect, CaughtEffect, SettleEffect DEF ReadForRunning, RowMatches,
       Unstarted, Escaped, Open, rows, hubs, history
<1>10. ASSUME NEW r \in Runs, WriteRunning(r) PROVE RowMatches'
  BY <1>10, Names, GoEffect, WriteEffect DEF WriteRunning, RowMatches, Unstarted, Escaped,
       Open, hubs, history
<1>11. ASSUME NEW r \in Runs, SetupFails(r) PROVE RowMatches'
  BY <1>11, Names, GoEffect, CaughtEffect, SettleEffect DEF SetupFails, RowMatches,
       Unstarted, Escaped, Open, rows, hubs
<1>12. ASSUME NEW r \in Runs, ModelSucceeds(r) PROVE RowMatches'
  BY <1>12, Names, GoEffect DEF ModelSucceeds, RowMatches, Unstarted, Escaped, Open, rows,
       hubs, history
<1>13. ASSUME NEW r \in Runs, ModelBounded(r) PROVE RowMatches'
  BY <1>13, Names, GoEffect, SettleEffect DEF ModelBounded, RowMatches, Unstarted, Escaped,
       Open, rows, hubs, history
<1>14. ASSUME NEW r \in Runs, ModelFails(r) PROVE RowMatches'
  BY <1>14, Names, GoEffect, CaughtEffect, SettleEffect DEF ModelFails, RowMatches,
       Unstarted, Escaped, Open, rows, hubs, history
<1>15. ASSUME NEW r \in Runs, ReadForCompleted(r) PROVE RowMatches'
  BY <1>15, Names, GoEffect, CaughtEffect, SettleEffect DEF ReadForCompleted, RowMatches,
       Unstarted, Escaped, Open, rows, hubs, history
<1>16. ASSUME NEW r \in Runs, WriteCompleted(r) PROVE RowMatches'
  BY <1>16, Names, GoEffect, WriteEffect DEF WriteCompleted, RowMatches, Unstarted, Escaped,
       Open, hubs, history
<1>17. ASSUME NEW r \in Runs, FinalizeFails(r) PROVE RowMatches'
  BY <1>17, Names, GoEffect, CaughtEffect, SettleEffect, WriteEffect DEF FinalizeFails,
       RowMatches, Unstarted, Escaped, Open, hubs
<1>18. ASSUME NEW r \in Runs, PublishCompleted(r) PROVE RowMatches'
  BY <1>18, Names, GoEffect DEF PublishCompleted, RowMatches, Unstarted, Escaped, Open,
       rows, history
<1>19. ASSUME NEW r \in Runs, SettleCheck(r) PROVE RowMatches'
  BY <1>19, Names, GoEffect, Values DEF SettleCheck, RowMatches, Unstarted, Escaped, Open,
       rows, hubs
<1>20. ASSUME NEW r \in Runs, StoreContinuation(r) PROVE RowMatches'
  BY <1>20, Names, GoEffect DEF StoreContinuation, RowMatches, Unstarted, Escaped, Open, hubs
<1>21. ASSUME NEW r \in Runs, SettleRead(r) PROVE RowMatches'
  BY <1>21, Names, GoEffect, NotTerminal DEF SettleRead, RowMatches, Unstarted, Escaped,
       Open, rows, hubs
<1>22. ASSUME NEW r \in Runs, SettleWrite(r) PROVE RowMatches'
  BY <1>22, Names, GoEffect, WriteEffect, Values DEF SettleWrite, RowMatches, Unstarted,
       Escaped, Open, hubs
<1>23. ASSUME NEW r \in Runs, EmitFailure(r) PROVE RowMatches'
  BY <1>23, Names, GoEffect, Values DEF EmitFailure, RowMatches, Unstarted, Escaped, Open,
       rows, history
<1>24. ASSUME NEW r \in Runs, Return(r) PROVE RowMatches'
  BY <1>24, Names, GoEffect, ReturnEffect DEF Return, RowMatches, Unstarted, Escaped, Open,
       rows, hubs
<1>25. ASSUME NEW r \in Runs, NetRead(r) PROVE RowMatches'
  BY <1>25, Names, GoEffect DEF NetRead, TypeOK, Statuses, Terminal, Failed, RowMatches,
       Unstarted, Escaped, Open, rows, hubs
<1>26. ASSUME NEW r \in Runs, NetWrite(r) PROVE RowMatches'
  BY <1>26, Names, GoEffect, WriteEffect, Values DEF NetWrite, RowMatches, Unstarted,
       Escaped, Open, history
<1>27. ASSUME NEW r \in Runs, NetWriteFails(r) PROVE RowMatches'
  BY <1>27, Names, GoEffect, WriteEffect, Values DEF NetWriteFails, RowMatches, Unstarted,
       Escaped, Open, hubs
<1>28. ASSUME NEW r \in Runs, GraceExpires(r) PROVE RowMatches'
  BY <1>28, Names DEF GraceExpires, RowMatches, Unstarted, Escaped, Open, rows, history
<1>29. ASSUME NEW r \in Runs, Cancel(r) PROVE RowMatches'
  BY <1>29, Names DEF Cancel, RowMatches, Unstarted, Escaped, Open, rows, hubs, history
<1>30. ASSUME NEW r \in Runs, NEW p \in Runs \cup {None}, Request(r, p) PROVE RowMatches'
  BY <1>30, Names, GoEffect DEF Request, RowMatches, Unstarted, Escaped, Open, rows, hubs,
       history
<1>31. ASSUME NEW t \in Tabs, NEW r \in Runs, Fetch(t, r) PROVE RowMatches'
  BY <1>31, Names DEF Fetch, RowMatches, Unstarted, Escaped, Open, rows, process, history
<1>32. ASSUME NEW t \in Tabs, Subscribe(t) PROVE RowMatches'
  BY <1>32, Names DEF Subscribe, RowMatches, Unstarted, Escaped, Open, rows, process
<1>33. ASSUME NEW t \in Tabs, RepairRead(t) PROVE RowMatches'
  BY <1>33, Names, NotTerminal DEF RepairRead, RowMatches, Unstarted, Escaped, Open, rows,
       process
<1>34. ASSUME NEW t \in Tabs, RepairWrite(t) PROVE RowMatches'
  BY <1>34, Names, WriteEffect DEF RepairWrite, TabsRepair, Busy, Executing, Returning,
       RowMatches, Unstarted, Escaped, Open, process, history
<1>35. ASSUME NEW t \in Tabs, RepairWriteFails(t) PROVE RowMatches'
  BY <1>35, Names DEF RepairWriteFails, RowMatches, Unstarted, Escaped, Open, rows, process
<1>36. ASSUME NEW t \in Tabs, RepairLease(t) PROVE RowMatches'
  BY <1>36, Names DEF RepairLease, RowMatches, Unstarted, Escaped, Open, rows, process,
       history
<1>37. ASSUME NEW t \in Tabs, DropLease(t) PROVE RowMatches'
  BY <1>37, Names DEF DropLease, RowMatches, Unstarted, Escaped, Open, rows, process
<1>38. ASSUME NEW t \in Tabs, Leave(t) PROVE RowMatches'
  BY <1>38, Names DEF Leave, RowMatches, Unstarted, Escaped, Open, rows, process, history
<1>39. ASSUME NEW u \in Users, ExpireLease(u) PROVE RowMatches'
  BY <1>39, Names DEF ExpireLease, RowMatches, Unstarted, Escaped, Open, rows, process,
       hubs, history
<1>40. ASSUME Restart PROVE RowMatches'
  BY <1>40, Names DEF Restart, RowMatches, Unstarted, Escaped, Open, rows
<1>41. CASE UNCHANGED vars
  BY <1>41 DEF vars, rows, process, hubs, history, RowMatches, Unstarted, Escaped, Open
<1> QED  BY <1>1, <1>2, <1>3, <1>4, <1>5, <1>6, <1>7, <1>8, <1>9, <1>10, <1>11, <1>12,
            <1>13, <1>14, <1>15, <1>16, <1>17, <1>18, <1>19, <1>20, <1>21, <1>22, <1>23,
            <1>24, <1>25, <1>26, <1>27, <1>28, <1>29, <1>30, <1>31, <1>32, <1>33, <1>34,
            <1>35, <1>36, <1>37, <1>38, <1>39, <1>40, <1>41 DEF Next, Start, Execute,
            Settle, Watch

\* Every step leaves a tab that repairs an idle run, or one it mistook.
LEMMA TabsKeep == TypeOK /\ TabsRepair /\ RowMatches /\ [Next]_vars => TabsRepair'
<1> SUFFICES ASSUME TypeOK, TabsRepair, RowMatches, [Next]_vars PROVE TabsRepair'
  OBVIOUS
<1>1. ASSUME NEW r \in Runs, Acquire(r) PROVE TabsRepair'
  BY <1>1, Names, GoEffect DEF Acquire, TabsRepair, Busy, Executing, Returning, Escaped,
       Open, NoTab, rows, hubs, history
<1>2. ASSUME NEW r \in Runs, AcquireBusy(r) PROVE TabsRepair'
  BY <1>2, Names, GoEffect DEF AcquireBusy, TabsRepair, Busy, Executing, Returning, Escaped,
       Open, NoTab, rows, hubs, history
<1>3. ASSUME NEW r \in Runs, CheckLatest(r) PROVE TabsRepair'
  BY <1>3, Names, GoEffect DEF CheckLatest, TabsRepair, Busy, Executing, Returning, Escaped,
       Open, NoTab, rows, hubs, history
<1>4. ASSUME NEW r \in Runs, Track(r) PROVE TabsRepair'
  BY <1>4, Names, GoEffect DEF Track, TabsRepair, Busy, Executing, Returning, Escaped, Open,
       NoTab, rows, history
<1>5. ASSUME NEW r \in Runs, StartFails(r) PROVE TabsRepair'
  BY <1>5, Names, GoEffect DEF StartFails, TabsRepair, Busy, Executing, Returning, Escaped,
       Open, NoTab, rows, hubs, history
<1>6. ASSUME NEW r \in Runs, CreateRun(r) PROVE TabsRepair'
  BY <1>6, Names, GoEffect, InsertStatus DEF CreateRun, RowMatches, Unstarted, TabsRepair,
       Busy, Executing, Returning, Escaped, Open, NoTab, hubs, history
<1>7. ASSUME NEW r \in Runs, CreateAmbiguous(r) PROVE TabsRepair'
  BY <1>7, Names, GoEffect, InsertStatus, FaultEffect DEF CreateAmbiguous, RowMatches,
       Unstarted, TabsRepair, Busy, Executing, Returning, Escaped, Open, NoTab, hubs
<1>8. ASSUME NEW r \in Runs, Unwind(r) PROVE TabsRepair'
  BY <1>8, Names, GoEffect, ReleaseEffect, FaultEffect DEF Unwind, TabsRepair, Busy,
       Executing, Returning, Escaped, Open, NoTab, rows, hubs
<1>9. ASSUME NEW r \in Runs, ReadForRunning(r) PROVE TabsRepair'
  BY <1>9, Names, GoEffect, CaughtEffect, SettleEffect DEF ReadForRunning, TabsRepair, Busy,
       Executing, Returning, Escaped, Open, NoTab, rows, hubs, history
<1>10. ASSUME NEW r \in Runs, WriteRunning(r) PROVE TabsRepair'
  BY <1>10, Names, GoEffect, WriteEffect DEF WriteRunning, TabsRepair, Busy, Executing,
       Returning, Escaped, Open, NoTab, hubs, history
<1>11. ASSUME NEW r \in Runs, SetupFails(r) PROVE TabsRepair'
  BY <1>11, Names, GoEffect, CaughtEffect, SettleEffect, FaultEffect DEF SetupFails,
       TabsRepair, Busy, Executing, Returning, Escaped, Open, NoTab, rows, hubs
<1>12. ASSUME NEW r \in Runs, ModelSucceeds(r) PROVE TabsRepair'
  BY <1>12, Names, GoEffect DEF ModelSucceeds, TabsRepair, Busy, Executing, Returning,
       Escaped, Open, NoTab, rows, hubs, history
<1>13. ASSUME NEW r \in Runs, ModelBounded(r) PROVE TabsRepair'
  BY <1>13, Names, GoEffect, SettleEffect DEF ModelBounded, TabsRepair, Busy, Executing,
       Returning, Escaped, Open, NoTab, rows, hubs, history
<1>14. ASSUME NEW r \in Runs, ModelFails(r) PROVE TabsRepair'
  BY <1>14, Names, GoEffect, CaughtEffect, SettleEffect DEF ModelFails, TabsRepair, Busy,
       Executing, Returning, Escaped, Open, NoTab, rows, hubs, history
<1>15. ASSUME NEW r \in Runs, ReadForCompleted(r) PROVE TabsRepair'
  BY <1>15, Names, GoEffect, CaughtEffect, SettleEffect DEF ReadForCompleted, TabsRepair,
       Busy, Executing, Returning, Escaped, Open, NoTab, rows, hubs, history
<1>16. ASSUME NEW r \in Runs, WriteCompleted(r) PROVE TabsRepair'
  BY <1>16, Names, GoEffect, WriteEffect DEF WriteCompleted, TabsRepair, Busy, Executing,
       Returning, Escaped, Open, NoTab, hubs, history
<1>17. ASSUME NEW r \in Runs, FinalizeFails(r) PROVE TabsRepair'
  BY <1>17, Names, GoEffect, CaughtEffect, SettleEffect, FaultEffect, WriteEffect DEF
       FinalizeFails, TabsRepair, Busy, Executing, Returning, Escaped, Open, NoTab, hubs
<1>18. ASSUME NEW r \in Runs, PublishCompleted(r) PROVE TabsRepair'
  <2>1. \A t \in Tabs : tab'[t] = tab[t] \/ tab'[t] = NoTab
    BY <1>18, EmitEffect, Values, Names DEF PublishCompleted
  <2>2. \A s \in Runs : Busy(s)' => Busy(s)
    BY <1>18, GoEffect, Names DEF PublishCompleted, Busy, Executing, Returning, Escaped
  <2>3. status' = status
    BY <1>18, WriteEffect, Names, Values DEF PublishCompleted, rows
  <2> QED  BY <1>18, <2>1, <2>2, <2>3 DEF PublishCompleted, TabsRepair, NoTab, Open, history
<1>19. ASSUME NEW r \in Runs, SettleCheck(r) PROVE TabsRepair'
  BY <1>19, Names, GoEffect, FaultEffect, Values DEF SettleCheck, TabsRepair, Busy,
       Executing, Returning, Escaped, Open, NoTab, rows, hubs
<1>20. ASSUME NEW r \in Runs, StoreContinuation(r) PROVE TabsRepair'
  BY <1>20, Names, GoEffect, FaultEffect DEF StoreContinuation, TabsRepair, Busy, Executing,
       Returning, Escaped, Open, NoTab, hubs
<1>21. ASSUME NEW r \in Runs, SettleRead(r) PROVE TabsRepair'
  BY <1>21, Names, GoEffect, FaultEffect, NotTerminal DEF SettleRead, TabsRepair, Busy,
       Executing, Returning, Escaped, Open, NoTab, rows, hubs
<1>22. ASSUME NEW r \in Runs, SettleWrite(r) PROVE TabsRepair'
  BY <1>22, Names, GoEffect, WriteEffect, FaultEffect, Values DEF SettleWrite, TabsRepair,
       Busy, Executing, Returning, Escaped, Open, NoTab, hubs
<1>23. ASSUME NEW r \in Runs, EmitFailure(r) PROVE TabsRepair'
  <2>1. \A t \in Tabs : tab'[t] = tab[t] \/ tab'[t] = NoTab
    BY <1>23, EmitEffect, Values, Names DEF EmitFailure
  <2>2. \A s \in Runs : Busy(s)' => Busy(s)
    BY <1>23, GoEffect, Names DEF EmitFailure, Busy, Executing, Returning, Escaped
  <2>3. status' = status
    BY <1>23, WriteEffect, Names, Values DEF EmitFailure, rows
  <2> QED  BY <1>23, <2>1, <2>2, <2>3 DEF EmitFailure, TabsRepair, NoTab, Open, history
<1>24. ASSUME NEW r \in Runs, Return(r) PROVE TabsRepair'
  BY <1>24, Names, GoEffect, ReleaseEffect, FaultEffect, ReturnEffect DEF Return,
       TabsRepair, Busy, Executing, Returning, Escaped, Open, NoTab, rows, hubs
<1>25. ASSUME NEW r \in Runs, NetRead(r) PROVE TabsRepair'
  BY <1>25, Names, GoEffect, FaultEffect DEF NetRead, TabsRepair, Busy, Executing,
       Returning, Escaped, Open, NoTab, rows, hubs
<1>26. ASSUME NEW r \in Runs, NetWrite(r) PROVE TabsRepair'
  <2>1. \A t \in Tabs : tab'[t] = tab[t] \/ tab'[t] = NoTab
    BY <1>26, EmitEffect, Values, Names DEF NetWrite
  <2>2. \A s \in Runs : Busy(s)' => Busy(s)
    BY <1>26, GoEffect, Names DEF NetWrite, Busy, Executing, Returning, Escaped
  <2>3. \A s \in Runs : status'[s] = status[s] \/ (s = r /\ status'[s] # "absent" /\ Busy(r))
    BY <1>26, WriteEffect, Names, Values DEF NetWrite, Busy, Escaped
  <2> QED  BY <1>26, <2>1, <2>2, <2>3 DEF NetWrite, TabsRepair, NoTab, Open, history
<1>27. ASSUME NEW r \in Runs, NetWriteFails(r) PROVE TabsRepair'
  BY <1>27, Names, GoEffect, WriteEffect, FaultEffect, Values DEF NetWriteFails, TabsRepair,
       Busy, Executing, Returning, Escaped, Open, NoTab, hubs
<1>28. ASSUME NEW r \in Runs, GraceExpires(r) PROVE TabsRepair'
  BY <1>28, Names DEF GraceExpires, TabsRepair, Busy, Executing, Returning, Escaped, Open,
       NoTab, rows, history
<1>29. ASSUME NEW r \in Runs, Cancel(r) PROVE TabsRepair'
  BY <1>29, Names DEF Cancel, TabsRepair, Busy, Executing, Returning, Escaped, Open, NoTab,
       rows, hubs, history
<1>30. ASSUME NEW r \in Runs, NEW p \in Runs \cup {None}, Request(r, p) PROVE TabsRepair'
  BY <1>30, Names, GoEffect DEF Request, TabsRepair, Busy, Executing, Returning, Escaped,
       Open, NoTab, rows, hubs, history
<1>31. ASSUME NEW t \in Tabs, NEW r \in Runs, Fetch(t, r) PROVE TabsRepair'
  BY <1>31, Names DEF Fetch, TabsRepair, Busy, Executing, Returning, Escaped, Open, NoTab,
       rows, process, history
<1>32. ASSUME NEW t \in Tabs, Subscribe(t) PROVE TabsRepair'
  BY <1>32, Names, TabEffect DEF Subscribe, TabsRepair, Busy, Executing, Returning, Escaped,
       Open, NoTab, rows, process
<1>33. ASSUME NEW t \in Tabs, RepairRead(t) PROVE TabsRepair'
  BY <1>33, Names, TabEffect, FaultEffect, NotTerminal DEF RepairRead, TabsRepair, Busy,
       Executing, Returning, Escaped, Open, NoTab, rows, process
<1>34. ASSUME NEW t \in Tabs, RepairWrite(t) PROVE TabsRepair'
  BY <1>34, Names, TabEffect, WriteEffect DEF RepairWrite, TabsRepair, Busy, Executing,
       Returning, Escaped, Open, NoTab, process, history
<1>35. ASSUME NEW t \in Tabs, RepairWriteFails(t) PROVE TabsRepair'
  BY <1>35, Names, TabEffect, FaultEffect DEF RepairWriteFails, TabsRepair, Busy, Executing,
       Returning, Escaped, Open, NoTab, rows, process
<1>36. ASSUME NEW t \in Tabs, RepairLease(t) PROVE TabsRepair'
  BY <1>36, Names, TabEffect DEF RepairLease, TabsRepair, Busy, Executing, Returning,
       Escaped, Open, NoTab, rows, process, history
<1>37. ASSUME NEW t \in Tabs, DropLease(t) PROVE TabsRepair'
  BY <1>37, Names, TabEffect, FaultEffect DEF DropLease, TabsRepair, Busy, Executing,
       Returning, Escaped, Open, NoTab, rows, process
<1>38. ASSUME NEW t \in Tabs, Leave(t) PROVE TabsRepair'
  BY <1>38, Names, TabEffect DEF Leave, TabsRepair, Busy, Executing, Returning, Escaped,
       Open, NoTab, rows, process, history
<1>39. ASSUME NEW u \in Users, ExpireLease(u) PROVE TabsRepair'
  BY <1>39, Names DEF ExpireLease, TabsRepair, Busy, Executing, Returning, Escaped, Open,
       NoTab, rows, process, hubs, history
<1>40. ASSUME Restart PROVE TabsRepair'
  BY <1>40, Names DEF Restart, TabsRepair, Busy, Executing, Returning, Escaped, Open, NoTab,
       rows
<1>41. CASE UNCHANGED vars
  BY <1>41 DEF vars, rows, process, hubs, history, TabsRepair, Busy, Executing, Returning,
       Escaped, Open, NoTab
<1> QED  BY <1>1, <1>2, <1>3, <1>4, <1>5, <1>6, <1>7, <1>8, <1>9, <1>10, <1>11, <1>12,
            <1>13, <1>14, <1>15, <1>16, <1>17, <1>18, <1>19, <1>20, <1>21, <1>22, <1>23,
            <1>24, <1>25, <1>26, <1>27, <1>28, <1>29, <1>30, <1>31, <1>32, <1>33, <1>34,
            <1>35, <1>36, <1>37, <1>38, <1>39, <1>40, <1>41 DEF Next, Start, Execute,
            Settle, Watch

\* Every step leaves at most one event, of a call that is done, and true.
LEMMA EventsKeep == TypeOK /\ Announced /\ RowMatches /\ TabsRepair /\ [Next]_vars => Announced'
<1> SUFFICES ASSUME TypeOK, Announced, RowMatches, TabsRepair, [Next]_vars PROVE Announced'
  OBVIOUS
<1>1. ASSUME NEW r \in Runs, Acquire(r) PROVE Announced'
  BY <1>1, Names, FirstEvent, GoEffect DEF Acquire, Announced, rows, hubs, history
<1>2. ASSUME NEW r \in Runs, AcquireBusy(r) PROVE Announced'
  BY <1>2, Names, FirstEvent, GoEffect DEF AcquireBusy, Announced, rows, hubs, history
<1>3. ASSUME NEW r \in Runs, CheckLatest(r) PROVE Announced'
  BY <1>3, Names, FirstEvent, GoEffect DEF CheckLatest, Announced, rows, hubs, history
<1>4. ASSUME NEW r \in Runs, Track(r) PROVE Announced'
  BY <1>4, Names, FirstEvent, GoEffect DEF Track, Announced, rows, history
<1>5. ASSUME NEW r \in Runs, StartFails(r) PROVE Announced'
  BY <1>5, Names, FirstEvent, GoEffect DEF StartFails, Announced, rows, hubs, history
<1>6. ASSUME NEW r \in Runs, CreateRun(r) PROVE Announced'
  <2>1. events[r] = <<>> /\ events' = events
    BY <1>6 DEF CreateRun, Announced, hubs
  <2>2. \A s \in Runs \ {r} : pc'[s] = pc[s] /\ status'[s] = status[s]
    BY <1>6, GoEffect, WriteEffect, InsertStatus, Values, Names DEF CreateRun
  <2>3. mistaken' = mistaken
    BY <1>6 DEF CreateRun, history
  <2> SUFFICES ASSUME NEW s \in Runs
               PROVE  /\ Len(events'[s]) =< 1
                      /\ events'[s] # <<>> => pc'[s] \in {"returning", "ended"}
                      /\ events'[s] = <<"completed">> /\ s \notin mistaken' => status'[s] = "completed"
    BY DEF Announced
  <2>4. CASE s = r
    BY <2>1, <2>4, FirstEvent DEF Announced
  <2>5. CASE s # r
    BY <2>1, <2>2, <2>3, <2>5 DEF Announced
  <2> QED  BY <2>4, <2>5
<1>7. ASSUME NEW r \in Runs, CreateAmbiguous(r) PROVE Announced'
  <2>1. events[r] = <<>> /\ events' = events
    BY <1>7 DEF CreateAmbiguous, Announced, hubs
  <2>2. \A s \in Runs \ {r} : pc'[s] = pc[s] /\ status'[s] = status[s]
    BY <1>7, GoEffect, WriteEffect, InsertStatus, Values, Names DEF CreateAmbiguous
  <2>3. mistaken' = mistaken
    BY <1>7 DEF CreateAmbiguous, history
  <2> SUFFICES ASSUME NEW s \in Runs
               PROVE  /\ Len(events'[s]) =< 1
                      /\ events'[s] # <<>> => pc'[s] \in {"returning", "ended"}
                      /\ events'[s] = <<"completed">> /\ s \notin mistaken' => status'[s] = "completed"
    BY DEF Announced
  <2>4. CASE s = r
    BY <2>1, <2>4, FirstEvent DEF Announced
  <2>5. CASE s # r
    BY <2>1, <2>2, <2>3, <2>5 DEF Announced
  <2> QED  BY <2>4, <2>5
<1>8. ASSUME NEW r \in Runs, Unwind(r) PROVE Announced'
  BY <1>8, Names, FirstEvent, GoEffect DEF Unwind, Announced, rows, hubs
<1>9. ASSUME NEW r \in Runs, ReadForRunning(r) PROVE Announced'
  BY <1>9, Names, FirstEvent, GoEffect, CaughtEffect, SettleEffect DEF ReadForRunning,
       Announced, rows, hubs, history
<1>10. ASSUME NEW r \in Runs, WriteRunning(r) PROVE Announced'
  <2>1. events[r] = <<>> /\ events' = events
    BY <1>10 DEF WriteRunning, Announced, hubs
  <2>2. \A s \in Runs \ {r} : pc'[s] = pc[s] /\ status'[s] = status[s]
    BY <1>10, GoEffect, WriteEffect, InsertStatus, Values, Names DEF WriteRunning
  <2>3. mistaken' = mistaken
    BY <1>10 DEF WriteRunning, history
  <2> SUFFICES ASSUME NEW s \in Runs
               PROVE  /\ Len(events'[s]) =< 1
                      /\ events'[s] # <<>> => pc'[s] \in {"returning", "ended"}
                      /\ events'[s] = <<"completed">> /\ s \notin mistaken' => status'[s] = "completed"
    BY DEF Announced
  <2>4. CASE s = r
    BY <2>1, <2>4, FirstEvent DEF Announced
  <2>5. CASE s # r
    BY <2>1, <2>2, <2>3, <2>5 DEF Announced
  <2> QED  BY <2>4, <2>5
<1>11. ASSUME NEW r \in Runs, SetupFails(r) PROVE Announced'
  BY <1>11, Names, FirstEvent, GoEffect, CaughtEffect, SettleEffect DEF SetupFails,
       Announced, rows, hubs
<1>12. ASSUME NEW r \in Runs, ModelSucceeds(r) PROVE Announced'
  BY <1>12, Names, FirstEvent, GoEffect DEF ModelSucceeds, Announced, rows, hubs, history
<1>13. ASSUME NEW r \in Runs, ModelBounded(r) PROVE Announced'
  BY <1>13, Names, FirstEvent, GoEffect, SettleEffect DEF ModelBounded, Announced, rows,
       hubs, history
<1>14. ASSUME NEW r \in Runs, ModelFails(r) PROVE Announced'
  BY <1>14, Names, FirstEvent, GoEffect, CaughtEffect, SettleEffect DEF ModelFails,
       Announced, rows, hubs, history
<1>15. ASSUME NEW r \in Runs, ReadForCompleted(r) PROVE Announced'
  BY <1>15, Names, FirstEvent, GoEffect, CaughtEffect, SettleEffect DEF ReadForCompleted,
       Announced, rows, hubs, history
<1>16. ASSUME NEW r \in Runs, WriteCompleted(r) PROVE Announced'
  BY <1>16, Names, FirstEvent, GoEffect, WriteEffect DEF WriteCompleted, Announced, hubs,
       history
<1>17. ASSUME NEW r \in Runs, FinalizeFails(r) PROVE Announced'
  BY <1>17, Names, FirstEvent, GoEffect, CaughtEffect, SettleEffect, WriteEffect DEF
       FinalizeFails, Announced, hubs
<1>18. ASSUME NEW r \in Runs, PublishCompleted(r) PROVE Announced'
  <2>1. events[r] = <<>>
    BY <1>18 DEF PublishCompleted, Announced
  <2>2. PICK e \in EndEvents : Emit(r, e) /\ (e = "completed" => pc[r] = "publish")
    BY <1>18, Names, Values DEF PublishCompleted, EndEvents
  <2>3. /\ events'[r] = IF r \in active THEN Append(<<>>, e) ELSE <<>>
        /\ \A s \in Runs \ {r} : events'[s] = events[s]
    BY <2>1, <2>2, EmitEffect
  <2>4. Len(events'[r]) =< 1 /\ (events'[r] = <<"completed">> => e = "completed")
    <3>1. CASE r \in active
      BY <3>1, <2>2, <2>3
    <3>2. CASE r \notin active
      BY <3>2, <2>3
    <3> QED  BY <3>1, <3>2
  <2>5. pc'[r] \in {"returning", "ended"} /\ \A s \in Runs \ {r} : pc'[s] = pc[s]
    BY <1>18, GoEffect, Names DEF PublishCompleted
  <2>6. status' = status
    BY <1>18, <2>2, WriteEffect, Values, Names DEF PublishCompleted, RowMatches, rows
  <2>7. mistaken' = mistaken
    BY <1>18 DEF PublishCompleted, history
  <2> SUFFICES ASSUME NEW s \in Runs
               PROVE  /\ Len(events'[s]) =< 1
                      /\ events'[s] # <<>> => pc'[s] \in {"returning", "ended"}
                      /\ events'[s] = <<"completed">> /\ s \notin mistaken' => status'[s] = "completed"
    BY DEF Announced
  <2>8. CASE s = r
    BY <1>18, <2>2, <2>4, <2>5, <2>6, <2>7, <2>8 DEF RowMatches
  <2>9. CASE s # r
    BY <2>3, <2>5, <2>6, <2>7, <2>9 DEF Announced
  <2> QED  BY <2>8, <2>9
<1>19. ASSUME NEW r \in Runs, SettleCheck(r) PROVE Announced'
  BY <1>19, Names, FirstEvent, GoEffect, Values DEF SettleCheck, Announced, rows, hubs
<1>20. ASSUME NEW r \in Runs, StoreContinuation(r) PROVE Announced'
  BY <1>20, Names, FirstEvent, GoEffect DEF StoreContinuation, Announced, hubs
<1>21. ASSUME NEW r \in Runs, SettleRead(r) PROVE Announced'
  BY <1>21, Names, FirstEvent, GoEffect DEF SettleRead, Announced, rows, hubs
<1>22. ASSUME NEW r \in Runs, SettleWrite(r) PROVE Announced'
  <2>1. events[r] = <<>> /\ events' = events
    BY <1>22 DEF SettleWrite, Announced, hubs
  <2>2. \A s \in Runs \ {r} : pc'[s] = pc[s] /\ status'[s] = status[s]
    BY <1>22, GoEffect, WriteEffect, InsertStatus, Values, Names DEF SettleWrite
  <2>3. mistaken' = mistaken
    BY <1>22 DEF SettleWrite, history
  <2> SUFFICES ASSUME NEW s \in Runs
               PROVE  /\ Len(events'[s]) =< 1
                      /\ events'[s] # <<>> => pc'[s] \in {"returning", "ended"}
                      /\ events'[s] = <<"completed">> /\ s \notin mistaken' => status'[s] = "completed"
    BY DEF Announced
  <2>4. CASE s = r
    BY <2>1, <2>4, FirstEvent DEF Announced
  <2>5. CASE s # r
    BY <2>1, <2>2, <2>3, <2>5 DEF Announced
  <2> QED  BY <2>4, <2>5
<1>23. ASSUME NEW r \in Runs, EmitFailure(r) PROVE Announced'
  <2>1. events[r] = <<>>
    BY <1>23 DEF EmitFailure, Announced
  <2>2. PICK e \in EndEvents : Emit(r, e) /\ (e = "completed" => pc[r] = "publish")
    BY <1>23, Names, Values DEF EmitFailure, EndEvents
  <2>3. /\ events'[r] = IF r \in active THEN Append(<<>>, e) ELSE <<>>
        /\ \A s \in Runs \ {r} : events'[s] = events[s]
    BY <2>1, <2>2, EmitEffect
  <2>4. Len(events'[r]) =< 1 /\ (events'[r] = <<"completed">> => e = "completed")
    <3>1. CASE r \in active
      BY <3>1, <2>2, <2>3
    <3>2. CASE r \notin active
      BY <3>2, <2>3
    <3> QED  BY <3>1, <3>2
  <2>5. pc'[r] \in {"returning", "ended"} /\ \A s \in Runs \ {r} : pc'[s] = pc[s]
    BY <1>23, GoEffect, Names DEF EmitFailure
  <2>6. status' = status
    BY <1>23, <2>2, WriteEffect, Values, Names DEF EmitFailure, RowMatches, rows
  <2>7. mistaken' = mistaken
    BY <1>23 DEF EmitFailure, history
  <2> SUFFICES ASSUME NEW s \in Runs
               PROVE  /\ Len(events'[s]) =< 1
                      /\ events'[s] # <<>> => pc'[s] \in {"returning", "ended"}
                      /\ events'[s] = <<"completed">> /\ s \notin mistaken' => status'[s] = "completed"
    BY DEF Announced
  <2>8. CASE s = r
    BY <1>23, <2>2, <2>4, <2>5, <2>6, <2>7, <2>8 DEF RowMatches
  <2>9. CASE s # r
    BY <2>3, <2>5, <2>6, <2>7, <2>9 DEF Announced
  <2> QED  BY <2>8, <2>9
<1>24. ASSUME NEW r \in Runs, Return(r) PROVE Announced'
  BY <1>24, Names, FirstEvent, GoEffect, ReturnEffect DEF Return, Announced, rows, hubs
<1>25. ASSUME NEW r \in Runs, NetRead(r) PROVE Announced'
  BY <1>25, Names, FirstEvent, GoEffect DEF NetRead, Announced, rows, hubs
<1>26. ASSUME NEW r \in Runs, NetWrite(r) PROVE Announced'
  <2>1. events[r] = <<>>
    BY <1>26 DEF NetWrite, Announced
  <2>2. PICK e \in EndEvents : Emit(r, e) /\ (e = "completed" => pc[r] = "publish")
    BY <1>26, Names, Values DEF NetWrite, EndEvents
  <2>3. /\ events'[r] = IF r \in active THEN Append(<<>>, e) ELSE <<>>
        /\ \A s \in Runs \ {r} : events'[s] = events[s]
    BY <2>1, <2>2, EmitEffect
  <2>4. Len(events'[r]) =< 1 /\ (events'[r] = <<"completed">> => e = "completed")
    <3>1. CASE r \in active
      BY <3>1, <2>2, <2>3
    <3>2. CASE r \notin active
      BY <3>2, <2>3
    <3> QED  BY <3>1, <3>2
  <2>5. pc'[r] \in {"returning", "ended"} /\ \A s \in Runs \ {r} : pc'[s] = pc[s]
    BY <1>26, GoEffect, Names DEF NetWrite
  <2>6. e # "completed" /\ \A s \in Runs \ {r} : status'[s] = status[s]
    BY <1>26, <2>2, WriteEffect, Values, Names DEF NetWrite, RowMatches, rows
  <2>7. mistaken' = mistaken
    BY <1>26 DEF NetWrite, history
  <2> SUFFICES ASSUME NEW s \in Runs
               PROVE  /\ Len(events'[s]) =< 1
                      /\ events'[s] # <<>> => pc'[s] \in {"returning", "ended"}
                      /\ events'[s] = <<"completed">> /\ s \notin mistaken' => status'[s] = "completed"
    BY DEF Announced
  <2>8. CASE s = r
    BY <1>26, <2>2, <2>4, <2>5, <2>6, <2>7, <2>8 DEF RowMatches
  <2>9. CASE s # r
    BY <2>3, <2>5, <2>6, <2>7, <2>9 DEF Announced
  <2> QED  BY <2>8, <2>9
<1>27. ASSUME NEW r \in Runs, NetWriteFails(r) PROVE Announced'
  <2>1. events[r] = <<>> /\ events' = events
    BY <1>27 DEF NetWriteFails, Announced, hubs
  <2>2. \A s \in Runs \ {r} : pc'[s] = pc[s] /\ status'[s] = status[s]
    BY <1>27, GoEffect, WriteEffect, InsertStatus, Values, Names DEF NetWriteFails
  <2>3. mistaken' = mistaken
    BY <1>27 DEF NetWriteFails, history
  <2> SUFFICES ASSUME NEW s \in Runs
               PROVE  /\ Len(events'[s]) =< 1
                      /\ events'[s] # <<>> => pc'[s] \in {"returning", "ended"}
                      /\ events'[s] = <<"completed">> /\ s \notin mistaken' => status'[s] = "completed"
    BY DEF Announced
  <2>4. CASE s = r
    BY <2>1, <2>4, FirstEvent DEF Announced
  <2>5. CASE s # r
    BY <2>1, <2>2, <2>3, <2>5 DEF Announced
  <2> QED  BY <2>4, <2>5
<1>28. ASSUME NEW r \in Runs, GraceExpires(r) PROVE Announced'
  BY <1>28, Names, FirstEvent DEF GraceExpires, Announced, rows, history
<1>29. ASSUME NEW r \in Runs, Cancel(r) PROVE Announced'
  BY <1>29, Names, FirstEvent DEF Cancel, Announced, rows, hubs, history
<1>30. ASSUME NEW r \in Runs, NEW p \in Runs \cup {None}, Request(r, p) PROVE Announced'
  BY <1>30, Names, FirstEvent, GoEffect DEF Request, Announced, rows, hubs, history
<1>31. ASSUME NEW t \in Tabs, NEW r \in Runs, Fetch(t, r) PROVE Announced'
  BY <1>31, Names, FirstEvent DEF Fetch, Announced, rows, process, history
<1>32. ASSUME NEW t \in Tabs, Subscribe(t) PROVE Announced'
  BY <1>32, Names, FirstEvent DEF Subscribe, Announced, rows, process
<1>33. ASSUME NEW t \in Tabs, RepairRead(t) PROVE Announced'
  BY <1>33, Names, FirstEvent DEF RepairRead, Announced, rows, process
<1>34. ASSUME NEW t \in Tabs, RepairWrite(t) PROVE Announced'
  BY <1>34, Names, FirstEvent, WriteEffect DEF RepairWrite, TabsRepair, Open, Announced,
       process, history
<1>35. ASSUME NEW t \in Tabs, RepairWriteFails(t) PROVE Announced'
  BY <1>35, Names, FirstEvent DEF RepairWriteFails, Announced, rows, process
<1>36. ASSUME NEW t \in Tabs, RepairLease(t) PROVE Announced'
  BY <1>36, Names, FirstEvent DEF RepairLease, Announced, rows, process, history
<1>37. ASSUME NEW t \in Tabs, DropLease(t) PROVE Announced'
  BY <1>37, Names, FirstEvent DEF DropLease, Announced, rows, process
<1>38. ASSUME NEW t \in Tabs, Leave(t) PROVE Announced'
  BY <1>38, Names, FirstEvent DEF Leave, Announced, rows, process, history
<1>39. ASSUME NEW u \in Users, ExpireLease(u) PROVE Announced'
  BY <1>39, Names, FirstEvent DEF ExpireLease, Announced, rows, process, hubs, history
<1>40. ASSUME Restart PROVE Announced'
  BY <1>40, Names, FirstEvent DEF Restart, Announced, rows
<1>41. CASE UNCHANGED vars
  BY <1>41 DEF vars, rows, process, hubs, history, Announced
<1> QED  BY <1>1, <1>2, <1>3, <1>4, <1>5, <1>6, <1>7, <1>8, <1>9, <1>10, <1>11, <1>12,
            <1>13, <1>14, <1>15, <1>16, <1>17, <1>18, <1>19, <1>20, <1>21, <1>22, <1>23,
            <1>24, <1>25, <1>26, <1>27, <1>28, <1>29, <1>30, <1>31, <1>32, <1>33, <1>34,
            <1>35, <1>36, <1>37, <1>38, <1>39, <1>40, <1>41 DEF Next, Start, Execute,
            Settle, Watch

-----------------------------------------------------------------------------
(* The part of the invariant that concerns single runs and tabs.           *)
Core == TypeOK /\ LeaseHeld /\ RowMatches /\ TabsRepair /\ Announced

LEMMA CoreKeeps == Core /\ [Next]_vars => Core'
BY TypeKeeps, LeaseKeeps, RowsKeep, TabsKeep, EventsKeep DEF Core

LEMMA CoreInit == Init => Core
<1> SUFFICES ASSUME Init PROVE Core
  OBVIOUS
<1>0. <<>> \in Seq(Runs) /\ Len(<<>>) = 0
  OBVIOUS
<1>1. TypeOK
  <2>1. status \in [Runs -> Statuses] /\ pc \in [Runs -> Pcs] /\ plan \in [Runs -> Plans]
    BY Names DEF Init
  <2>2. chain \in [Runs -> Seq(Runs)]
    BY <1>0 DEF Init
  <2>3. created \in Seq(Runs)
    BY <1>0 DEF Init
  <2>4. events \in [Runs -> Seq({"completed", "failed", "cancelled"})]
    BY DEF Init
  <2>5. tab \in [Tabs -> [at : TabStates, run : Runs \cup {None}, seen : Statuses]]
    BY Names DEF Init
  <2>6. stored \in SUBSET Runs
    BY DEF Init
  <2> QED  BY <2>1, <2>2, <2>3, <2>4, <2>5, <2>6 DEF Init, TypeOK
<1>2. LeaseHeld
  BY DEF Init, LeaseHeld, Live, Starting, Executing, Returning
<1>3. RowMatches
  BY DEF Init, RowMatches, Unstarted, Escaped
<1>4. TabsRepair
  BY DEF Init, TabsRepair, NoTab
<1>5. Announced
  BY <1>0 DEF Init, Announced
<1> QED  BY <1>1, <1>2, <1>3, <1>4, <1>5 DEF Core

-----------------------------------------------------------------------------
(* What a step does to the rows, and what it never undoes.                 *)
KeepsRows ==
    /\ chain' = chain /\ created' = created
    /\ \A r \in Runs : status'[r] = "absent" <=> status[r] = "absent"
Inserts(r) ==
    /\ pc[r] = "creating" /\ InsertRow(r) /\ pc'[r] \notin Unstarted
    /\ UNCHANGED <<from, dropped, mistaken>> /\ \A s \in Runs \ {r} : pc'[s] = pc[s]
RowStep == KeepsRows \/ \E r \in Runs : Inserts(r)

History ==
    /\ stored \subseteq stored' /\ mistaken \subseteq mistaken' /\ dropped \subseteq dropped'
    /\ \A r \in Runs : status[r] \in Terminal /\ r \notin mistaken => status'[r] = status[r]

\* A step inserts one row or none.
LEMMA RowSteps == Core /\ [Next]_vars => RowStep
<1> SUFFICES ASSUME Core, [Next]_vars PROVE RowStep
  OBVIOUS
<1>0. TypeOK /\ RowMatches /\ TabsRepair
  BY DEF Core
<1>1. ASSUME NEW r \in Runs, Acquire(r) PROVE RowStep
  BY <1>1, <1>0, Names DEF Acquire, RowStep, KeepsRows, rows, hubs, history
<1>2. ASSUME NEW r \in Runs, AcquireBusy(r) PROVE RowStep
  BY <1>2, <1>0, Names DEF AcquireBusy, RowStep, KeepsRows, rows, hubs, history
<1>3. ASSUME NEW r \in Runs, CheckLatest(r) PROVE RowStep
  BY <1>3, <1>0, Names DEF CheckLatest, RowStep, KeepsRows, rows, hubs, history
<1>4. ASSUME NEW r \in Runs, Track(r) PROVE RowStep
  BY <1>4, <1>0, Names DEF Track, RowStep, KeepsRows, rows, history
<1>5. ASSUME NEW r \in Runs, StartFails(r) PROVE RowStep
  BY <1>5, <1>0, Names DEF StartFails, RowStep, KeepsRows, rows, hubs, history
<1>6. ASSUME NEW r \in Runs, CreateRun(r) PROVE RowStep
  <2>1. pc[r] = "creating" /\ InsertRow(r)
    BY <1>6 DEF CreateRun
  <2>2. pc'[r] \notin Unstarted /\ \A s \in Runs \ {r} : pc'[s] = pc[s]
    BY <1>6, <1>0, GoEffect, Names DEF CreateRun, Unstarted
  <2> QED  BY <1>6, <2>1, <2>2 DEF CreateRun, RowStep, Inserts, history
<1>7. ASSUME NEW r \in Runs, CreateAmbiguous(r) PROVE RowStep
  <2>1. pc[r] = "creating" /\ InsertRow(r)
    BY <1>7 DEF CreateAmbiguous
  <2>2. pc'[r] \notin Unstarted /\ \A s \in Runs \ {r} : pc'[s] = pc[s]
    BY <1>7, <1>0, GoEffect, Names DEF CreateAmbiguous, Unstarted
  <2> QED  BY <1>7, <2>1, <2>2 DEF CreateAmbiguous, RowStep, Inserts, history
<1>8. ASSUME NEW r \in Runs, Unwind(r) PROVE RowStep
  BY <1>8, <1>0, Names DEF Unwind, RowStep, KeepsRows, rows, hubs
<1>9. ASSUME NEW r \in Runs, ReadForRunning(r) PROVE RowStep
  BY <1>9, <1>0, Names DEF ReadForRunning, RowStep, KeepsRows, rows, hubs, history
<1>10. ASSUME NEW r \in Runs, WriteRunning(r) PROVE RowStep
  BY <1>10, <1>0, Names, WriteEffect DEF WriteRunning, RowMatches, Unstarted, RowStep,
       KeepsRows, hubs, history
<1>11. ASSUME NEW r \in Runs, SetupFails(r) PROVE RowStep
  BY <1>11, <1>0, Names DEF SetupFails, RowStep, KeepsRows, rows, hubs
<1>12. ASSUME NEW r \in Runs, ModelSucceeds(r) PROVE RowStep
  BY <1>12, <1>0, Names DEF ModelSucceeds, RowStep, KeepsRows, rows, hubs, history
<1>13. ASSUME NEW r \in Runs, ModelBounded(r) PROVE RowStep
  BY <1>13, <1>0, Names DEF ModelBounded, RowStep, KeepsRows, rows, hubs, history
<1>14. ASSUME NEW r \in Runs, ModelFails(r) PROVE RowStep
  BY <1>14, <1>0, Names DEF ModelFails, RowStep, KeepsRows, rows, hubs, history
<1>15. ASSUME NEW r \in Runs, ReadForCompleted(r) PROVE RowStep
  BY <1>15, <1>0, Names DEF ReadForCompleted, RowStep, KeepsRows, rows, hubs, history
<1>16. ASSUME NEW r \in Runs, WriteCompleted(r) PROVE RowStep
  BY <1>16, <1>0, Names, WriteEffect DEF WriteCompleted, RowMatches, Unstarted, RowStep,
       KeepsRows, hubs, history
<1>17. ASSUME NEW r \in Runs, FinalizeFails(r) PROVE RowStep
  BY <1>17, <1>0, Names, WriteEffect DEF FinalizeFails, RowMatches, Unstarted, RowStep,
       KeepsRows, hubs
<1>18. ASSUME NEW r \in Runs, PublishCompleted(r) PROVE RowStep
  BY <1>18, <1>0, Names DEF PublishCompleted, RowStep, KeepsRows, rows, history
<1>19. ASSUME NEW r \in Runs, SettleCheck(r) PROVE RowStep
  BY <1>19, <1>0, Names, Values DEF SettleCheck, RowStep, KeepsRows, rows, hubs
<1>20. ASSUME NEW r \in Runs, StoreContinuation(r) PROVE RowStep
  BY <1>20, <1>0, Names DEF StoreContinuation, RowStep, KeepsRows, hubs
<1>21. ASSUME NEW r \in Runs, SettleRead(r) PROVE RowStep
  BY <1>21, <1>0, Names DEF SettleRead, RowStep, KeepsRows, rows, hubs
<1>22. ASSUME NEW r \in Runs, SettleWrite(r) PROVE RowStep
  BY <1>22, <1>0, Names, WriteEffect, Values DEF SettleWrite, RowMatches, Unstarted,
       RowStep, KeepsRows, hubs
<1>23. ASSUME NEW r \in Runs, EmitFailure(r) PROVE RowStep
  BY <1>23, <1>0, Names, Values DEF EmitFailure, RowStep, KeepsRows, rows, history
<1>24. ASSUME NEW r \in Runs, Return(r) PROVE RowStep
  BY <1>24, <1>0, Names DEF Return, RowStep, KeepsRows, rows, hubs
<1>25. ASSUME NEW r \in Runs, NetRead(r) PROVE RowStep
  BY <1>25, <1>0, Names DEF NetRead, RowStep, KeepsRows, rows, hubs
<1>26. ASSUME NEW r \in Runs, NetWrite(r) PROVE RowStep
  BY <1>26, <1>0, Names, WriteEffect, Values DEF NetWrite, RowMatches, Unstarted, RowStep,
       KeepsRows, history
<1>27. ASSUME NEW r \in Runs, NetWriteFails(r) PROVE RowStep
  BY <1>27, <1>0, Names, WriteEffect, Values DEF NetWriteFails, RowMatches, Unstarted,
       RowStep, KeepsRows, hubs
<1>28. ASSUME NEW r \in Runs, GraceExpires(r) PROVE RowStep
  BY <1>28, <1>0, Names DEF GraceExpires, RowStep, KeepsRows, rows, history
<1>29. ASSUME NEW r \in Runs, Cancel(r) PROVE RowStep
  BY <1>29, <1>0, Names DEF Cancel, RowStep, KeepsRows, rows, hubs, history
<1>30. ASSUME NEW r \in Runs, NEW p \in Runs \cup {None}, Request(r, p) PROVE RowStep
  BY <1>30, <1>0, Names DEF Request, RowStep, KeepsRows, rows, hubs, history
<1>31. ASSUME NEW t \in Tabs, NEW r \in Runs, Fetch(t, r) PROVE RowStep
  BY <1>31, <1>0, Names DEF Fetch, RowStep, KeepsRows, rows, process, history
<1>32. ASSUME NEW t \in Tabs, Subscribe(t) PROVE RowStep
  BY <1>32, <1>0, Names DEF Subscribe, RowStep, KeepsRows, rows, process
<1>33. ASSUME NEW t \in Tabs, RepairRead(t) PROVE RowStep
  BY <1>33, <1>0, Names DEF RepairRead, RowStep, KeepsRows, rows, process
<1>34. ASSUME NEW t \in Tabs, RepairWrite(t) PROVE RowStep
  BY <1>34, <1>0, Names, WriteEffect DEF RepairWrite, TabsRepair, RowStep, KeepsRows,
       process, history
<1>35. ASSUME NEW t \in Tabs, RepairWriteFails(t) PROVE RowStep
  BY <1>35, <1>0, Names DEF RepairWriteFails, RowStep, KeepsRows, rows, process
<1>36. ASSUME NEW t \in Tabs, RepairLease(t) PROVE RowStep
  BY <1>36, <1>0, Names DEF RepairLease, RowStep, KeepsRows, rows, process, history
<1>37. ASSUME NEW t \in Tabs, DropLease(t) PROVE RowStep
  BY <1>37, <1>0, Names DEF DropLease, RowStep, KeepsRows, rows, process
<1>38. ASSUME NEW t \in Tabs, Leave(t) PROVE RowStep
  BY <1>38, <1>0, Names DEF Leave, RowStep, KeepsRows, rows, process, history
<1>39. ASSUME NEW u \in Users, ExpireLease(u) PROVE RowStep
  BY <1>39, <1>0, Names DEF ExpireLease, RowStep, KeepsRows, rows, process, hubs, history
<1>40. ASSUME Restart PROVE RowStep
  BY <1>40, <1>0, Names DEF Restart, RowStep, KeepsRows, rows
<1>41. CASE UNCHANGED vars
  BY <1>41 DEF vars, rows, process, hubs, history, RowStep, KeepsRows
<1> QED  BY <1>1, <1>2, <1>3, <1>4, <1>5, <1>6, <1>7, <1>8, <1>9, <1>10, <1>11, <1>12,
            <1>13, <1>14, <1>15, <1>16, <1>17, <1>18, <1>19, <1>20, <1>21, <1>22, <1>23,
            <1>24, <1>25, <1>26, <1>27, <1>28, <1>29, <1>30, <1>31, <1>32, <1>33, <1>34,
            <1>35, <1>36, <1>37, <1>38, <1>39, <1>40, <1>41 DEF Next, Start, Execute,
            Settle, Watch

\* Continuations stay stored, and a terminal row as it is.
LEMMA HistoryKept == Core /\ [Next]_vars => History
<1> SUFFICES ASSUME Core, [Next]_vars PROVE History
  OBVIOUS
<1>0. TypeOK /\ RowMatches /\ TabsRepair
  BY DEF Core
<1>1. ASSUME NEW r \in Runs, Acquire(r) PROVE History
  BY <1>1, <1>0, Names DEF Acquire, History, Terminal, rows, hubs, history
<1>2. ASSUME NEW r \in Runs, AcquireBusy(r) PROVE History
  BY <1>2, <1>0, Names DEF AcquireBusy, History, Terminal, rows, hubs, history
<1>3. ASSUME NEW r \in Runs, CheckLatest(r) PROVE History
  BY <1>3, <1>0, Names DEF CheckLatest, History, Terminal, rows, hubs, history
<1>4. ASSUME NEW r \in Runs, Track(r) PROVE History
  BY <1>4, <1>0, Names DEF Track, History, Terminal, rows, history
<1>5. ASSUME NEW r \in Runs, StartFails(r) PROVE History
  BY <1>5, <1>0, Names DEF StartFails, History, Terminal, rows, hubs, history
<1>6. ASSUME NEW r \in Runs, CreateRun(r) PROVE History
  BY <1>6, <1>0, Names, InsertStatus, InsertEffect DEF CreateRun, RowMatches, Unstarted,
       Open, Failed, History, Terminal, hubs, history
<1>7. ASSUME NEW r \in Runs, CreateAmbiguous(r) PROVE History
  BY <1>7, <1>0, Names, InsertStatus, InsertEffect DEF CreateAmbiguous, RowMatches,
       Unstarted, Open, Failed, History, Terminal, hubs
<1>8. ASSUME NEW r \in Runs, Unwind(r) PROVE History
  BY <1>8, <1>0, Names DEF Unwind, History, Terminal, rows, hubs
<1>9. ASSUME NEW r \in Runs, ReadForRunning(r) PROVE History
  BY <1>9, <1>0, Names DEF ReadForRunning, History, Terminal, rows, hubs, history
<1>10. ASSUME NEW r \in Runs, WriteRunning(r) PROVE History
  BY <1>10, <1>0, Names, WriteEffect DEF WriteRunning, RowMatches, Unstarted, Open, Failed,
       History, Terminal, hubs, history
<1>11. ASSUME NEW r \in Runs, SetupFails(r) PROVE History
  BY <1>11, <1>0, Names DEF SetupFails, History, Terminal, rows, hubs
<1>12. ASSUME NEW r \in Runs, ModelSucceeds(r) PROVE History
  BY <1>12, <1>0, Names DEF ModelSucceeds, History, Terminal, rows, hubs, history
<1>13. ASSUME NEW r \in Runs, ModelBounded(r) PROVE History
  BY <1>13, <1>0, Names DEF ModelBounded, History, Terminal, rows, hubs, history
<1>14. ASSUME NEW r \in Runs, ModelFails(r) PROVE History
  BY <1>14, <1>0, Names DEF ModelFails, History, Terminal, rows, hubs, history
<1>15. ASSUME NEW r \in Runs, ReadForCompleted(r) PROVE History
  BY <1>15, <1>0, Names DEF ReadForCompleted, History, Terminal, rows, hubs, history
<1>16. ASSUME NEW r \in Runs, WriteCompleted(r) PROVE History
  BY <1>16, <1>0, Names, WriteEffect DEF WriteCompleted, RowMatches, Unstarted, Open,
       Failed, History, Terminal, hubs, history
<1>17. ASSUME NEW r \in Runs, FinalizeFails(r) PROVE History
  BY <1>17, <1>0, Names, WriteEffect DEF FinalizeFails, RowMatches, Unstarted, Open, Failed,
       History, Terminal, hubs
<1>18. ASSUME NEW r \in Runs, PublishCompleted(r) PROVE History
  BY <1>18, <1>0, Names DEF PublishCompleted, History, Terminal, rows, history
<1>19. ASSUME NEW r \in Runs, SettleCheck(r) PROVE History
  BY <1>19, <1>0, Names, Values DEF SettleCheck, History, Terminal, rows, hubs
<1>20. ASSUME NEW r \in Runs, StoreContinuation(r) PROVE History
  BY <1>20, <1>0, Names DEF StoreContinuation, History, Terminal, hubs
<1>21. ASSUME NEW r \in Runs, SettleRead(r) PROVE History
  BY <1>21, <1>0, Names DEF SettleRead, History, Terminal, rows, hubs
<1>22. ASSUME NEW r \in Runs, SettleWrite(r) PROVE History
  BY <1>22, <1>0, Names, WriteEffect, Values DEF SettleWrite, RowMatches, Unstarted, Open,
       Failed, History, Terminal, hubs
<1>23. ASSUME NEW r \in Runs, EmitFailure(r) PROVE History
  BY <1>23, <1>0, Names, Values DEF EmitFailure, History, Terminal, rows, history
<1>24. ASSUME NEW r \in Runs, Return(r) PROVE History
  BY <1>24, <1>0, Names DEF Return, History, Terminal, rows, hubs
<1>25. ASSUME NEW r \in Runs, NetRead(r) PROVE History
  BY <1>25, <1>0, Names DEF NetRead, History, Terminal, rows, hubs
<1>26. ASSUME NEW r \in Runs, NetWrite(r) PROVE History
  BY <1>26, <1>0, Names, WriteEffect, Values DEF NetWrite, RowMatches, Unstarted, Open,
       Failed, History, Terminal, history
<1>27. ASSUME NEW r \in Runs, NetWriteFails(r) PROVE History
  BY <1>27, <1>0, Names, WriteEffect, Values DEF NetWriteFails, RowMatches, Unstarted, Open,
       Failed, History, Terminal, hubs
<1>28. ASSUME NEW r \in Runs, GraceExpires(r) PROVE History
  BY <1>28, <1>0, Names DEF GraceExpires, History, Terminal, rows, history
<1>29. ASSUME NEW r \in Runs, Cancel(r) PROVE History
  BY <1>29, <1>0, Names DEF Cancel, History, Terminal, rows, hubs, history
<1>30. ASSUME NEW r \in Runs, NEW p \in Runs \cup {None}, Request(r, p) PROVE History
  BY <1>30, <1>0, Names DEF Request, History, Terminal, rows, hubs, history
<1>31. ASSUME NEW t \in Tabs, NEW r \in Runs, Fetch(t, r) PROVE History
  BY <1>31, <1>0, Names DEF Fetch, History, Terminal, rows, process, history
<1>32. ASSUME NEW t \in Tabs, Subscribe(t) PROVE History
  BY <1>32, <1>0, Names DEF Subscribe, History, Terminal, rows, process
<1>33. ASSUME NEW t \in Tabs, RepairRead(t) PROVE History
  BY <1>33, <1>0, Names DEF RepairRead, History, Terminal, rows, process
<1>34. ASSUME NEW t \in Tabs, RepairWrite(t) PROVE History
  BY <1>34, <1>0, Names, WriteEffect DEF RepairWrite, TabsRepair, Open, Failed, History,
       Terminal, process, history
<1>35. ASSUME NEW t \in Tabs, RepairWriteFails(t) PROVE History
  BY <1>35, <1>0, Names DEF RepairWriteFails, History, Terminal, rows, process
<1>36. ASSUME NEW t \in Tabs, RepairLease(t) PROVE History
  BY <1>36, <1>0, Names DEF RepairLease, History, Terminal, rows, process, history
<1>37. ASSUME NEW t \in Tabs, DropLease(t) PROVE History
  BY <1>37, <1>0, Names DEF DropLease, History, Terminal, rows, process
<1>38. ASSUME NEW t \in Tabs, Leave(t) PROVE History
  BY <1>38, <1>0, Names DEF Leave, History, Terminal, rows, process, history
<1>39. ASSUME NEW u \in Users, ExpireLease(u) PROVE History
  BY <1>39, <1>0, Names DEF ExpireLease, History, Terminal, rows, process, hubs, history
<1>40. ASSUME Restart PROVE History
  BY <1>40, <1>0, Names DEF Restart, History, Terminal, rows
<1>41. CASE UNCHANGED vars
  BY <1>41 DEF vars, rows, process, hubs, history, History, Terminal
<1> QED  BY <1>1, <1>2, <1>3, <1>4, <1>5, <1>6, <1>7, <1>8, <1>9, <1>10, <1>11, <1>12,
            <1>13, <1>14, <1>15, <1>16, <1>17, <1>18, <1>19, <1>20, <1>21, <1>22, <1>23,
            <1>24, <1>25, <1>26, <1>27, <1>28, <1>29, <1>30, <1>31, <1>32, <1>33, <1>34,
            <1>35, <1>36, <1>37, <1>38, <1>39, <1>40, <1>41 DEF Next, Start, Execute,
            Settle, Watch

(* What a step does to the calls.                                          *)
CallStep ==
    \A r \in Runs :
        /\ pc'[r] \in Unstarted /\ from'[r] # None =>
              \/ pc[r] \in Unstarted /\ from'[r] = from[r]
              \/ from'[r] \in Runs /\ OwnerOf[from'[r]] = OwnerOf[r] /\ Resumable(from'[r])
        /\ pc'[r] = "creating" /\ from'[r] # None =>
              /\ from'[r] = from[r]
              /\ pc[r] = "creating" \/ (pc[r] = "checking" /\ Newest(from[r]) = from[r])

\* A call keeps what it continues, and creates after its check.
LEMMA CallSteps == Core /\ [Next]_vars => CallStep
<1> SUFFICES ASSUME Core, [Next]_vars PROVE CallStep
  OBVIOUS
<1>0. TypeOK /\ RowMatches /\ TabsRepair
  BY DEF Core
<1>1. ASSUME NEW r \in Runs, Acquire(r) PROVE CallStep
  BY <1>1, <1>0, Names, GoEffect DEF Acquire, CallStep, Unstarted, rows, hubs, history
<1>2. ASSUME NEW r \in Runs, AcquireBusy(r) PROVE CallStep
  BY <1>2, <1>0, Names, GoEffect DEF AcquireBusy, TypeOK, CallStep, Unstarted, rows, hubs,
       history
<1>3. ASSUME NEW r \in Runs, CheckLatest(r) PROVE CallStep
  BY <1>3, <1>0, Names, GoEffect DEF CheckLatest, CallStep, Unstarted, rows, hubs, history
<1>4. ASSUME NEW r \in Runs, Track(r) PROVE CallStep
  BY <1>4, <1>0, Names, GoEffect DEF Track, CallStep, Unstarted, rows, history
<1>5. ASSUME NEW r \in Runs, StartFails(r) PROVE CallStep
  BY <1>5, <1>0, Names, GoEffect DEF StartFails, CallStep, Unstarted, rows, hubs, history
<1>6. ASSUME NEW r \in Runs, CreateRun(r) PROVE CallStep
  BY <1>6, <1>0, Names, GoEffect DEF CreateRun, CallStep, Unstarted, hubs, history
<1>7. ASSUME NEW r \in Runs, CreateAmbiguous(r) PROVE CallStep
  BY <1>7, <1>0, Names, GoEffect DEF CreateAmbiguous, CallStep, Unstarted, hubs
<1>8. ASSUME NEW r \in Runs, Unwind(r) PROVE CallStep
  BY <1>8, <1>0, Names, GoEffect DEF Unwind, TypeOK, CallStep, Unstarted, rows, hubs
<1>9. ASSUME NEW r \in Runs, ReadForRunning(r) PROVE CallStep
  BY <1>9, <1>0, Names, GoEffect, CaughtEffect, SettleEffect DEF ReadForRunning, CallStep,
       Unstarted, rows, hubs, history
<1>10. ASSUME NEW r \in Runs, WriteRunning(r) PROVE CallStep
  BY <1>10, <1>0, Names, GoEffect DEF WriteRunning, CallStep, Unstarted, hubs, history
<1>11. ASSUME NEW r \in Runs, SetupFails(r) PROVE CallStep
  BY <1>11, <1>0, Names, GoEffect, CaughtEffect, SettleEffect DEF SetupFails, CallStep,
       Unstarted, rows, hubs
<1>12. ASSUME NEW r \in Runs, ModelSucceeds(r) PROVE CallStep
  BY <1>12, <1>0, Names, GoEffect DEF ModelSucceeds, CallStep, Unstarted, rows, hubs, history
<1>13. ASSUME NEW r \in Runs, ModelBounded(r) PROVE CallStep
  BY <1>13, <1>0, Names, GoEffect, SettleEffect DEF ModelBounded, CallStep, Unstarted, rows,
       hubs, history
<1>14. ASSUME NEW r \in Runs, ModelFails(r) PROVE CallStep
  BY <1>14, <1>0, Names, GoEffect, CaughtEffect, SettleEffect DEF ModelFails, CallStep,
       Unstarted, rows, hubs, history
<1>15. ASSUME NEW r \in Runs, ReadForCompleted(r) PROVE CallStep
  BY <1>15, <1>0, Names, GoEffect, CaughtEffect, SettleEffect DEF ReadForCompleted,
       CallStep, Unstarted, rows, hubs, history
<1>16. ASSUME NEW r \in Runs, WriteCompleted(r) PROVE CallStep
  BY <1>16, <1>0, Names, GoEffect DEF WriteCompleted, CallStep, Unstarted, hubs, history
<1>17. ASSUME NEW r \in Runs, FinalizeFails(r) PROVE CallStep
  BY <1>17, <1>0, Names, GoEffect, CaughtEffect, SettleEffect DEF FinalizeFails, CallStep,
       Unstarted, hubs
<1>18. ASSUME NEW r \in Runs, PublishCompleted(r) PROVE CallStep
  BY <1>18, <1>0, Names, GoEffect DEF PublishCompleted, CallStep, Unstarted, rows, history
<1>19. ASSUME NEW r \in Runs, SettleCheck(r) PROVE CallStep
  BY <1>19, <1>0, Names, GoEffect, Values DEF SettleCheck, CallStep, Unstarted, rows, hubs
<1>20. ASSUME NEW r \in Runs, StoreContinuation(r) PROVE CallStep
  BY <1>20, <1>0, Names, GoEffect DEF StoreContinuation, CallStep, Unstarted, hubs
<1>21. ASSUME NEW r \in Runs, SettleRead(r) PROVE CallStep
  BY <1>21, <1>0, Names, GoEffect DEF SettleRead, CallStep, Unstarted, rows, hubs
<1>22. ASSUME NEW r \in Runs, SettleWrite(r) PROVE CallStep
  BY <1>22, <1>0, Names, GoEffect, Values DEF SettleWrite, CallStep, Unstarted, hubs
<1>23. ASSUME NEW r \in Runs, EmitFailure(r) PROVE CallStep
  BY <1>23, <1>0, Names, GoEffect, Values DEF EmitFailure, CallStep, Unstarted, rows, history
<1>24. ASSUME NEW r \in Runs, Return(r) PROVE CallStep
  BY <1>24, <1>0, Names, GoEffect, ReturnEffect DEF Return, Returning, CallStep, Unstarted,
       rows, hubs
<1>25. ASSUME NEW r \in Runs, NetRead(r) PROVE CallStep
  BY <1>25, <1>0, Names, GoEffect DEF NetRead, CallStep, Unstarted, rows, hubs
<1>26. ASSUME NEW r \in Runs, NetWrite(r) PROVE CallStep
  BY <1>26, <1>0, Names, GoEffect, Values DEF NetWrite, CallStep, Unstarted, history
<1>27. ASSUME NEW r \in Runs, NetWriteFails(r) PROVE CallStep
  BY <1>27, <1>0, Names, GoEffect, Values DEF NetWriteFails, CallStep, Unstarted, hubs
<1>28. ASSUME NEW r \in Runs, GraceExpires(r) PROVE CallStep
  BY <1>28, <1>0, Names DEF GraceExpires, CallStep, Unstarted, rows, history
<1>29. ASSUME NEW r \in Runs, Cancel(r) PROVE CallStep
  BY <1>29, <1>0, Names DEF Cancel, CallStep, Unstarted, rows, hubs, history
<1>30. ASSUME NEW r \in Runs, NEW p \in Runs \cup {None}, Request(r, p) PROVE CallStep
  BY <1>30, <1>0, Names, GoEffect DEF Request, TypeOK, CallStep, Unstarted, rows, hubs,
       history
<1>31. ASSUME NEW t \in Tabs, NEW r \in Runs, Fetch(t, r) PROVE CallStep
  BY <1>31, <1>0, Names DEF Fetch, CallStep, Unstarted, rows, process, history
<1>32. ASSUME NEW t \in Tabs, Subscribe(t) PROVE CallStep
  BY <1>32, <1>0, Names DEF Subscribe, CallStep, Unstarted, rows, process
<1>33. ASSUME NEW t \in Tabs, RepairRead(t) PROVE CallStep
  BY <1>33, <1>0, Names DEF RepairRead, CallStep, Unstarted, rows, process
<1>34. ASSUME NEW t \in Tabs, RepairWrite(t) PROVE CallStep
  BY <1>34, <1>0, Names DEF RepairWrite, CallStep, Unstarted, process, history
<1>35. ASSUME NEW t \in Tabs, RepairWriteFails(t) PROVE CallStep
  BY <1>35, <1>0, Names DEF RepairWriteFails, CallStep, Unstarted, rows, process
<1>36. ASSUME NEW t \in Tabs, RepairLease(t) PROVE CallStep
  BY <1>36, <1>0, Names DEF RepairLease, CallStep, Unstarted, rows, process, history
<1>37. ASSUME NEW t \in Tabs, DropLease(t) PROVE CallStep
  BY <1>37, <1>0, Names DEF DropLease, CallStep, Unstarted, rows, process
<1>38. ASSUME NEW t \in Tabs, Leave(t) PROVE CallStep
  BY <1>38, <1>0, Names DEF Leave, CallStep, Unstarted, rows, process, history
<1>39. ASSUME NEW u \in Users, ExpireLease(u) PROVE CallStep
  BY <1>39, <1>0, Names DEF ExpireLease, CallStep, Unstarted, rows, process, hubs, history
<1>40. ASSUME Restart PROVE CallStep
  BY <1>40, <1>0, Names DEF Restart, TypeOK, CallStep, Unstarted, rows
<1>41. CASE UNCHANGED vars
  BY <1>41 DEF vars, rows, process, hubs, history, CallStep, Unstarted
<1> QED  BY <1>1, <1>2, <1>3, <1>4, <1>5, <1>6, <1>7, <1>8, <1>9, <1>10, <1>11, <1>12,
            <1>13, <1>14, <1>15, <1>16, <1>17, <1>18, <1>19, <1>20, <1>21, <1>22, <1>23,
            <1>24, <1>25, <1>26, <1>27, <1>28, <1>29, <1>30, <1>31, <1>32, <1>33, <1>34,
            <1>35, <1>36, <1>37, <1>38, <1>39, <1>40, <1>41 DEF Next, Start, Execute,
            Settle, Watch

\* A resumable stop is written after its continuation (run-settlement.ts:141).
LEMMA StoredKeeps == Core /\ Stored /\ [Next]_vars => Stored'
<1> SUFFICES ASSUME Core, Stored, [Next]_vars PROVE Stored'
  OBVIOUS
<1>0. TypeOK /\ RowMatches /\ TabsRepair
  BY DEF Core
<1>1. ASSUME NEW r \in Runs, Acquire(r) PROVE Stored'
  BY <1>1, <1>0, Names, GoEffect DEF Acquire, Stored, rows, hubs, history
<1>2. ASSUME NEW r \in Runs, AcquireBusy(r) PROVE Stored'
  BY <1>2, <1>0, Names, GoEffect DEF AcquireBusy, Stored, rows, hubs, history
<1>3. ASSUME NEW r \in Runs, CheckLatest(r) PROVE Stored'
  BY <1>3, <1>0, Names, GoEffect DEF CheckLatest, Stored, rows, hubs, history
<1>4. ASSUME NEW r \in Runs, Track(r) PROVE Stored'
  BY <1>4, <1>0, Names, GoEffect DEF Track, Stored, rows, history
<1>5. ASSUME NEW r \in Runs, StartFails(r) PROVE Stored'
  BY <1>5, <1>0, Names, GoEffect DEF StartFails, Stored, rows, hubs, history
<1>6. ASSUME NEW r \in Runs, CreateRun(r) PROVE Stored'
  BY <1>6, <1>0, Names, GoEffect, InsertStatus, InsertEffect DEF CreateRun, Stored, hubs,
       history
<1>7. ASSUME NEW r \in Runs, CreateAmbiguous(r) PROVE Stored'
  BY <1>7, <1>0, Names, GoEffect, InsertStatus, InsertEffect DEF CreateAmbiguous, Stored, hubs
<1>8. ASSUME NEW r \in Runs, Unwind(r) PROVE Stored'
  BY <1>8, <1>0, Names, GoEffect DEF Unwind, Stored, rows, hubs
<1>9. ASSUME NEW r \in Runs, ReadForRunning(r) PROVE Stored'
  BY <1>9, <1>0, Names, GoEffect, CaughtEffect, SettleEffect DEF ReadForRunning, Stored,
       rows, hubs, history
<1>10. ASSUME NEW r \in Runs, WriteRunning(r) PROVE Stored'
  BY <1>10, <1>0, Names, GoEffect, WriteEffect DEF WriteRunning, Stored, hubs, history
<1>11. ASSUME NEW r \in Runs, SetupFails(r) PROVE Stored'
  BY <1>11, <1>0, Names, GoEffect, CaughtEffect, SettleEffect DEF SetupFails, Stored, rows,
       hubs
<1>12. ASSUME NEW r \in Runs, ModelSucceeds(r) PROVE Stored'
  BY <1>12, <1>0, Names, GoEffect DEF ModelSucceeds, Stored, rows, hubs, history
<1>13. ASSUME NEW r \in Runs, ModelBounded(r) PROVE Stored'
  BY <1>13, <1>0, Names, GoEffect, SettleEffect DEF ModelBounded, Stored, rows, hubs, history
<1>14. ASSUME NEW r \in Runs, ModelFails(r) PROVE Stored'
  BY <1>14, <1>0, Names, GoEffect, CaughtEffect, SettleEffect DEF ModelFails, Stored, rows,
       hubs, history
<1>15. ASSUME NEW r \in Runs, ReadForCompleted(r) PROVE Stored'
  BY <1>15, <1>0, Names, GoEffect, CaughtEffect, SettleEffect DEF ReadForCompleted, Stored,
       rows, hubs, history
<1>16. ASSUME NEW r \in Runs, WriteCompleted(r) PROVE Stored'
  BY <1>16, <1>0, Names, GoEffect, WriteEffect DEF WriteCompleted, Stored, hubs, history
<1>17. ASSUME NEW r \in Runs, FinalizeFails(r) PROVE Stored'
  BY <1>17, <1>0, Names, GoEffect, CaughtEffect, SettleEffect, WriteEffect DEF
       FinalizeFails, Stored, hubs
<1>18. ASSUME NEW r \in Runs, PublishCompleted(r) PROVE Stored'
  BY <1>18, <1>0, Names, GoEffect DEF PublishCompleted, Stored, rows, history
<1>19. ASSUME NEW r \in Runs, SettleCheck(r) PROVE Stored'
  BY <1>19, <1>0, Names, GoEffect, Values DEF SettleCheck, AfterCheck, Stored, rows, hubs
<1>20. ASSUME NEW r \in Runs, StoreContinuation(r) PROVE Stored'
  BY <1>20, <1>0, Names, GoEffect DEF StoreContinuation, Stored, hubs
<1>21. ASSUME NEW r \in Runs, SettleRead(r) PROVE Stored'
  BY <1>21, <1>0, Names, GoEffect DEF SettleRead, Stored, rows, hubs
<1>22. ASSUME NEW r \in Runs, SettleWrite(r) PROVE Stored'
  BY <1>22, <1>0, Names, GoEffect, WriteEffect, Values DEF SettleWrite, RowMatches, Escaped,
       Outcome, Stored, hubs
<1>23. ASSUME NEW r \in Runs, EmitFailure(r) PROVE Stored'
  BY <1>23, <1>0, Names, GoEffect, Values DEF EmitFailure, Stored, rows, history
<1>24. ASSUME NEW r \in Runs, Return(r) PROVE Stored'
  BY <1>24, <1>0, Names, GoEffect, ReturnEffect DEF Return, Stored, rows, hubs
<1>25. ASSUME NEW r \in Runs, NetRead(r) PROVE Stored'
  BY <1>25, <1>0, Names, GoEffect DEF NetRead, Stored, rows, hubs
<1>26. ASSUME NEW r \in Runs, NetWrite(r) PROVE Stored'
  BY <1>26, <1>0, Names, GoEffect, WriteEffect, Values DEF NetWrite, RowMatches, Escaped,
       Outcome, Stored, history
<1>27. ASSUME NEW r \in Runs, NetWriteFails(r) PROVE Stored'
  BY <1>27, <1>0, Names, GoEffect, WriteEffect, Values DEF NetWriteFails, RowMatches,
       Escaped, Outcome, Stored, hubs
<1>28. ASSUME NEW r \in Runs, GraceExpires(r) PROVE Stored'
  BY <1>28, <1>0, Names DEF GraceExpires, Stored, rows, history
<1>29. ASSUME NEW r \in Runs, Cancel(r) PROVE Stored'
  BY <1>29, <1>0, Names DEF Cancel, Stored, rows, hubs, history
<1>30. ASSUME NEW r \in Runs, NEW p \in Runs \cup {None}, Request(r, p) PROVE Stored'
  BY <1>30, <1>0, Names, GoEffect DEF Request, Stored, rows, hubs, history
<1>31. ASSUME NEW t \in Tabs, NEW r \in Runs, Fetch(t, r) PROVE Stored'
  BY <1>31, <1>0, Names DEF Fetch, Stored, rows, process, history
<1>32. ASSUME NEW t \in Tabs, Subscribe(t) PROVE Stored'
  BY <1>32, <1>0, Names DEF Subscribe, Stored, rows, process
<1>33. ASSUME NEW t \in Tabs, RepairRead(t) PROVE Stored'
  BY <1>33, <1>0, Names DEF RepairRead, Stored, rows, process
<1>34. ASSUME NEW t \in Tabs, RepairWrite(t) PROVE Stored'
  BY <1>34, <1>0, Names, WriteEffect DEF RepairWrite, TabsRepair, Stored, process, history
<1>35. ASSUME NEW t \in Tabs, RepairWriteFails(t) PROVE Stored'
  BY <1>35, <1>0, Names DEF RepairWriteFails, Stored, rows, process
<1>36. ASSUME NEW t \in Tabs, RepairLease(t) PROVE Stored'
  BY <1>36, <1>0, Names DEF RepairLease, Stored, rows, process, history
<1>37. ASSUME NEW t \in Tabs, DropLease(t) PROVE Stored'
  BY <1>37, <1>0, Names DEF DropLease, Stored, rows, process
<1>38. ASSUME NEW t \in Tabs, Leave(t) PROVE Stored'
  BY <1>38, <1>0, Names DEF Leave, Stored, rows, process, history
<1>39. ASSUME NEW u \in Users, ExpireLease(u) PROVE Stored'
  BY <1>39, <1>0, Names DEF ExpireLease, Stored, rows, process, hubs, history
<1>40. ASSUME Restart PROVE Stored'
  BY <1>40, <1>0, Names DEF Restart, Stored, rows
<1>41. CASE UNCHANGED vars
  BY <1>41 DEF vars, rows, process, hubs, history, Stored
<1> QED  BY <1>1, <1>2, <1>3, <1>4, <1>5, <1>6, <1>7, <1>8, <1>9, <1>10, <1>11, <1>12,
            <1>13, <1>14, <1>15, <1>16, <1>17, <1>18, <1>19, <1>20, <1>21, <1>22, <1>23,
            <1>24, <1>25, <1>26, <1>27, <1>28, <1>29, <1>30, <1>31, <1>32, <1>33, <1>34,
            <1>35, <1>36, <1>37, <1>38, <1>39, <1>40, <1>41 DEF Next, Start, Execute,
            Settle, Watch

\* Runs whose queries all succeed: tracked while in progress, with an open
\* row until the end that is announced is written.
LEMMA FaultlessKeeps == Core /\ Faultless /\ [Next]_vars => Faultless'
<1> SUFFICES ASSUME Core, Faultless, [Next]_vars PROVE Faultless'
  OBVIOUS
<1>0. TypeOK /\ LeaseHeld /\ RowMatches /\ TabsRepair /\ Announced
  BY DEF Core
<1>1. ASSUME NEW r \in Runs, Acquire(r) PROVE Faultless'
  BY <1>1, <1>0, Names, GoEffect DEF Acquire, Faultless, Executing, Returning, Escaped,
       rows, hubs, history
<1>2. ASSUME NEW r \in Runs, AcquireBusy(r) PROVE Faultless'
  BY <1>2, <1>0, Names, GoEffect DEF AcquireBusy, Faultless, Executing, Returning, Escaped,
       rows, hubs, history
<1>3. ASSUME NEW r \in Runs, CheckLatest(r) PROVE Faultless'
  BY <1>3, <1>0, Names, GoEffect DEF CheckLatest, Faultless, Executing, Returning, Escaped,
       rows, hubs, history
<1>4. ASSUME NEW r \in Runs, Track(r) PROVE Faultless'
  BY <1>4, <1>0, Names, GoEffect DEF Track, Faultless, Executing, Returning, Escaped, rows,
       history
<1>5. ASSUME NEW r \in Runs, StartFails(r) PROVE Faultless'
  BY <1>5, <1>0, Names, GoEffect DEF StartFails, Faultless, Executing, Returning, Escaped,
       rows, hubs, history
<1>6. ASSUME NEW r \in Runs, CreateRun(r) PROVE Faultless'
  BY <1>6, <1>0, Names, GoEffect, InsertStatus DEF CreateRun, EndOf, Faultless, Executing,
       Returning, Escaped, hubs, history
<1>7. ASSUME NEW r \in Runs, CreateAmbiguous(r) PROVE Faultless'
  BY <1>7, <1>0, Names, GoEffect, InsertStatus, FaultEffect DEF CreateAmbiguous, Faultless,
       Executing, Returning, Escaped, hubs
<1>8. ASSUME NEW r \in Runs, Unwind(r) PROVE Faultless'
  BY <1>8, <1>0, Names, GoEffect, ReleaseEffect, FaultEffect DEF Unwind, Faultless,
       Executing, Returning, Escaped, rows, hubs
<1>9. ASSUME NEW r \in Runs, ReadForRunning(r) PROVE Faultless'
  BY <1>9, <1>0, Names, GoEffect, CaughtEffect, SettleEffect DEF ReadForRunning, RowMatches,
       Open, Faultless, Executing, Returning, Escaped, rows, hubs, history
<1>10. ASSUME NEW r \in Runs, WriteRunning(r) PROVE Faultless'
  BY <1>10, <1>0, Names, GoEffect, WriteEffect DEF WriteRunning, Faultless, Executing,
       Returning, Escaped, hubs, history
<1>11. ASSUME NEW r \in Runs, SetupFails(r) PROVE Faultless'
  BY <1>11, <1>0, Names, GoEffect, CaughtEffect, SettleEffect, FaultEffect DEF SetupFails,
       Faultless, Executing, Returning, Escaped, rows, hubs
<1>12. ASSUME NEW r \in Runs, ModelSucceeds(r) PROVE Faultless'
  BY <1>12, <1>0, Names, GoEffect DEF ModelSucceeds, Faultless, Executing, Returning,
       Escaped, rows, hubs, history
<1>13. ASSUME NEW r \in Runs, ModelBounded(r) PROVE Faultless'
  BY <1>13, <1>0, Names, GoEffect, SettleEffect DEF ModelBounded, RowMatches, Open,
       Faultless, Executing, Returning, Escaped, rows, hubs, history
<1>14. ASSUME NEW r \in Runs, ModelFails(r) PROVE Faultless'
  BY <1>14, <1>0, Names, GoEffect, CaughtEffect, SettleEffect DEF ModelFails, RowMatches,
       Open, Faultless, Executing, Returning, Escaped, rows, hubs, history
<1>15. ASSUME NEW r \in Runs, ReadForCompleted(r) PROVE Faultless'
  BY <1>15, <1>0, Names, GoEffect, CaughtEffect, SettleEffect DEF ReadForCompleted,
       RowMatches, Open, Faultless, Executing, Returning, Escaped, rows, hubs, history
<1>16. ASSUME NEW r \in Runs, WriteCompleted(r) PROVE Faultless'
  BY <1>16, <1>0, Names, GoEffect, WriteEffect DEF WriteCompleted, Faultless, Executing,
       Returning, Escaped, hubs, history
<1>17. ASSUME NEW r \in Runs, FinalizeFails(r) PROVE Faultless'
  BY <1>17, <1>0, Names, GoEffect, CaughtEffect, SettleEffect, FaultEffect, WriteEffect DEF
       FinalizeFails, Faultless, Executing, Returning, Escaped, hubs
<1>18. ASSUME NEW r \in Runs, PublishCompleted(r) PROVE Faultless'
  BY <1>18, <1>0, Names, GoEffect DEF PublishCompleted, Faultless, Executing, Returning,
       Escaped, rows, history
<1>19. ASSUME NEW r \in Runs, SettleCheck(r) PROVE Faultless'
  BY <1>19, <1>0, Names, GoEffect, FaultEffect, Values DEF SettleCheck, Faultless,
       Executing, Returning, Escaped, rows, hubs
<1>20. ASSUME NEW r \in Runs, StoreContinuation(r) PROVE Faultless'
  BY <1>20, <1>0, Names, GoEffect, FaultEffect DEF StoreContinuation, Faultless, Executing,
       Returning, Escaped, hubs
<1>21. ASSUME NEW r \in Runs, SettleRead(r) PROVE Faultless'
  BY <1>21, <1>0, Names, GoEffect, FaultEffect, NotTerminal DEF SettleRead, Refused, Open,
       Terminal, Failed, Faultless, Executing, Returning, Escaped, rows, hubs
<1>22. ASSUME NEW r \in Runs, SettleWrite(r) PROVE Faultless'
  BY <1>22, <1>0, Names, GoEffect, WriteEffect, FaultEffect, Values DEF SettleWrite, EndOf,
       EventOf, Outcome, Failed, Faultless, Executing, Returning, Escaped, hubs
<1>23. ASSUME NEW r \in Runs, EmitFailure(r) PROVE Faultless'
  BY <1>23, <1>0, Names, GoEffect, Values DEF EmitFailure, Faultless, Executing, Returning,
       Escaped, rows, history
<1>24. ASSUME NEW r \in Runs, Return(r) PROVE Faultless'
  BY <1>24, <1>0, Names, GoEffect, ReleaseEffect, FaultEffect, ReturnEffect DEF Return,
       Faultless, Executing, Returning, Escaped, rows, hubs
<1>25. ASSUME NEW r \in Runs, NetRead(r) PROVE Faultless'
  BY <1>25, <1>0, Names, GoEffect, FaultEffect DEF NetRead, Faultless, Executing, Returning,
       Escaped, rows, hubs
<1>26. ASSUME NEW r \in Runs, NetWrite(r) PROVE Faultless'
  BY <1>26, <1>0, Names, GoEffect, WriteEffect, Values DEF NetWrite, Faultless, Executing,
       Returning, Escaped, history
<1>27. ASSUME NEW r \in Runs, NetWriteFails(r) PROVE Faultless'
  BY <1>27, <1>0, Names, GoEffect, WriteEffect, FaultEffect, Values DEF NetWriteFails,
       Faultless, Executing, Returning, Escaped, hubs
<1>28. ASSUME NEW r \in Runs, GraceExpires(r) PROVE Faultless'
  BY <1>28, <1>0, Names DEF GraceExpires, Faultless, Executing, Returning, Escaped, rows,
       history
<1>29. ASSUME NEW r \in Runs, Cancel(r) PROVE Faultless'
  BY <1>29, <1>0, Names DEF Cancel, Faultless, Executing, Returning, Escaped, rows, hubs,
       history
<1>30. ASSUME NEW r \in Runs, NEW p \in Runs \cup {None}, Request(r, p) PROVE Faultless'
  BY <1>30, <1>0, Names, GoEffect DEF Request, Faultless, Executing, Returning, Escaped,
       rows, hubs, history
<1>31. ASSUME NEW t \in Tabs, NEW r \in Runs, Fetch(t, r) PROVE Faultless'
  BY <1>31, <1>0, Names DEF Fetch, Faultless, Executing, Returning, Escaped, rows, process,
       history
<1>32. ASSUME NEW t \in Tabs, Subscribe(t) PROVE Faultless'
  BY <1>32, <1>0, Names DEF Subscribe, Faultless, Executing, Returning, Escaped, rows, process
<1>33. ASSUME NEW t \in Tabs, RepairRead(t) PROVE Faultless'
  BY <1>33, <1>0, Names, FaultEffect, NotTerminal DEF RepairRead, Faultless, Executing,
       Returning, Escaped, rows, process
<1>34. ASSUME NEW t \in Tabs, RepairWrite(t) PROVE Faultless'
  BY <1>34, <1>0, Names, WriteEffect DEF RepairWrite, TabsRepair, Busy, Faultless,
       Executing, Returning, Escaped, process, history
<1>35. ASSUME NEW t \in Tabs, RepairWriteFails(t) PROVE Faultless'
  BY <1>35, <1>0, Names, FaultEffect DEF RepairWriteFails, Faultless, Executing, Returning,
       Escaped, rows, process
<1>36. ASSUME NEW t \in Tabs, RepairLease(t) PROVE Faultless'
  BY <1>36, <1>0, Names DEF RepairLease, Faultless, Executing, Returning, Escaped, rows,
       process, history
<1>37. ASSUME NEW t \in Tabs, DropLease(t) PROVE Faultless'
  BY <1>37, <1>0, Names, FaultEffect DEF DropLease, Faultless, Executing, Returning,
       Escaped, rows, process
<1>38. ASSUME NEW t \in Tabs, Leave(t) PROVE Faultless'
  BY <1>38, <1>0, Names DEF Leave, Faultless, Executing, Returning, Escaped, rows, process,
       history
<1>39. ASSUME NEW u \in Users, ExpireLease(u) PROVE Faultless'
  BY <1>39, <1>0, Names DEF ExpireLease, Faultless, Executing, Returning, Escaped, rows,
       process, hubs, history
<1>40. ASSUME Restart PROVE Faultless'
  BY <1>40, <1>0, Names DEF Restart, Faultless, Executing, Returning, Escaped, rows
<1>41. CASE UNCHANGED vars
  BY <1>41 DEF vars, rows, process, hubs, history, Faultless, Executing, Returning, Escaped
<1> QED  BY <1>1, <1>2, <1>3, <1>4, <1>5, <1>6, <1>7, <1>8, <1>9, <1>10, <1>11, <1>12,
            <1>13, <1>14, <1>15, <1>16, <1>17, <1>18, <1>19, <1>20, <1>21, <1>22, <1>23,
            <1>24, <1>25, <1>26, <1>27, <1>28, <1>29, <1>30, <1>31, <1>32, <1>33, <1>34,
            <1>35, <1>36, <1>37, <1>38, <1>39, <1>40, <1>41 DEF Next, Start, Execute,
            Settle, Watch

-----------------------------------------------------------------------------
(* What the watchers see of a step, as long as no query has failed.        *)
Quiet == /\ \A s \in Runs : EndOf(status'[s]) = EndOf(status[s])
         /\ events' = events /\ mistaken' = mistaken
Ending(r) ==
    /\ events' = events /\ mistaken' = mistaken
    /\ \A s \in Runs \ {r} : status'[s] = status[s]
    /\ \/ EndOf(status[r]) = "absent" /\ EndOf(status'[r]) = "open"
       \/ EndOf(status[r]) = "open" /\ EndOf(status'[r]) \in EndEvents
       \/ r \in mistaken /\ EndOf(status'[r]) \in EndEvents \cup {"open"}
Announcing(r) ==
    /\ status' = status /\ mistaken' = mistaken
    /\ events[r] = <<>> /\ \A s \in Runs \ {r} : events'[s] = events[s]
    /\ \E e \in EndEvents : events'[r] = <<e>> /\ (EndOf(status[r]) = e \/ r \in mistaken)
Disowning(r) ==
    /\ status' = status /\ events' = events /\ mistaken' = mistaken \cup {r}
    /\ EndOf(status[r]) = "open"
Dying == status' = status /\ mistaken' = mistaken /\ \A s \in Runs : events'[s] = <<>>

Seen == \/ Quiet \/ Dying
        \/ \E r \in Runs : Ending(r) \/ Announcing(r) \/ Disowning(r)
SeenStep == faults' = 0 => faults = 0 /\ Seen

\* What a status means to a watcher.
LEMMA Ends ==
    /\ EndOf("absent") = "absent" /\ EndOf("queued") = "open" /\ EndOf("running") = "open"
    /\ EndOf("completed") = "completed" /\ EndOf("abandoned") = "failed"
    /\ \A s \in Open : EndOf(s) = "open"
    /\ \A p : EndOf(Outcome(p)) = EventOf(p)
    /\ \A p : EventOf(p) \in EndEvents /\ Outcome(p) # "absent"
    /\ {"completed", "failed"} \subseteq EndEvents /\ "open" \notin EndEvents
    /\ \A s \in Statuses : EndOf(s) \in EndEvents \cup {"absent", "open"}
BY DEF EndOf, Failed, Open, Outcome, EventOf, EndEvents, Statuses, Terminal

\* What the watchers see is one step of the lifecycle at most.
LEMMA SeenSteps == Core /\ Faultless /\ [Next]_vars => SeenStep
<1> SUFFICES ASSUME Core, Faultless, [Next]_vars PROVE SeenStep
  OBVIOUS
<1>0. TypeOK /\ RowMatches /\ TabsRepair /\ Announced
  BY DEF Core
<1> USE DEF SeenStep
<1>1. ASSUME NEW r \in Runs, Acquire(r) PROVE SeenStep
  BY <1>1, <1>0 DEF Acquire, Seen, Quiet, rows, hubs, history
<1>2. ASSUME NEW r \in Runs, AcquireBusy(r) PROVE SeenStep
  BY <1>2, <1>0 DEF AcquireBusy, Seen, Quiet, rows, hubs, history
<1>3. ASSUME NEW r \in Runs, CheckLatest(r) PROVE SeenStep
  BY <1>3, <1>0 DEF CheckLatest, Seen, Quiet, rows, hubs, history
<1>4. ASSUME NEW r \in Runs, Track(r) PROVE SeenStep
  BY <1>4, <1>0 DEF Track, Seen, Quiet, rows, history
<1>5. ASSUME NEW r \in Runs, StartFails(r) PROVE SeenStep
  BY <1>5, <1>0 DEF StartFails, Seen, Quiet, rows, hubs, history
<1>6. ASSUME NEW r \in Runs, CreateRun(r) PROVE SeenStep
  <2>0. faults' = faults /\ events' = events /\ mistaken' = mistaken
    BY <1>6 DEF CreateRun, hubs, history
  <2>1. \A s \in Runs \ {r} : status'[s] = status[s]
    BY <1>6, <1>0, WriteEffect, InsertStatus, Names, Values DEF CreateRun
  <2>2. status[r] = "absent" /\ status'[r] = "queued"
    BY <1>6, <1>0, WriteEffect, InsertStatus, Names, Values DEF CreateRun, RowMatches,
         Unstarted
  <2> QED  BY <2>0, <2>1, <2>2, Ends DEF Seen, Ending, Quiet, EndEvents
<1>7. ASSUME NEW r \in Runs, CreateAmbiguous(r) PROVE SeenStep
  BY <1>7, <1>0, FaultEffect DEF CreateAmbiguous, Seen, Quiet, hubs
<1>8. ASSUME NEW r \in Runs, Unwind(r) PROVE SeenStep
  BY <1>8, <1>0, ReleaseEffect, FaultEffect DEF Unwind, Seen, Quiet, rows, hubs
<1>9. ASSUME NEW r \in Runs, ReadForRunning(r) PROVE SeenStep
  BY <1>9, <1>0 DEF ReadForRunning, Seen, Quiet, rows, hubs, history
<1>10. ASSUME NEW r \in Runs, WriteRunning(r) PROVE SeenStep
  <2>0. faults' = faults /\ events' = events /\ mistaken' = mistaken
    BY <1>10 DEF WriteRunning, hubs, history
  <2>1. \A s \in Runs \ {r} : status'[s] = status[s]
    BY <1>10, <1>0, WriteEffect, InsertStatus, Names, Values DEF WriteRunning
  <2>2. (r \notin mistaken => status[r] = "queued") /\ status'[r] = "running"
    BY <1>10, <1>0, WriteEffect, InsertStatus, Names, Values DEF WriteRunning, RowMatches,
         Unstarted
  <2> QED  BY <2>0, <2>1, <2>2, Ends DEF Seen, Ending, Quiet, EndEvents
<1>11. ASSUME NEW r \in Runs, SetupFails(r) PROVE SeenStep
  BY <1>11, <1>0, FaultEffect DEF SetupFails, Seen, Quiet, rows, hubs
<1>12. ASSUME NEW r \in Runs, ModelSucceeds(r) PROVE SeenStep
  BY <1>12, <1>0 DEF ModelSucceeds, Seen, Quiet, rows, hubs, history
<1>13. ASSUME NEW r \in Runs, ModelBounded(r) PROVE SeenStep
  BY <1>13, <1>0 DEF ModelBounded, Seen, Quiet, rows, hubs, history
<1>14. ASSUME NEW r \in Runs, ModelFails(r) PROVE SeenStep
  BY <1>14, <1>0 DEF ModelFails, Seen, Quiet, rows, hubs, history
<1>15. ASSUME NEW r \in Runs, ReadForCompleted(r) PROVE SeenStep
  BY <1>15, <1>0 DEF ReadForCompleted, Seen, Quiet, rows, hubs, history
<1>16. ASSUME NEW r \in Runs, WriteCompleted(r) PROVE SeenStep
  <2>0. faults' = faults /\ events' = events /\ mistaken' = mistaken
    BY <1>16 DEF WriteCompleted, hubs, history
  <2>1. \A s \in Runs \ {r} : status'[s] = status[s]
    BY <1>16, <1>0, WriteEffect, InsertStatus, Names, Values DEF WriteCompleted
  <2>2. (r \notin mistaken => status[r] = "running") /\ status'[r] = "completed"
    BY <1>16, <1>0, WriteEffect, InsertStatus, Names, Values DEF WriteCompleted, RowMatches,
         Unstarted
  <2> QED  BY <2>0, <2>1, <2>2, Ends DEF Seen, Ending, Quiet, EndEvents
<1>17. ASSUME NEW r \in Runs, FinalizeFails(r) PROVE SeenStep
  BY <1>17, <1>0, FaultEffect DEF FinalizeFails, Seen, Quiet, hubs
<1>18. ASSUME NEW r \in Runs, PublishCompleted(r) PROVE SeenStep
  <2>0. faults' = faults /\ status' = status /\ mistaken' = mistaken
    BY <1>18 DEF PublishCompleted, rows, history
  <2>1. events[r] = <<>> /\ r \in active
    BY <1>18, <1>0 DEF PublishCompleted, Announced, Faultless, Executing
  <2>2. PICK e \in EndEvents : Emit(r, e) /\ (faults = 0 => EndOf(status[r]) = e \/ r \in mistaken)
    BY <1>18, <1>0, Ends DEF PublishCompleted, RowMatches, Faultless
  <2>3. events'[r] = Append(<<>>, e) /\ \A s \in Runs \ {r} : events'[s] = events[s]
    BY <1>0, <2>1, <2>2, EmitEffect
  <2>4. events'[r] = <<e>>
    BY <2>3, FirstEvent
  <2> QED  BY <2>0, <2>1, <2>2, <2>3, <2>4 DEF Seen, Announcing
<1>19. ASSUME NEW r \in Runs, SettleCheck(r) PROVE SeenStep
  BY <1>19, <1>0, FaultEffect DEF SettleCheck, Seen, Quiet, rows, hubs
<1>20. ASSUME NEW r \in Runs, StoreContinuation(r) PROVE SeenStep
  BY <1>20, <1>0, FaultEffect DEF StoreContinuation, Seen, Quiet, hubs
<1>21. ASSUME NEW r \in Runs, SettleRead(r) PROVE SeenStep
  BY <1>21, <1>0, FaultEffect DEF SettleRead, Seen, Quiet, rows, hubs
<1>22. ASSUME NEW r \in Runs, SettleWrite(r) PROVE SeenStep
  <2>1. CASE Fault
    BY <1>0, <2>1, FaultEffect
  <2>2. CASE Write(r, Outcome(plan[r])) /\ faults' = faults
    <3>0. faults' = faults /\ events' = events /\ mistaken' = mistaken
      BY <1>22, <2>2 DEF SettleWrite, hubs
    <3>1. status'[r] = Outcome(plan[r]) /\ \A s \in Runs \ {r} : status'[s] = status[s]
      BY <1>0, <2>2, WriteEffect, Values
    <3>2. r \notin mistaken => status[r] \in Open
      BY <1>22, <1>0 DEF SettleWrite, RowMatches
    <3> QED  BY <3>0, <3>1, <3>2, Ends DEF Seen, Ending
  <2> QED  BY <1>22, <2>1, <2>2 DEF SettleWrite
<1>23. ASSUME NEW r \in Runs, EmitFailure(r) PROVE SeenStep
  <2>0. faults' = faults /\ status' = status /\ mistaken' = mistaken
    BY <1>23 DEF EmitFailure, rows, history
  <2>1. events[r] = <<>> /\ r \in active
    BY <1>23, <1>0 DEF EmitFailure, Announced, Faultless, Executing
  <2>2. PICK e \in EndEvents : Emit(r, e) /\ (faults = 0 => EndOf(status[r]) = e \/ r \in mistaken)
    BY <1>23, <1>0, Ends DEF EmitFailure, RowMatches, Faultless
  <2>3. events'[r] = Append(<<>>, e) /\ \A s \in Runs \ {r} : events'[s] = events[s]
    BY <1>0, <2>1, <2>2, EmitEffect
  <2>4. events'[r] = <<e>>
    BY <2>3, FirstEvent
  <2> QED  BY <2>0, <2>1, <2>2, <2>3, <2>4 DEF Seen, Announcing
<1>24. ASSUME NEW r \in Runs, Return(r) PROVE SeenStep
  BY <1>24, <1>0, ReleaseEffect, FaultEffect DEF Return, Seen, Quiet, rows, hubs
<1>25. ASSUME NEW r \in Runs, NetRead(r) PROVE SeenStep
  BY <1>25, <1>0, FaultEffect DEF NetRead, Seen, Quiet, rows, hubs
<1>26. ASSUME NEW r \in Runs, NetWrite(r) PROVE SeenStep
  <2>1. faults' = faults /\ faults # 0
    BY <1>26 DEF NetWrite, Faultless, Escaped, history
  <2> QED  BY <2>1
<1>27. ASSUME NEW r \in Runs, NetWriteFails(r) PROVE SeenStep
  BY <1>27, <1>0, FaultEffect DEF NetWriteFails, Seen, Quiet, hubs
<1>28. ASSUME NEW r \in Runs, GraceExpires(r) PROVE SeenStep
  BY <1>28, <1>0 DEF GraceExpires, Seen, Quiet, rows, history
<1>29. ASSUME NEW r \in Runs, Cancel(r) PROVE SeenStep
  BY <1>29, <1>0 DEF Cancel, Seen, Quiet, rows, hubs, history
<1>30. ASSUME NEW r \in Runs, NEW p \in Runs \cup {None}, Request(r, p) PROVE SeenStep
  BY <1>30, <1>0 DEF Request, Seen, Quiet, rows, hubs, history
<1>31. ASSUME NEW t \in Tabs, NEW r \in Runs, Fetch(t, r) PROVE SeenStep
  BY <1>31, <1>0 DEF Fetch, Seen, Quiet, rows, process, history
<1>32. ASSUME NEW t \in Tabs, Subscribe(t) PROVE SeenStep
  <2> DEFINE r == tab[t].run
  <2>0. faults' = faults /\ status' = status /\ events' = events
    BY <1>32 DEF Subscribe, rows
  <2>1. CASE mistaken' = mistaken
    BY <2>0, <2>1 DEF Seen, Quiet
  <2>2. CASE mistaken' # mistaken
    <3>1. r \in Runs /\ r \notin active /\ Busy(r) /\ mistaken' = mistaken \cup {r} /\ r \notin mistaken
      BY <1>32, <1>0, <2>2 DEF Subscribe, TabsRepair
    <3>2. faults = 0 => status[r] = "queued"
      BY <1>0, <3>1 DEF Faultless, RowMatches, Busy, Executing, Returning, Escaped
    <3> HIDE DEF r
    <3> QED  BY <2>0, <3>1, <3>2, Ends DEF Seen, Disowning
  <2> QED  BY <2>1, <2>2
<1>33. ASSUME NEW t \in Tabs, RepairRead(t) PROVE SeenStep
  BY <1>33, <1>0, FaultEffect DEF RepairRead, Seen, Quiet, rows, process
<1>34. ASSUME NEW t \in Tabs, RepairWrite(t) PROVE SeenStep
  <2> DEFINE r == tab[t].run
  <2>0. faults' = faults /\ events' = events /\ mistaken' = mistaken
    BY <1>34 DEF RepairWrite, history
  <2>1. r \in Runs /\ (r \notin mistaken => status[r] \in Open \cup {"abandoned"})
    BY <1>34, <1>0 DEF RepairWrite, TabsRepair
  <2>2. status'[r] = "abandoned" /\ \A s \in Runs \ {r} : status'[s] = status[s]
    BY <1>34, <1>0, <2>1, WriteEffect, Names DEF RepairWrite
  <2> HIDE DEF r
  <2>3. CASE r \notin mistaken /\ status[r] = "abandoned"
    BY <2>0, <2>2, <2>3 DEF Seen, Quiet
  <2>4. CASE r \in mistaken \/ status[r] \in Open
    BY <2>0, <2>1, <2>2, <2>4, Ends DEF Seen, Ending
  <2> QED  BY <2>1, <2>3, <2>4
<1>35. ASSUME NEW t \in Tabs, RepairWriteFails(t) PROVE SeenStep
  BY <1>35, <1>0, FaultEffect DEF RepairWriteFails, Seen, Quiet, rows, process
<1>36. ASSUME NEW t \in Tabs, RepairLease(t) PROVE SeenStep
  BY <1>36, <1>0 DEF RepairLease, Seen, Quiet, rows, process, history
<1>37. ASSUME NEW t \in Tabs, DropLease(t) PROVE SeenStep
  BY <1>37, <1>0, FaultEffect DEF DropLease, Seen, Quiet, rows, process
<1>38. ASSUME NEW t \in Tabs, Leave(t) PROVE SeenStep
  BY <1>38, <1>0 DEF Leave, Seen, Quiet, rows, process, history
<1>39. ASSUME NEW u \in Users, ExpireLease(u) PROVE SeenStep
  BY <1>39, <1>0 DEF ExpireLease, Seen, Quiet, rows, process, hubs, history
<1>40. ASSUME Restart PROVE SeenStep
  <2>1. faults' = faults /\ Dying
    BY <1>40 DEF Restart, Dying, rows
  <2> QED  BY <2>1 DEF Seen
<1>41. CASE UNCHANGED vars
  BY <1>41 DEF vars, rows, process, hubs, history, Seen, Quiet
<1> QED  BY <1>1, <1>2, <1>3, <1>4, <1>5, <1>6, <1>7, <1>8, <1>9, <1>10, <1>11, <1>12,
            <1>13, <1>14, <1>15, <1>16, <1>17, <1>18, <1>19, <1>20, <1>21, <1>22, <1>23,
            <1>24, <1>25, <1>26, <1>27, <1>28, <1>29, <1>30, <1>31, <1>32, <1>33, <1>34,
            <1>35, <1>36, <1>37, <1>38, <1>39, <1>40, <1>41 DEF Next, Start, Execute,
            Settle, Watch

-----------------------------------------------------------------------------
(* The rows and their chains.                                              *)

\* Append, pointwise.
LEMMA AppendAt ==
    ASSUME NEW S, NEW q \in Seq(S), NEW e \in S
    PROVE  /\ Append(q, e) \in Seq(S) /\ Append(q, e) # <<>>
           /\ Len(Append(q, e)) = Len(q) + 1 /\ DOMAIN Append(q, e) = 1 .. Len(q) + 1
           /\ Append(q, e)[Len(q) + 1] = e
           /\ \A i \in 1 .. Len(q) : Append(q, e)[i] = q[i]
           /\ Len(q) \in Nat /\ DOMAIN q = 1 .. Len(q)
BY LenProperties

\* The list of rows stays the list of rows.
LEMMA ListedKeeps == Core /\ Listed /\ RowStep => Listed'
<1> SUFFICES ASSUME Core, Listed, RowStep PROVE Listed'
  OBVIOUS
<1>0. created \in Seq(Runs) /\ TypeOK /\ RowMatches
  BY DEF Core, TypeOK
<1>1. CASE KeepsRows
  BY <1>1 DEF KeepsRows, Listed
<1>2. ASSUME NEW r \in Runs, Inserts(r) PROVE Listed'
  <2>1. status[r] = "absent" /\ created' = Append(created, r)
    BY <1>0, <1>2, InsertEffect DEF Inserts, RowMatches, Unstarted
  <2>2. status'[r] # "absent" /\ \A s \in Runs \ {r} : status'[s] = status[s]
    BY <1>0, <1>2, InsertStatus DEF Inserts
  <2>3. \A i \in DOMAIN created : created[i] # r
    BY <2>1 DEF Listed
  <2>4. /\ DOMAIN created' = 1 .. Len(created) + 1 /\ DOMAIN created = 1 .. Len(created)
        /\ created'[Len(created) + 1] = r /\ Len(created) \in Nat
        /\ \A i \in 1 .. Len(created) : created'[i] = created[i]
    BY <1>0, <2>1, AppendAt
  <2>5. \A i, j \in DOMAIN created' : created'[i] = created'[j] => i = j
    BY <2>3, <2>4 DEF Listed
  <2>6. ASSUME NEW s \in Runs
        PROVE  status'[s] # "absent" <=> \E i \in DOMAIN created' : created'[i] = s
    <3>1. CASE s = r
      BY <2>2, <2>4, <3>1
    <3>2. CASE s # r
      <4>1. status[s] # "absent" <=> \E i \in DOMAIN created : created[i] = s
        BY DEF Listed
      <4> QED  BY <2>2, <2>4, <3>2, <4>1
    <3> QED  BY <3>1, <3>2
  <2> QED  BY <2>5, <2>6 DEF Listed
<1> QED  BY <1>1, <1>2 DEF RowStep

\* The row an insertion adds: of a run that was not there, after all others.
LEMMA Inserted ==
    ASSUME Core, Listed, Continued, NEW r \in Runs, Inserts(r)
    PROVE  /\ status[r] = "absent"
           /\ status'[r] = "queued" /\ \A s \in Runs \ {r} : status'[s] = status[s]
           /\ chain'[r] = Append(Before(r), r) /\ \A s \in Runs \ {r} : chain'[s] = chain[s]
           /\ created' = Append(created, r)
           /\ from[r] # None => from[r] \in Runs /\ from[r] # r /\ status[from[r]] # "absent"
                                /\ OwnerOf[from[r]] = OwnerOf[r] /\ Replayable(from[r])
<1>0. created \in Seq(Runs) /\ TypeOK /\ RowMatches
  BY DEF Core, TypeOK
<1>1. status[r] = "absent"
  BY <1>0 DEF Inserts, RowMatches, Unstarted
<1>2. from[r] # None => from[r] \in Runs /\ status[from[r]] # "absent"
                          /\ OwnerOf[from[r]] = OwnerOf[r] /\ Replayable(from[r])
  BY <1>0 DEF Inserts, Continued, Unstarted, TypeOK
<1> QED  BY <1>0, <1>1, <1>2, InsertEffect, InsertStatus DEF Inserts

\* The chain of a new row is that of the row it continues, and itself.
LEMMA ChainedKeeps == Core /\ Listed /\ Chained /\ Continued /\ RowStep => Chained'
<1> SUFFICES ASSUME Core, Listed, Chained, Continued, RowStep PROVE Chained'
  OBVIOUS
<1>0. created \in Seq(Runs) /\ TypeOK /\ RowMatches
  BY DEF Core, TypeOK
<1>1. CASE KeepsRows
  BY <1>1 DEF KeepsRows, Chained
<1>2. ASSUME NEW r \in Runs, Inserts(r) PROVE Chained'
  <2> USE <1>2
  <2>1. /\ DOMAIN created' = 1 .. Len(created) + 1 /\ DOMAIN created = 1 .. Len(created)
        /\ created'[Len(created) + 1] = r /\ Len(created) \in Nat
        /\ \A i \in 1 .. Len(created) : created'[i] = created[i]
    BY <1>0, Inserted, AppendAt
  <2>2. \A p \in Runs : status[p] # "absent" => chain[p] # <<>> /\ p # r /\ chain'[p] = chain[p]
    <3> SUFFICES ASSUME NEW p \in Runs, status[p] # "absent"
                 PROVE  chain[p] # <<>> /\ p # r /\ chain'[p] = chain[p]
      OBVIOUS
    <3>1. p # r /\ chain'[p] = chain[p]
      BY Inserted
    <3>2. CASE chain[p] = <<p>>
      BY <3>1, <3>2
    <3>3. ASSUME NEW q \in Runs, chain[p] = Append(chain[q], p) PROVE chain[p] # <<>>
      <4>1. chain[q] \in Seq(Runs)
        BY <1>0 DEF TypeOK
      <4> QED  BY <3>3, <4>1, AppendAt
    <3> QED  BY <3>1, <3>2, <3>3 DEF Chained
  <2> SUFFICES ASSUME NEW s \in Runs
               PROVE  IF status'[s] = "absent" THEN chain'[s] = <<>>
                      ELSE \/ chain'[s] = <<s>>
                           \/ \E p \in Runs :
                                 /\ chain'[s] = Append(chain'[p], s) /\ chain'[p] # <<>>
                                 /\ OwnerOf[p] = OwnerOf[s]
                                 /\ \E i, j \in DOMAIN created' :
                                       created'[i] = p /\ created'[j] = s /\ i < j
    BY DEF Chained
  <2>3. CASE s = r
    <3>1. CASE from[r] = None
      <4>1. chain'[s] = Append(<<>>, r)
        BY <2>3, <3>1, Inserted DEF Before
      <4> QED  BY <2>3, <4>1, Inserted
    <3>2. CASE from[r] # None
      <4> DEFINE p == from[r]
      <4>1. p \in Runs /\ status[p] # "absent" /\ OwnerOf[p] = OwnerOf[r] /\ chain'[r] = Append(chain[p], r)
        BY <3>2, Inserted DEF Before
      <4>2. chain'[r] = Append(chain'[p], r) /\ chain'[p] # <<>>
        BY <2>2, <4>1
      <4>3. PICK i \in DOMAIN created : created[i] = p
        BY <4>1 DEF Listed
      <4>4. i \in DOMAIN created' /\ created'[i] = p /\ i < Len(created) + 1
        BY <2>1, <4>3
      <4>5. status'[r] # "absent"
        BY Inserted
      <4> HIDE DEF p
      <4> QED  BY <2>1, <2>3, <4>1, <4>2, <4>4, <4>5
    <3> QED  BY <3>1, <3>2
  <2>4. CASE s # r
    <3>1. status'[s] = status[s] /\ chain'[s] = chain[s]
      BY <2>4, Inserted
    <3>2. CASE status[s] = "absent" \/ chain[s] = <<s>>
      BY <3>1, <3>2 DEF Chained
    <3>3. CASE status[s] # "absent" /\ chain[s] # <<s>>
      <4>1. PICK p \in Runs : /\ chain[s] = Append(chain[p], s) /\ chain[p] # <<>>
                              /\ OwnerOf[p] = OwnerOf[s]
                              /\ \E i, j \in DOMAIN created : created[i] = p /\ created[j] = s /\ i < j
        BY <3>3 DEF Chained
      <4>2. PICK i \in DOMAIN created, j \in DOMAIN created : created[i] = p /\ created[j] = s /\ i < j
        BY <4>1
      <4>3. status[p] # "absent"
        BY <4>2 DEF Listed
      <4>4. chain'[p] = chain[p]
        BY <2>2, <4>3
      <4>5. i \in DOMAIN created' /\ j \in DOMAIN created' /\ created'[i] = p /\ created'[j] = s
        BY <2>1, <4>2
      <4> QED  BY <3>1, <3>3, <4>1, <4>2, <4>4, <4>5
    <3> QED  BY <3>2, <3>3
  <2> QED  BY <2>3, <2>4
<1> QED  BY <1>1, <1>2 DEF RowStep

\* A chain ends with its own run.
LEMMA LastIsSelf ==
    ASSUME Core, Chained, NEW p \in Runs
    PROVE  /\ chain[p] \in Seq(Runs) /\ (status[p] # "absent" <=> chain[p] # <<>>)
           /\ status[p] # "absent" =>
                 Len(chain[p]) \in Nat \ {0} /\ chain[p][Len(chain[p])] = p
<1>1. chain[p] \in Seq(Runs)
  BY DEF Core, TypeOK
<1>2. CASE status[p] = "absent"
  BY <1>1, <1>2 DEF Chained
<1>3. CASE status[p] # "absent" /\ chain[p] = <<p>>
  BY <1>1, <1>3
<1>4. ASSUME status[p] # "absent", NEW q \in Runs, chain[p] = Append(chain[q], p)
      PROVE  chain[p] # <<>> /\ Len(chain[p]) \in Nat \ {0} /\ chain[p][Len(chain[p])] = p
  <2>1. chain[q] \in Seq(Runs)
    BY DEF Core, TypeOK
  <2> QED  BY <1>4, <2>1, AppendAt
<1> QED  BY <1>1, <1>2, <1>3, <1>4 DEF Chained

\* What a run continues: an earlier run of the same user, of the same task.
LEMMA ParentOf ==
    ASSUME Core, Listed, Chained, NEW s \in Runs, Parent(s) # None
    PROVE  /\ Parent(s) \in Runs /\ chain[s] = Append(chain[Parent(s)], s)
           /\ OwnerOf[Parent(s)] = OwnerOf[s]
           /\ status[s] # "absent" /\ status[Parent(s)] # "absent"
           /\ Head(chain[s]) = Head(chain[Parent(s)])
           /\ \E i, j \in DOMAIN created : created[i] = Parent(s) /\ created[j] = s /\ i < j
<1>1. Len(chain[s]) > 1 /\ Parent(s) = chain[s][Len(chain[s]) - 1]
  BY DEF Parent
<1>2. status[s] # "absent" /\ chain[s] # <<s>>
  <2>1. Len(<<>>) = 0 /\ Len(<<s>>) = 1
    OBVIOUS
  <2>2. chain[s] # <<>> /\ chain[s] # <<s>>
    <3>1. ASSUME chain[s] = <<>> PROVE FALSE
      BY <1>1, <2>1, <3>1
    <3>2. ASSUME chain[s] = <<s>> PROVE FALSE
      BY <1>1, <2>1, <3>2
    <3> QED  BY <3>1, <3>2
  <2> QED  BY <2>2 DEF Chained
<1>3. PICK p \in Runs : /\ chain[s] = Append(chain[p], s) /\ chain[p] # <<>>
                        /\ OwnerOf[p] = OwnerOf[s]
                        /\ \E i, j \in DOMAIN created : created[i] = p /\ created[j] = s /\ i < j
  BY <1>2 DEF Chained
<1>4. status[p] # "absent"
  BY <1>3 DEF Listed
<1>5. chain[p] \in Seq(Runs) /\ Len(chain[p]) \in Nat \ {0} /\ chain[p][Len(chain[p])] = p
  BY <1>4, LastIsSelf
<1>6. Len(chain[s]) = Len(chain[p]) + 1 /\ \A i \in 1 .. Len(chain[p]) : chain[s][i] = chain[p][i]
  BY <1>3, <1>5, AppendAt
<1>7. Parent(s) = p
  BY <1>1, <1>5, <1>6
<1>8. Head(chain[s]) = chain[s][1] /\ Head(chain[p]) = chain[p][1]
  BY DEF Head
<1>9. Head(chain[s]) = Head(chain[p])
  BY <1>5, <1>6, <1>8
<1> QED  BY <1>2, <1>3, <1>4, <1>7, <1>9

\* A new row continues what its call was asked to continue.
LEMMA ParentInserted ==
    ASSUME Core, Listed, Chained, Continued, NEW r \in Runs, Inserts(r)
    PROVE  Parent(r)' = from[r] /\ \A s \in Runs \ {r} : Parent(s)' = Parent(s)
<1>1. \A s \in Runs \ {r} : Parent(s)' = Parent(s)
  BY Inserted DEF Parent
<1>2. CASE from[r] = None
  <2>1. chain'[r] = Append(<<>>, r)
    BY <1>2, Inserted DEF Before
  <2>2. Len(chain'[r]) = 1
    BY <2>1
  <2> QED  BY <1>1, <1>2, <2>2 DEF Parent
<1>3. CASE from[r] # None
  <2> DEFINE p == from[r]
  <2>1. p \in Runs /\ status[p] # "absent" /\ chain'[r] = Append(chain[p], r)
    BY <1>3, Inserted DEF Before
  <2> HIDE DEF p
  <2>2. chain[p] \in Seq(Runs) /\ Len(chain[p]) \in Nat \ {0} /\ chain[p][Len(chain[p])] = p
    BY <2>1, LastIsSelf
  <2>3. Len(chain'[r]) = Len(chain[p]) + 1 /\ \A i \in 1 .. Len(chain[p]) : chain'[r][i] = chain[p][i]
    BY <2>1, <2>2, AppendAt
  <2>4. Parent(r)' = p
    BY <2>2, <2>3 DEF Parent
  <2> QED  BY <1>1, <2>4 DEF p
<1> QED  BY <1>2, <1>3

LEMMA ParentKept == KeepsRows => \A s \in Runs : Parent(s)' = Parent(s)
BY DEF KeepsRows, Parent

\* What could be replayed still can, whatever happens to the runs in it.
LEMMA ReplayableKeeps ==
    ASSUME Core, Listed, Chained, Continued, RowStep, History,
           NEW p \in Runs, status[p] # "absent", Replayable(p)
    PROVE  Replayable(p)' /\ status'[p] # "absent"
<1>1. chain'[p] = chain[p] /\ status'[p] # "absent"
  <2>1. CASE KeepsRows
    BY <2>1 DEF KeepsRows
  <2>2. ASSUME NEW r \in Runs, Inserts(r) PROVE chain'[p] = chain[p] /\ status'[p] # "absent"
    BY <2>2, Inserted
  <2> QED  BY <2>1, <2>2 DEF RowStep
<1>2. \A i \in DOMAIN chain[p] : chain[p][i] \in Runs
  <2>1. chain[p] \in Seq(Runs)
    BY LastIsSelf
  <2> QED  BY <2>1, LenProperties, ElementOfSeq
<1>3. ASSUME NEW i \in DOMAIN chain[p]
      PROVE  chain[p][i] \in mistaken'
               \/ (chain[p][i] \in stored' /\ status'[chain[p][i]] = "resumable")
  <2> DEFINE s == chain[p][i]
  <2>1. s \in Runs /\ (s \in mistaken \/ (s \in stored /\ status[s] = "resumable"))
    BY <1>2, <1>3 DEF Replayable
  <2>2. s \notin mistaken /\ status[s] = "resumable" => status'[s] = "resumable"
    BY <2>1 DEF History, Terminal, Failed
  <2> QED  BY <2>1, <2>2 DEF History
<1> QED  BY <1>1, <1>3 DEF Replayable

\* What is continued could be replayed, and still can.
LEMMA ContinuedKeeps ==
    Core /\ Listed /\ Chained /\ Continued /\ RowStep /\ History /\ CallStep => Continued'
<1> SUFFICES ASSUME Core, Listed, Chained, Continued, RowStep, History, CallStep PROVE Continued'
  OBVIOUS
<1>1. ASSUME NEW r \in Runs, pc'[r] \in Unstarted, from'[r] # None
      PROVE  status'[from'[r]] # "absent" /\ OwnerOf[from'[r]] = OwnerOf[r] /\ Replayable(from[r])'
  <2> DEFINE p == from'[r]
  <2>1. CASE pc[r] \in Unstarted /\ from'[r] = from[r]
    <3>1. p \in Runs /\ status[p] # "absent" /\ OwnerOf[p] = OwnerOf[r] /\ Replayable(p)
      BY <1>1, <2>1 DEF Continued, Core, TypeOK
    <3>2. Replayable(from[r])' /\ status'[from[r]] # "absent"
      BY <2>1, <3>1, ReplayableKeeps
    <3> QED  BY <2>1, <3>1, <3>2
  <2>2. CASE p \in Runs /\ OwnerOf[p] = OwnerOf[r] /\ Resumable(p)
    <3>1. chain[p] \in Seq(Runs) /\ status[p] # "absent"
      BY <2>2, LastIsSelf DEF Resumable
    <3>2. Replayable(p)
      BY <2>2, <3>1, LenProperties DEF Resumable, Replayable
    <3> HIDE DEF p
    <3>3. \A q \in Runs : status[q] # "absent" /\ Replayable(q) => Replayable(q)' /\ status'[q] # "absent"
      BY ReplayableKeeps
    <3> QED  BY <2>2, <3>1, <3>2, <3>3 DEF p, Replayable
  <2> QED  BY <1>1, <2>1, <2>2 DEF CallStep
<1>2. ASSUME NEW r \in Runs, Parent(r)' # None PROVE Replayable(Parent(r))'
  <2>1. \A q \in Runs : status[q] # "absent" /\ Replayable(q) =>
            Replayable(q)' /\ status'[q] # "absent"
    BY ReplayableKeeps
  <2>2. Parent(r)' \in Runs /\ status[Parent(r)'] # "absent" /\ Replayable(Parent(r)')
    <3>1. CASE Parent(r)' = Parent(r)
      BY <1>2, <3>1, ParentOf DEF Continued
    <3>2. CASE Inserts(r)
      BY <1>2, <3>2, Inserted, ParentInserted
    <3> QED  BY <3>1, <3>2, ParentKept, ParentInserted DEF RowStep
  <2> DEFINE q == Parent(r)'
  <2>3. q \in Runs /\ status[q] # "absent" /\ Replayable(q)
    BY <2>2
  <2> HIDE DEF q
  <2>4. \A i \in DOMAIN chain'[q] :
            chain'[q][i] \in mistaken' \/ (chain'[q][i] \in stored' /\ status'[chain'[q][i]] = "resumable")
    BY <2>1, <2>3 DEF Replayable
  <2> QED  BY <2>4 DEF q, Replayable
<1> QED  BY <1>1, <1>2 DEF Continued

\* Two live calls of a user exclude each other, but for a dropped lease.
LEMMA OneLive == LeaseHeld => OneExecutionPerUser
BY DEF LeaseHeld, OneExecutionPerUser

\* A bounded set of numbers has a greatest.
LEMMA MaxOf ==
    ASSUME NEW n \in Nat, NEW S, S \subseteq 1 .. n, S # {}
    PROVE  \E m \in S : \A j \in S : j =< m
<1> DEFINE T == {n - i : i \in S}
<1>1. T \subseteq Nat /\ T # {}
  <2>1. \A i \in S : n - i \in Nat
    OBVIOUS
  <2>2. PICK i \in S : TRUE
    OBVIOUS
  <2>3. n - i \in T
    OBVIOUS
  <2> QED  BY <2>1, <2>3
<1>2. PICK x \in T : \A y \in T : ~ (<<y, x>> \in OpToRel(<, Nat))
  BY <1>1, NatLessThanWellFounded, WFMin
<1>3. \A y \in T : ~ (y < x)
  BY <1>1, <1>2 DEF OpToRel
<1>4. PICK m \in S : x = n - m
  BY <1>2
<1>5. ASSUME NEW j \in S PROVE j =< m
  <2>1. n - j \in T
    OBVIOUS
  <2>2. ~ (n - j < n - m)
    BY <1>3, <1>4, <2>1
  <2>3. n \in Nat /\ j \in Nat /\ m \in Nat
    BY <1>4
  <2> QED  BY ONLY <2>2, <2>3
<1> QED  BY <1>5

\* The newest run of a task has no continuation.
LEMMA NewestIsLast ==
    ASSUME Core, Listed, Chained, NEW p \in Runs, status[p] # "absent", Newest(p) = p,
           NEW s \in Runs
    PROVE  Parent(s) # p
<1> SUFFICES ASSUME Parent(s) = p PROVE FALSE
  OBVIOUS
<1>0. created \in Seq(Runs) /\ Len(created) \in Nat /\ DOMAIN created = 1 .. Len(created)
  BY LenProperties DEF Core, TypeOK
<1>1. Parent(s) # None
  BY NoneAssumption
<1>2. /\ Head(chain[s]) = Head(chain[p])
      /\ \E i, j \in DOMAIN created : created[i] = p /\ created[j] = s /\ i < j
  BY <1>1, ParentOf
<1>3. PICK i \in DOMAIN created, j \in DOMAIN created : created[i] = p /\ created[j] = s /\ i < j
  BY <1>2
<1>4. j \in SameTask(p) /\ SameTask(p) \subseteq 1 .. Len(created)
  BY <1>0, <1>2, <1>3 DEF SameTask
<1> DEFINE m == CHOOSE k \in SameTask(p) : \A l \in SameTask(p) : l =< k
<1>5. m \in SameTask(p) /\ \A l \in SameTask(p) : l =< m
  BY <1>0, <1>4, MaxOf
<1>6. created[m] = p
  BY DEF Newest
<1> HIDE DEF m
<1>7. m = i
  BY <1>0, <1>3, <1>4, <1>5, <1>6 DEF Listed
<1> QED  BY <1>0, <1>3, <1>4, <1>5, <1>7

\* No other call of the user inserts between a check and its insert.
LEMMA NextKeeps ==
    Core /\ Listed /\ Chained /\ Continued /\ NextInTask /\ RowStep /\ History /\ CallStep
        => NextInTask'
<1> SUFFICES ASSUME Core, Listed, Chained, Continued, NextInTask, RowStep, History, CallStep,
                    NEW r \in Runs, pc'[r] = "creating", from'[r] # None,
                    OwnerOf[r] \notin dropped', NEW s \in Runs
             PROVE  Parent(s)' # from'[r]
  BY DEF NextInTask
<1>0. TypeOK /\ LeaseHeld
  BY DEF Core
<1>1. /\ from'[r] = from[r]
      /\ pc[r] = "creating" \/ (pc[r] = "checking" /\ Newest(from[r]) = from[r])
  BY DEF CallStep
<1>2. from[r] \in Runs /\ status[from[r]] # "absent" /\ OwnerOf[from[r]] = OwnerOf[r]
  BY <1>0, <1>1 DEF Continued, Unstarted, TypeOK
<1>3. OwnerOf[r] \notin dropped
  BY DEF History
<1>4. Parent(s) # from[r]
  BY <1>1, <1>2, <1>3, NewestIsLast DEF NextInTask
<1>5. CASE Parent(s)' = Parent(s)
  BY <1>1, <1>4, <1>5
<1>6. CASE Inserts(s)
  <2>1. Parent(s)' = from[s] /\ (from[s] # None => OwnerOf[from[s]] = OwnerOf[s])
    BY <1>6, ParentInserted, Inserted
  <2>2. s # r
    BY <1>6 DEF Inserts, Unstarted
  <2>3. Live(r) /\ Live(s)
    BY <1>1, <1>6 DEF Live, Starting, Inserts
  <2>4. OwnerOf[s] # OwnerOf[r]
    BY <1>0, <1>3, <2>2, <2>3, OneLive DEF OneExecutionPerUser
  <2> QED  BY <1>1, <1>2, <2>1, <2>4
<1> QED  BY <1>5, <1>6, ParentKept, ParentInserted DEF RowStep

\* Two rows that continue the same run are one.
LEMMA OnceKeeps ==
    Core /\ Listed /\ Chained /\ Continued /\ NextInTask /\ ContinuedOnce /\ RowStep /\ History
        => ContinuedOnce'
<1> SUFFICES ASSUME Core, Listed, Chained, Continued, NextInTask, ContinuedOnce, RowStep, History,
                    NEW r \in Runs, NEW s \in Runs,
                    Parent(r)' # None, Parent(r)' = Parent(s)', OwnerOf[r] \notin dropped'
             PROVE  r = s
  BY DEF ContinuedOnce
<1>1. OwnerOf[r] \notin dropped
  BY DEF History
<1>2. CASE KeepsRows
  BY <1>1, <1>2, ParentKept DEF ContinuedOnce
<1>3. ASSUME NEW q \in Runs, Inserts(q) PROVE r = s
  <2>1. /\ Parent(q)' = from[q] /\ \A x \in Runs \ {q} : Parent(x)' = Parent(x)
        /\ from[q] # None => OwnerOf[from[q]] = OwnerOf[q]
    BY <1>3, ParentInserted, Inserted
  <2>2. \A x \in Runs : Parent(x) # None => OwnerOf[Parent(x)] = OwnerOf[x]
    BY ParentOf
  <2>3. OwnerOf[q] \notin dropped /\ from[q] # None => \A x \in Runs : Parent(x) # from[q]
    BY <1>3 DEF NextInTask, Inserts
  <2>4. CASE r # q /\ s # q
    BY <1>1, <2>1, <2>4 DEF ContinuedOnce
  <2>5. CASE r = q /\ s # q
    BY <1>1, <2>1, <2>3, <2>5
  <2>6. CASE r # q /\ s = q
    <3>1. OwnerOf[q] = OwnerOf[r]
      BY <2>1, <2>2, <2>6
    <3> QED  BY <1>1, <2>1, <2>3, <2>6, <3>1
  <2> QED  BY <2>4, <2>5, <2>6
<1> QED  BY <1>2, <1>3 DEF RowStep

LEMMA InitIInv == Init => IInv
<1> SUFFICES ASSUME Init PROVE IInv
  OBVIOUS
<1>1. Core
  BY CoreInit
<1>2. Len(<<>>) = 0 /\ \A r : Len(<<r>>) = 1 /\ DOMAIN <<r>> = {1} /\ <<r>>[1] = r
  OBVIOUS
<1>3. \A r \in Runs : Parent(r) = None
  BY <1>2 DEF Init, Parent
<1>4. Listed
  <2>1. CASE Stopped = None
    BY <2>1, NoneAssumption DEF Init, Listed
  <2>2. CASE Stopped # None
    BY <1>2, <2>2, StoppedAssumption DEF Init, Listed
  <2> QED  BY <2>1, <2>2
<1>5. Chained
  BY DEF Init, Chained
<1>6. Stored
  BY StoppedAssumption, NoneAssumption DEF Init, Stored
<1>7. Continued /\ NextInTask /\ ContinuedOnce
  BY <1>3 DEF Init, Continued, NextInTask, ContinuedOnce
<1> QED  BY <1>1, <1>4, <1>5, <1>6, <1>7 DEF IInv, Core

LEMMA IInvKeeps == IInv /\ [Next]_vars => IInv'
<1> SUFFICES ASSUME IInv, [Next]_vars PROVE IInv'
  OBVIOUS
<1>1. Core /\ Listed /\ Chained /\ Stored /\ Continued /\ NextInTask /\ ContinuedOnce
  BY DEF IInv, Core
<1>2. Core' /\ RowStep /\ History /\ CallStep /\ Stored'
  BY <1>1, CoreKeeps, RowSteps, HistoryKept, CallSteps, StoredKeeps
<1>3. Listed' /\ Chained' /\ Continued' /\ NextInTask' /\ ContinuedOnce'
  BY <1>1, <1>2, ListedKeeps, ChainedKeeps, ContinuedKeeps, NextKeeps, OnceKeeps
<1> QED  BY <1>2, <1>3 DEF IInv, Core

\* The inductive invariant, which no step of any call or tab breaks.
THEOREM RunsInvariant == Spec => []IInv
<1>1. Init => IInv
  BY InitIInv
<1>2. IInv /\ [Next]_vars => IInv'
  BY IInvKeeps
<1> QED  BY <1>1, <1>2, PTL DEF Spec

-----------------------------------------------------------------------------
(* What it says to the users of the runs.                                  *)

\* One execution at a time for each user, whatever fails or restarts, unless a
\* repair drops the lease of one that is live (execution.ts:250-253).
THEOREM Exclusion == Spec => []OneExecutionPerUser
<1>1. IInv => OneExecutionPerUser
  BY OneLive DEF IInv
<1> QED  BY <1>1, RunsInvariant, PTL

\* A terminal row is never written again but for a tab's mistake, although the
\* writes go by the id of what was checked earlier (persistence.ts:137).
THEOREM Finality == Spec => TerminalIsFinal
<1>1. IInv /\ [Next]_vars =>
        [\A r \in Runs : status[r] \in Terminal /\ r \notin mistaken => status'[r] = status[r]]_vars
  BY HistoryKept DEF IInv, Core, History
<1> QED  BY <1>1, RunsInvariant, PTL DEF Spec, TerminalIsFinal

\* "completed" is announced after the row says so and stays true of it; no hub
\* announces two ends (run-settlement.ts:116).
THEOREM Truth == Spec => []AnnouncedTruthfully
<1>1. IInv => AnnouncedTruthfully
  BY DEF IInv, Announced, AnnouncedTruthfully
<1> QED  BY <1>1, RunsInvariant, PTL

\* A run is continued once, by a call that found it to be the newest of its
\* task, while its owner's executions exclude each other (execution.ts:257-259).
THEOREM ContinuationUnique == Spec => []ContinuedOnce
<1>1. IInv => ContinuedOnce
  BY DEF IInv
<1> QED  BY <1>1, RunsInvariant, PTL

\* A run whose row says it stopped at the turn limit can be continued, with
\* all that came before it in its task (run-settlement.ts:141).
THEOREM Replay == Spec => []ResumableIsReplayable
<1>1. IInv => ResumableIsReplayable
  <2> SUFFICES ASSUME IInv, NEW r \in Runs, status[r] = "resumable",
                      \A i \in 1 .. Len(chain[r]) : chain[r][i] \notin mistaken
               PROVE  \A i \in 1 .. Len(chain[r]) :
                          chain[r][i] \in stored /\ status[chain[r][i]] = "resumable"
    BY DEF ResumableIsReplayable, Resumable
  <2>1. Core /\ Listed /\ Chained
    BY DEF IInv, Core
  <2>2. r \in stored
    BY DEF IInv, Stored
  <2>3. CASE Parent(r) = None
    <3>1. chain[r] = <<r>>
      <4>1. ASSUME NEW p \in Runs, chain[r] = Append(chain[p], r), chain[p] # <<>> PROVE FALSE
        <5>1. chain[p] \in Seq(Runs) /\ Len(chain[p]) \in Nat \ {0}
          BY <2>1, <4>1, LastIsSelf
        <5>2. Len(chain[r]) > 1 /\ Len(chain[r]) - 1 = Len(chain[p])
          BY <4>1, <5>1, AppendAt
        <5>3. Parent(r) = chain[p][Len(chain[p])] /\ Parent(r) \in Runs
          BY <4>1, <5>1, <5>2, AppendAt, ElementOfSeq DEF Parent
        <5> QED  BY <2>3, <5>3, NoneAssumption
      <4> QED  BY <2>1, <4>1 DEF Chained
    <3> QED  BY <2>2, <3>1
  <2>4. CASE Parent(r) # None
    <3> DEFINE p == Parent(r)
    <3>1. p \in Runs /\ chain[r] = Append(chain[p], r) /\ status[p] # "absent" /\ Replayable(p)
      BY <2>1, <2>4, ParentOf DEF IInv, Continued
    <3> HIDE DEF p
    <3>2. chain[p] \in Seq(Runs)
      BY <2>1, <3>1, LastIsSelf
    <3>3. /\ Len(chain[r]) = Len(chain[p]) + 1 /\ Len(chain[p]) \in Nat
          /\ DOMAIN chain[p] = 1 .. Len(chain[p]) /\ chain[r][Len(chain[p]) + 1] = r
          /\ \A i \in 1 .. Len(chain[p]) : chain[r][i] = chain[p][i]
      BY <3>1, <3>2, AppendAt
    <3> SUFFICES ASSUME NEW i \in 1 .. Len(chain[r])
                 PROVE  chain[r][i] \in stored /\ status[chain[r][i]] = "resumable"
      OBVIOUS
    <3>4. CASE i = Len(chain[p]) + 1
      BY <2>2, <3>3, <3>4
    <3>5. CASE i # Len(chain[p]) + 1
      <4>1. i \in DOMAIN chain[p] /\ chain[r][i] = chain[p][i] /\ chain[r][i] \notin mistaken
        BY <3>3, <3>5
      <4> QED  BY <3>1, <4>1 DEF Replayable
    <3> QED  BY <3>4, <3>5
  <2> QED  BY <2>3, <2>4
<1> QED  BY <1>1, RunsInvariant, PTL

LEMMA InitFaultless == Init => Faultless
BY DEF Init, Faultless, Executing, Returning, Escaped

LEMMA EndTypes ==
    /\ \A s \in Statuses : EndOf(s) \in {"completed", "failed", "cancelled", "absent", "open"}
    /\ \A q \in Seq({"completed", "failed", "cancelled"}) :
          q # <<>> => Head(q) \in {"completed", "failed", "cancelled"}
BY Ends, HeadTailProperties DEF EndEvents

\* Every step of the runs is one of the lifecycle, or one its watchers do not
\* see; a failing query withdraws the promise (run-manager.ts:279-280).
THEOREM RunsImplementLifecycle == Spec => ImplementsLifecycle
<1>1. Init => Lifecycle!Init
  <2> SUFFICES ASSUME Init PROVE Lifecycle!Init
    OBVIOUS
  <2>1. \A r \in Runs : EndOf(status[r]) \in {"absent", "completed", "failed", "cancelled"}
    BY Names DEF Init, EndOf, Failed
  <2>2. faults = 0 /\ mistaken = {} /\ \A r \in Runs : events[r] = <<>>
    BY DEF Init
  <2> QED  BY <2>1, <2>2 DEF Lifecycle!Init, Lifecycle!Ends
<1>2. Core /\ Core' /\ Faultless /\ [Next]_vars => [Lifecycle!Next]_(Lifecycle!vars)
  <2> SUFFICES ASSUME Core, Core', Faultless, [Next]_vars
               PROVE  [Lifecycle!Next]_(Lifecycle!vars)
    OBVIOUS
  <2> DEFINE ends == [r \in Runs |-> EndOf(status[r])]
             said == [r \in Runs |-> IF events[r] = <<>> THEN "nothing" ELSE Head(events[r])]
             disowned == IF faults > 0 THEN Runs ELSE mistaken
  <2>0. TypeOK /\ TypeOK' /\ SeenStep
    BY SeenSteps DEF Core
  <2>1. CASE faults' > 0
    <3>1. disowned' = Runs
      BY <2>1
    <3>2. ends' \in [Runs -> {"completed", "failed", "cancelled"} \cup {"absent", "open"}]
      BY <2>0, EndTypes DEF TypeOK
    <3>3. said' \in [Runs -> {"completed", "failed", "cancelled"} \cup {"nothing"}]
      BY <2>0, EndTypes DEF TypeOK
    <3>4. Lifecycle!Fail
      BY <3>1, <3>2, <3>3 DEF Lifecycle!Fail, Lifecycle!Ends
    <3> QED  BY <3>4 DEF Lifecycle!Next
  <2>2. CASE faults' = 0
    <3>0. faults = 0 /\ Seen /\ disowned = mistaken /\ disowned' = mistaken'
      BY <2>0, <2>2 DEF SeenStep
    <3>1. CASE Quiet
      <4>1. ends' = ends /\ said' = said /\ disowned' = disowned
        BY <3>0, <3>1 DEF Quiet
      <4> QED  BY <4>1 DEF Lifecycle!vars
    <3>2. CASE Dying
      <4>1. ends' = ends /\ said' = [r \in Runs |-> "nothing"] /\ disowned' = disowned
        BY <3>0, <3>2 DEF Dying
      <4> QED  BY <4>1 DEF Lifecycle!Next, Lifecycle!Crash
    <3>3. ASSUME NEW r \in Runs, Ending(r) PROVE Lifecycle!Next
      <4>1. said' = said /\ disowned' = disowned
        BY <3>0, <3>3 DEF Ending
      <4>2. ends' = [ends EXCEPT ![r] = EndOf(status'[r])] /\ ends[r] = EndOf(status[r])
        BY <3>3 DEF Ending
      <4>3. CASE EndOf(status[r]) = "absent" /\ EndOf(status'[r]) = "open"
        BY <4>1, <4>2, <4>3 DEF Lifecycle!Next, Lifecycle!Create
      <4>4. CASE EndOf(status[r]) = "open" /\ EndOf(status'[r]) \in EndEvents
        <5>1. Lifecycle!End(r, EndOf(status'[r])) /\ EndOf(status'[r]) \in Lifecycle!Ends
          BY <4>1, <4>2, <4>4 DEF Lifecycle!End, Lifecycle!Ends, EndEvents
        <5> QED  BY <5>1 DEF Lifecycle!Next
      <4>5. CASE r \in mistaken /\ EndOf(status'[r]) \in EndEvents \cup {"open"}
        <5>1. /\ Lifecycle!Overwrite(r, EndOf(status'[r]))
              /\ EndOf(status'[r]) \in Lifecycle!Ends \cup {"open"}
          BY <3>0, <4>1, <4>2, <4>5 DEF Lifecycle!Overwrite, Lifecycle!Ends, EndEvents
        <5> QED  BY <5>1 DEF Lifecycle!Next
      <4> QED  BY <3>3, <4>3, <4>4, <4>5 DEF Ending
    <3>4. ASSUME NEW r \in Runs, Announcing(r) PROVE Lifecycle!Next
      <4>1. ends' = ends /\ disowned' = disowned /\ said[r] = "nothing"
        BY <3>0, <3>4 DEF Announcing
      <4>2. PICK e \in EndEvents : events'[r] = <<e>> /\ (EndOf(status[r]) = e \/ r \in mistaken)
        BY <3>4 DEF Announcing
      <4>3. events'[r] # <<>> /\ Head(events'[r]) = e
        BY <4>2
      <4>4. said' = [said EXCEPT ![r] = e]
        BY <3>4, <4>3 DEF Announcing
      <4>5. Lifecycle!Announce(r, e)
        BY <3>0, <4>1, <4>2, <4>4 DEF Lifecycle!Announce
      <4> QED  BY <4>5 DEF Lifecycle!Next, Lifecycle!Ends, EndEvents
    <3>5. ASSUME NEW r \in Runs, Disowning(r) PROVE Lifecycle!Next
      <4>1. /\ ends' = ends /\ said' = said /\ ends[r] = "open"
            /\ disowned' = disowned \cup {r}
        BY <3>0, <3>5 DEF Disowning
      <4>2. Lifecycle!Disown(r)
        BY <4>1 DEF Lifecycle!Disown
      <4> QED  BY <4>2 DEF Lifecycle!Next
    <3> QED  BY <3>0, <3>1, <3>2, <3>3, <3>4, <3>5 DEF Seen
  <2> QED  BY <2>0, <2>1, <2>2 DEF TypeOK
<1>3. Init => Faultless
  BY InitFaultless
<1>4. IInv /\ Faultless /\ [Next]_vars => Faultless'
  BY FaultlessKeeps DEF IInv, Core
<1>5. IInv => Core
  BY DEF IInv, Core
<1> QED  BY <1>1, <1>2, <1>3, <1>4, <1>5, RunsInvariant, PTL DEF Spec, ImplementsLifecycle, Lifecycle!Spec
=============================================================================
