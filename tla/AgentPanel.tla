----------------------------- MODULE AgentPanel -----------------------------
(***************************************************************************)
(* The chat panel of the web application                                   *)
(* (apps/web/src/components/documents/document-agent-panel.tsx, the event  *)
(* stream of lib/api.ts), which shows one thread of a workspace and        *)
(* follows the run that is live in it.                                     *)
(*                                                                         *)
(* The panel's handlers wait for answers of the server; between two waits  *)
(* they run alone.  A handler that waits is a job; it is told from a stale *)
(* one by the generation of the event stream (a job of an older generation *)
(* is dropped where the code compares it), by runIdRef, or not at all.     *)
(*                                                                         *)
(* The server is what the panel sees of it: runs that are live and end.    *)
(***************************************************************************)
EXTENDS Integers

CONSTANTS
    Threads, Runs,
    None,
    Retries,       \* of a lost stream; the code's is 2
    MaxSwitches,   \* bound of the changes of thread, for TLC
    MaxLosses,     \* bound of the lost connections
    MaxFaults      \* bound of the failing calls and page loads

Snapshots == [run : Runs, live : BOOLEAN]
Opt(S) == S \cup {None}

Probes   == [run : Runs, step : {"get", "got", "timer"}, live : BOOLEAN]
Finals   == [run : Runs, thread : Threads, step : {"get", "got", "refresh"}, live : BOOLEAN, lost : BOOLEAN]
Abandons == [run : Runs, thread : Threads]
Cancels  == [run : Runs, thread : Threads, step : {"post", "got", "refresh"}, live : BOOLEAN]
Openings == [thread : Threads, step : {"refresh", "snapshot"}, latest : Opt(Snapshots)]
Submits  == [thread : Threads, run : Opt(Runs), step : {"post", "refresh"}, continue : BOOLEAN]
Chats    == [stop : Opt(Runs)]

ASSUME ThreadsAssumption == Threads # {}
ASSUME NoneAssumption ==
    None \notin Threads \cup Runs \cup Snapshots \cup Probes \cup Abandons \cup Cancels \cup Submits \cup Chats
ASSUME PanelBoundsAssumption == {Retries, MaxSwitches, MaxLosses, MaxFaults} \subseteq Nat

VARIABLES
    (* the server *)
    status, home,   \* of each run, and its thread
    (* the panel *)
    view,           \* threadId
    phase,
    active,         \* activeRun: a run and whether it was live when read
    runIdRef,
    sub,            \* the run whose events are subscribed to
    attempts,       \* reconnectAttemptsRef
    (* its waiting handlers *)
    probe,          \* onDisconnect, onError
    finals,         \* finalizeFromSnapshot
    abandon,        \* abandonLiveRun
    cancel,         \* handleCancel
    selects,        \* handleSelectThread
    submit,         \* submitInstruction
    newChat,        \* handleNewChat
    (* bounds and history *)
    switches, losses, faults,
    crossed,        \* a handler took effect on a panel that had moved on
    severed,        \* a Stop failed: its handler had closed the stream
    unheeded        \* a Stop was answered with a run that was still live

server == <<status, home>>
panel  == <<view, phase, active, runIdRef, sub, attempts>>
jobs   == <<probe, finals, abandon, cancel, selects, submit, newChat>>
bounds == <<switches, losses, faults>>
history == <<crossed, severed, unheeded>>
panelVars == <<server, panel, jobs, bounds, history>>

Live == {r \in Runs : status[r] = "live"}
PanelTypeOK ==
    /\ status \in [Runs -> {"none", "live", "ended"}]
    /\ home \in [Runs -> Opt(Threads)]
    /\ view \in Threads /\ phase \in {"loading", "ready", "error"} /\ active \in Opt(Snapshots)
    /\ runIdRef \in Opt(Runs) /\ sub \in Opt(Runs) /\ attempts \in 0..(Retries + 1)
    /\ probe \in Opt(Probes) /\ finals \subseteq Finals /\ abandon \in Opt(Abandons)
    /\ cancel \in Opt(Cancels) /\ selects \subseteq Openings
    /\ submit \in Opt(Submits) /\ newChat \in Opt(Chats)
    /\ {switches, losses, faults} \subseteq Nat
    /\ {crossed, severed, unheeded} \subseteq BOOLEAN

PanelInit ==
    /\ status = [r \in Runs |-> "none"] /\ home = [r \in Runs |-> None]
    /\ view = CHOOSE t \in Threads : TRUE
    /\ phase = "ready"
    /\ active = None /\ runIdRef = None /\ sub = None /\ attempts = 0
    /\ probe = None /\ finals = {} /\ abandon = None /\ cancel = None
    /\ selects = {} /\ submit = None /\ newChat = None
    /\ switches = 0 /\ losses = 0 /\ faults = 0
    /\ crossed = FALSE /\ severed = FALSE /\ unheeded = FALSE

Fault == faults < MaxFaults /\ faults' = faults + 1
Cross(moved) == crossed' = (crossed \/ moved)

\* A stream was opened after the handler had closed the one it found.
Followed == sub # None

ShowsLive == active # None /\ active.live
busy == submit # None \/ cancel # None \/ newChat # None \/ ShowsLive

StopSseLeavesProbe == sub' = None /\ UNCHANGED probe                   \* mutant
\* stopSse: a new generation, of which no waiting probe is.
StopSse == sub' = None /\ probe' = None

AttachUnsubscribed(r, keep) ==                                         \* mutant
    /\ runIdRef' = r /\ active' = [run |-> r, live |-> TRUE]
    /\ sub' = (IF keep THEN None ELSE r) /\ probe' = None
    /\ attempts' = IF keep THEN attempts ELSE 0

\* attachRun on a run that was live when read.
Attach(r, keep) ==
    /\ runIdRef' = r /\ active' = [run |-> r, live |-> TRUE]
    /\ sub' = r /\ probe' = None
    /\ attempts' = IF keep THEN attempts ELSE 0

\* applyTerminalRunStatus on the run that was read: it forgets whichever run
\* runIdRef names.
ApplyTerminal(live) ==
    IF live THEN UNCHANGED <<runIdRef, attempts>>
    ELSE runIdRef' = None /\ attempts' = 0

Final(r, t, lost) == [run |-> r, thread |-> t, step |-> "get", live |-> TRUE, lost |-> lost]
FinalAt(f, step, live) == [run |-> f.run, thread |-> f.thread, step |-> step, live |-> live, lost |-> f.lost]
ProbeOf(r, step, live) == [run |-> r, step |-> step, live |-> live]

-----------------------------------------------------------------------------
(* Runs and their event stream.                                            *)

EndRun(r) ==
    /\ status[r] = "live" /\ status' = [status EXCEPT ![r] = "ended"]
    /\ UNCHANGED <<home, panel, jobs, bounds, history>>

\* Handlers of the stream look whether it is the latest (StopSse) and whether
\* its run is the one followed.
isCurrent(r) == runIdRef = r

\* agent.completed, agent.failed or agent.cancelled.
TerminalEvent ==
    /\ sub # None /\ status[sub] = "ended" /\ isCurrent(sub)
    /\ StopSse
    /\ finals' = finals \cup {Final(sub, home[sub], FALSE)}
    /\ UNCHANGED <<server, view, phase, active, runIdRef, attempts, abandon, cancel, selects, submit, newChat,
                   bounds, history>>

\* onDisconnect and onError read the run.
LoseStream ==
    /\ sub # None /\ losses < MaxLosses
    /\ losses' = losses + 1
    /\ sub' = None
    /\ probe' = IF isCurrent(sub) THEN ProbeOf(sub, "get", TRUE) ELSE probe
    /\ UNCHANGED <<server, view, phase, active, runIdRef, attempts, finals, abandon, cancel, selects,
                   submit, newChat, switches, faults, history>>

ProbeRead ==
    /\ probe # None /\ probe.step = "get"
    /\ probe' = ProbeOf(probe.run, "got", probe.run \in Live)
    /\ UNCHANGED <<server, panel, finals, abandon, cancel, selects, submit, newChat, bounds, history>>

Abandon(r) == abandon' = [run |-> r, thread |-> home[r]]

\* A live run is followed again, after a pause, Retries times; then it is given up.
ProbeAnswered ==
    /\ probe # None /\ probe.step = "got" /\ isCurrent(probe.run)
    /\ active' = [run |-> probe.run, live |-> probe.live]
    /\ IF ~probe.live
         THEN /\ finals' = finals \cup {Final(probe.run, home[probe.run], TRUE)}
              /\ probe' = None
              /\ UNCHANGED <<attempts, abandon>>
         ELSE /\ attempts' = attempts + 1
              /\ IF attempts < Retries
                   THEN probe' = ProbeOf(probe.run, "timer", TRUE) /\ UNCHANGED abandon
                   ELSE probe' = None /\ Abandon(probe.run)
              /\ UNCHANGED finals
    /\ UNCHANGED <<server, view, phase, runIdRef, sub, cancel, selects, submit, newChat, bounds, history>>

\* A run that cannot be read is given up at once.
ProbeFails ==
    /\ probe # None /\ probe.step \in {"get", "got"} /\ isCurrent(probe.run)
    /\ Fault
    /\ probe' = None /\ Abandon(probe.run)
    /\ UNCHANGED <<server, panel, finals, cancel, selects, submit, newChat, switches, losses, history>>

Reconnect ==
    /\ probe # None /\ probe.step = "timer" /\ isCurrent(probe.run)
    /\ Attach(probe.run, TRUE)
    /\ UNCHANGED <<server, view, phase, finals, abandon, cancel, selects, submit, newChat, bounds, history>>

\* A call of the cancel route.  A run that this process does not track, or
\* whose settlement failed, is answered as its row is; a call that fails may
\* have come too late to do anything.
CancelRoute(r) ==
    \/ status' = IF r \in Live THEN [status EXCEPT ![r] = "ended"] ELSE status
    \/ UNCHANGED status

\* abandonLiveRun: it asks for the run to be stopped, unless the user has,
\* whatever becomes of the call.
AbandonRun ==
    /\ abandon # None
    /\ LET r == abandon.run IN
         /\ IF cancel # None THEN UNCHANGED status ELSE CancelRoute(r)
         /\ IF runIdRef = r
              THEN /\ active' = None /\ runIdRef' = None /\ attempts' = 0
              ELSE UNCHANGED <<active, runIdRef, attempts>>
         /\ Cross(Followed)
    /\ abandon' = None
    /\ UNCHANGED <<home, view, phase, sub, probe, finals, cancel, selects, submit, newChat, bounds,
                   severed, unheeded>>

-----------------------------------------------------------------------------
(* finalizeFromSnapshot.                                                   *)

\* It looks at runIdRef before it reads the run.
FinalRead(f) ==
    /\ f \in finals /\ f.step = "get"
    /\ finals' = (finals \ {f}) \cup
                 IF runIdRef # f.run THEN {}
                 ELSE {FinalAt(f, "got", f.run \in Live)}
    /\ UNCHANGED <<server, panel, probe, abandon, cancel, selects, submit, newChat, bounds, history>>

\* It looks again when the run is there, and shows it.
StillCurrent(f) == runIdRef = f.run

FinalAnswered(f) ==
    /\ f \in finals /\ f.step = "got"
    /\ IF StillCurrent(f)
         THEN /\ active' = [run |-> f.run, live |-> f.live]
              /\ finals' = (finals \ {f}) \cup {FinalAt(f, "refresh", f.live)}
         ELSE /\ finals' = finals \ {f}
              /\ UNCHANGED active
    /\ UNCHANGED <<server, view, phase, runIdRef, sub, attempts, probe, abandon, cancel, selects,
                   submit, newChat, bounds, history>>

\* It does not look again once the messages are refreshed.
FinalApplied(f) ==
    /\ f \in finals /\ f.step = "refresh"
    /\ finals' = finals \ {f}
    /\ ApplyTerminal(f.live)
    /\ Cross(runIdRef # f.run)
    /\ UNCHANGED <<server, view, phase, active, sub, probe, abandon, cancel, selects, submit, newChat,
                   bounds, severed, unheeded>>

\* The read fails, or the refresh.  When it was the loss of a stream that asked
\* for it, the run is given up, unless another stream was opened meanwhile.
FinalFails(f) ==
    /\ f \in finals /\ Fault
    /\ finals' = finals \ {f}
    /\ \/ severed' = TRUE /\ UNCHANGED abandon
       \/ f.lost /\ isCurrent(f.run) /\ Abandon(f.run) /\ UNCHANGED severed
    /\ UNCHANGED <<server, panel, probe, cancel, selects, submit, newChat, switches, losses, crossed, unheeded>>

-----------------------------------------------------------------------------
(* handleCancel.                                                           *)

StopOf(r, step, live) == [run |-> r, thread |-> cancel.thread, step |-> step, live |-> live]

\* canStop: the button is there while an instruction is sent, too, when the run
\* shown may be an older one.
Stop ==
    /\ cancel = None /\ newChat = None
    /\ submit # None \/ ShowsLive
    /\ runIdRef # None \/ active # None
    /\ cancel' = [run |-> IF runIdRef # None THEN runIdRef ELSE active.run,
                  thread |-> view, step |-> "post", live |-> TRUE]
    /\ StopSse
    /\ UNCHANGED <<server, view, phase, active, runIdRef, attempts, finals, abandon, selects, submit, newChat,
                   bounds, history>>

\* The server waits for the end of a run it tracks, then reads the row.
StopAnswered ==
    /\ cancel # None /\ cancel.step = "post"
    /\ CancelRoute(cancel.run)
    /\ cancel' = StopOf(cancel.run, "got", status'[cancel.run] = "live")
    /\ unheeded' = (unheeded \/ status'[cancel.run] = "live")
    /\ UNCHANGED <<home, panel, probe, finals, abandon, selects, submit, newChat, bounds, crossed, severed>>

\* What the panel takes in is shown though the user has moved on.
LateStop == Cross(view # cancel.thread \/ runIdRef \notin {cancel.run, None} \/ Followed)

Stopped ==
    /\ cancel # None /\ cancel.step = "got"
    /\ active' = [run |-> cancel.run, live |-> cancel.live]
    /\ cancel' = StopOf(cancel.run, "refresh", cancel.live)
    /\ LateStop
    /\ UNCHANGED <<server, view, phase, runIdRef, sub, attempts, probe, finals, abandon, selects, submit, newChat,
                   bounds, severed, unheeded>>

StopApplied ==
    /\ cancel # None /\ cancel.step = "refresh"
    /\ ApplyTerminal(cancel.live)
    /\ LateStop
    /\ cancel' = None
    /\ UNCHANGED <<server, view, phase, active, sub, probe, finals, abandon, selects, submit, newChat,
                   bounds, severed, unheeded>>

\* The call fails, before or after it stopped the run, or the refresh fails.
StopFails ==
    /\ cancel # None /\ Fault
    /\ IF cancel.step = "post" THEN CancelRoute(cancel.run) ELSE UNCHANGED status
    /\ finals' = finals \cup {Final(cancel.run, cancel.thread, FALSE)}
    /\ severed' = TRUE
    /\ cancel' = None
    /\ UNCHANGED <<home, panel, probe, abandon, selects, submit, newChat, switches, losses, crossed, unheeded>>

-----------------------------------------------------------------------------
(* handleSelectThread, load, handleNewChat.                                *)

LatestOf(t) ==
    LET S == {r \in Runs : home[r] = t}
    IN  IF S = {} THEN None
        ELSE LET r == CHOOSE r \in S : status[r] = "live" \/ S \cap Live = {}
             IN  [run |-> r, live |-> r \in Live]

\* Whatever was shown is left, though it be a live run.
Leave(t) ==
    /\ view' = t /\ phase' = "loading"
    /\ active' = None /\ runIdRef' = None /\ attempts' = 0
    /\ StopSse

Opening(t) == [thread |-> t, step |-> "refresh", latest |-> LatestOf(t)]

Select(t) ==
    /\ phase = "ready" /\ newChat = None
    /\ t # view /\ switches < MaxSwitches
    /\ switches' = switches + 1
    /\ Leave(t)
    /\ selects' = selects \cup {Opening(t)}
    /\ UNCHANGED <<server, finals, abandon, cancel, submit, newChat, losses, faults, history>>

\* The messages are there, and the latest run as it was read with them; a run
\* that has ended is read again.  The handler does not look whether its thread
\* is still the one on view.
Selected(s) ==
    /\ s \in selects /\ s.step = "refresh"
    /\ phase' = "ready"
    /\ LET live == s.latest # None /\ s.latest.live IN
         /\ selects' = (selects \ {s}) \cup
                       IF s.latest = None \/ live THEN {} ELSE {[thread |-> s.thread, step |-> "snapshot", latest |-> s.latest]}
         /\ IF live THEN Attach(s.latest.run, FALSE)
                    ELSE UNCHANGED <<active, runIdRef, sub, attempts, probe>>
         /\ Cross(live /\ (view # s.thread \/ active # None \/ cancel # None))
    /\ UNCHANGED <<server, view, finals, abandon, cancel, submit, newChat, bounds, severed, unheeded>>

\* Nor does it look whether a Stop of the run is still to be answered.
SelectedEnded(s) ==
    /\ s \in selects /\ s.step = "snapshot"
    /\ selects' = selects \ {s}
    /\ active' = s.latest
    /\ ApplyTerminal(FALSE)
    /\ Cross(view # s.thread \/ active # None \/ cancel # None)
    /\ UNCHANGED <<server, view, phase, sub, probe, finals, abandon, cancel, submit, newChat,
                   bounds, severed, unheeded>>

SelectFails(s) ==
    /\ s \in selects /\ Fault
    /\ selects' = selects \ {s}
    /\ phase' = "error"
    /\ UNCHANGED <<server, view, active, runIdRef, sub, attempts, probe, finals, abandon, cancel,
                   submit, newChat, switches, losses, history>>

\* load: "Try again", or the page is loaded anew and no handler survives.
Load(t) ==
    /\ Leave(t)
    /\ \/ /\ phase = "error"
          /\ selects' = selects \cup {Opening(t)}
          /\ UNCHANGED <<finals, abandon, cancel, submit, newChat, faults>>
       \/ /\ Fault
          /\ selects' = {Opening(t)}
          /\ finals' = {} /\ abandon' = None /\ cancel' = None /\ submit' = None
          /\ newChat' = None
    /\ UNCHANGED <<server, switches, losses, history>>

\* Chats not opened yet stand for those created.
Fresh == {t \in Threads \ {view} : LatestOf(t) = None}

NewChat ==
    /\ phase = "ready" /\ newChat = None /\ switches < MaxSwitches
    /\ Fresh # {}
    /\ switches' = switches + 1
    /\ newChat' = [stop |-> IF ~ShowsLive THEN None
                            ELSE IF runIdRef # None THEN runIdRef ELSE active.run]
    /\ StopSse
    /\ UNCHANGED <<server, view, phase, active, runIdRef, attempts, finals, abandon, cancel,
                   selects, submit, losses, faults, history>>

\* A run that was shown as live is asked to stop first, and left in any case.
NewChatCreated(t) ==
    /\ newChat # None /\ newChat' = None
    /\ t \in Fresh
    /\ IF newChat.stop # None THEN CancelRoute(newChat.stop) ELSE UNCHANGED status
    /\ view' = t /\ active' = None /\ runIdRef' = None /\ attempts' = 0
    /\ Cross(Followed)
    /\ UNCHANGED <<home, phase, sub, probe, finals, abandon, cancel, selects, submit,
                   bounds, severed, unheeded>>

NewChatFails ==
    /\ newChat # None /\ Fault
    /\ newChat' = None
    /\ severed' = TRUE
    /\ UNCHANGED <<server, panel, probe, finals, abandon, cancel, selects, submit,
                   switches, losses, crossed, unheeded>>

-----------------------------------------------------------------------------
(* submitInstruction.                                                      *)

Submit ==
    /\ ~busy /\ phase = "ready"
    /\ \E continue \in {FALSE, active # None} :   \* a shown run may be continued
         submit' = [thread |-> view, run |-> None, step |-> "post", continue |-> continue]
    /\ UNCHANGED <<server, panel, probe, finals, abandon, cancel, selects, newChat, bounds, history>>

\* The server starts the run, if the user has no other.
RunStarted(r) ==
    /\ submit # None /\ submit.step = "post"
    /\ Live = {} /\ status[r] = "none"
    /\ status' = [status EXCEPT ![r] = "live"]
    /\ home' = [home EXCEPT ![r] = submit.thread]
    /\ submit' = [thread |-> submit.thread, run |-> r, step |-> "refresh", continue |-> submit.continue]
    /\ UNCHANGED <<panel, probe, finals, abandon, cancel, selects, newChat, bounds, history>>

\* A Continue that fails closes the run it was to continue, whichever is followed.
SubmitRefused ==
    /\ submit' = None
    /\ ApplyTerminal(~submit.continue)
    /\ Cross(submit.continue /\ runIdRef # None)
    /\ UNCHANGED <<view, phase, active, sub, probe, selects>>

\* AGENT_EXECUTION_BUSY: the panel goes to the thread of the live run, unless
\* it is the one the instruction was for (which the user may have left since).
RunBusy ==
    /\ submit # None /\ submit.step = "post"
    /\ \E r \in Live :
         IF home[r] = submit.thread
           THEN SubmitRefused
           ELSE /\ Leave(home[r])
                /\ selects' = selects \cup {Opening(home[r])}
                /\ submit' = None /\ UNCHANGED crossed
    /\ UNCHANGED <<server, finals, abandon, cancel, newChat, bounds, severed, unheeded>>

\* The run is followed once the messages are refreshed, whatever is on view.
Submitted ==
    /\ submit # None /\ submit.step = "refresh"
    /\ Attach(submit.run, FALSE)
    /\ Cross(\/ view # submit.thread \/ runIdRef # None \/ cancel # None
             \/ (active # None /\ active.run = submit.run))
    /\ submit' = None
    /\ UNCHANGED <<server, view, phase, finals, abandon, cancel, selects, newChat, bounds, severed, unheeded>>

SubmitFails ==
    /\ submit # None /\ Fault
    /\ SubmitRefused
    /\ UNCHANGED <<server, finals, abandon, cancel, newChat, switches, losses, severed, unheeded>>

-----------------------------------------------------------------------------
Answers ==
    \/ TerminalEvent \/ ProbeRead \/ ProbeAnswered \/ Reconnect \/ AbandonRun
    \/ \E f \in finals : FinalRead(f) \/ FinalAnswered(f) \/ FinalApplied(f)
    \/ StopAnswered \/ Stopped \/ StopApplied
    \/ \E s \in selects : Selected(s) \/ SelectedEnded(s)
    \/ \E t \in Threads : NewChatCreated(t)
    \/ \E r \in Runs : RunStarted(r)
    \/ RunBusy \/ Submitted

PanelNext ==
    \/ Answers
    \/ \E r \in Runs : EndRun(r)
    \/ LoseStream \/ ProbeFails \/ StopFails \/ SubmitFails
    \/ \E f \in finals : FinalFails(f)
    \/ \E s \in selects : SelectFails(s)
    \/ Stop \/ Submit
    \/ NewChat \/ NewChatFails
    \/ \E t \in Threads : Select(t) \/ Load(t)

PanelSpec == PanelInit /\ [][PanelNext]_panelVars

\* A run whose stream is open ends: a process executes it, or opening the stream
\* has repaired it.  Of a run that nobody follows this is not assumed.
FollowedRunEnds == sub # None /\ EndRun(sub)

FairPanelSpec ==
    /\ PanelSpec
    /\ WF_panelVars(Answers)
    /\ WF_panelVars(FollowedRunEnds)

-----------------------------------------------------------------------------
(* Excepted are panels on which a handler took effect after the user had    *)
(* left what it was about (crossed), and those whose Stop or whose last     *)
(* read of a run failed, with the stream closed before it (severed).        *)
(* A Stop that the server answers with a live run (unheeded) leaves the     *)
(* panel busy with a closed stream: no call has failed, and nothing but     *)
(* another Stop or a change of thread gets it out.                          *)

\* A run shown as ended is not shown as live again, though it was read as live
\* by handlers whose answers come later.
Excused == crossed \/ severed
EndedStaysEnded ==
    [][active # None /\ ~active.live /\ active' # None /\ active'.run = active.run /\ ~Excused'
        => ~active'.live]_panelVars

\* A panel does not stay busy for ever with a run, though its stream is lost
\* again and again and the run ends meanwhile.
Settles == ShowsLive ~> (~ShowsLive \/ Excused \/ unheeded)
=============================================================================
