---------------------------- MODULE ThreadContext ----------------------------
(***************************************************************************)
(* What a thread's runs remember of it: agent/context-compaction.ts, the   *)
(* checkpoints of agent/persistence.ts, loadHistory of agent-context.ts.   *)
(*                                                                         *)
(* A run reads the latest checkpoint and then the most recent messages     *)
(* after it.  A run that completes starts a compaction nobody waits for:   *)
(* it replaces the oldest messages after the checkpoint it read by a new   *)
(* checkpoint.  The model call in the middle takes long enough for other   *)
(* runs to end and compact as well, and every read and write is a          *)
(* statement of its own.  The calls of both are billed by ManagedTrial.    *)
(*                                                                         *)
(* A message is its place in the order (created_at, id), which its         *)
(* transaction takes when it begins: a message may be committed after a    *)
(* later one.  A checkpoint's content is the set of messages it carries.   *)
(***************************************************************************)
EXTENDS ManagedTrial

CONSTANTS
    Earlier,      \* messages of runs that ended before, not yet compacted
    MaxMessages,  \* bound: messages of the thread
    Trigger,      \* COMPACTION_TRIGGER_MESSAGES: 60
    Retain,       \* COMPACTION_RETAIN_MESSAGES: 20
    History,      \* MAX_HISTORY_MESSAGES: 40
    CompactionOf  \* the compaction each run starts when it completes

ASSUME ContextAssumption ==
    /\ MaxMessages \in Nat /\ Earlier \in 0..MaxMessages
    /\ Trigger \in Nat /\ Retain \in Nat \ {0} /\ Retain < Trigger
    /\ History \in Nat \ {0}
    /\ CompactionOf \in [Runs -> Compactions]

Messages == 1..MaxMessages

Checkpoints == [through : 0..MaxMessages, carries : SUBSET Messages]

NoCheckpoint == [through |-> 0, carries |-> {}]

VARIABLES
    taken,        \* the messages that have their place
    messages,     \* the messages that are committed
    checkpoints,  \* checkpoint rows in the order of their inserts
    at,           \* where each run and compaction is
    own,          \* the user message of a run
    base,         \* the checkpoint a run or a compaction has read
    tail,         \* the number of messages a compaction counted after it
    picked,       \* the messages a compaction hands to the model
    context,      \* the messages a run knows of, from its checkpoint and rows
    before        \* ghost: the messages there were when it read them

threadVars == <<taken, messages, checkpoints, at, own, base, tail, picked,
                context, before>>
vars == <<trialVars, threadVars>>

Tasks == Runs \cup Compactions

TypeOK ==
    /\ TrialTypeOK
    /\ taken \in 0..MaxMessages
    /\ messages \in SUBSET (1..taken)
    /\ checkpoints \in Seq(Checkpoints)
    /\ at \in [Tasks -> {"none", "begun", "reading", "loading", "counting",
                         "listing", "asking", "model", "judging", "writing",
                         "done"}]
    /\ own \in [Runs -> 0..MaxMessages]
    /\ base \in [Tasks -> Checkpoints]
    /\ tail \in [Compactions -> 0..MaxMessages]
    /\ picked \in [Compactions -> SUBSET Messages]
    /\ context \in [Runs -> SUBSET Messages]
    /\ before \in [Runs -> SUBSET Messages]

Init ==
    /\ TrialInit
    /\ taken = Earlier
    /\ messages = 1..Earlier
    /\ checkpoints = <<>>
    /\ at = [t \in Tasks |-> "none"]
    /\ own = [r \in Runs |-> 0]
    /\ base = [t \in Tasks |-> NoCheckpoint]
    /\ tail = [k \in Compactions |-> 0]
    /\ picked = [k \in Compactions |-> {}]
    /\ context = [r \in Runs |-> {}]
    /\ before = [r \in Runs |-> {}]

-----------------------------------------------------------------------------
(* Messages and checkpoints *)

After(checkpoint) == {m \in messages : m > checkpoint.through}

Oldest(n, S) == {m \in S : Cardinality({l \in S : l < m}) < n}
Newest(n, S) == {m \in S : Cardinality({l \in S : l > m}) < n}

LastInserted ==  \* mutant
    IF checkpoints = <<>> THEN NoCheckpoint ELSE Last(checkpoints)

\* getLatestThreadContextCheckpoint: the furthest boundary, then the newest.
Latest ==
    LET Furthest == Max({checkpoints[i].through : i \in DOMAIN checkpoints})
        AtIt == {i \in DOMAIN checkpoints : checkpoints[i].through = Furthest}
    IN IF checkpoints = <<>> THEN NoCheckpoint ELSE checkpoints[Max(AtIt)]

Move(t, place) == at' = [at EXCEPT ![t] = place]

-----------------------------------------------------------------------------
(* A run of the thread *)

ActiveRun(r) == at[r] \notin {"none", "begun", "done"}

\* The transaction that starts a run takes its message's time as it begins,
\* and may wait there for the rows the run before it holds.
BeginStart(r) ==
    /\ at[r] = "none"
    /\ \A s \in Runs : at[s] # "begun"
    /\ taken < MaxMessages
    /\ taken' = taken + 1
    /\ own' = [own EXCEPT ![r] = taken + 1]
    /\ Move(r, "begun")
    /\ UNCHANGED <<trialVars, messages, checkpoints, base, tail, picked,
                   context, before>>

\* ... and commits when no run of the user is active.
CommitStart(r) ==
    /\ at[r] = "begun"
    /\ \A s \in Runs : ~ActiveRun(s)
    /\ messages' = messages \cup {own[r]}
    /\ Move(r, "reading")
    /\ UNCHANGED <<trialVars, taken, checkpoints, own, base, tail, picked,
                   context, before>>

\* loadHistory: the latest checkpoint, then the newest rows after it.
ReadLatest(t, from, to) ==
    /\ at[t] = from
    /\ base' = [base EXCEPT ![t] = Latest]
    /\ Move(t, to)
    /\ UNCHANGED <<trialVars, taken, messages, checkpoints, own, tail, picked,
                   context, before>>

LoadedFromTheStart(S) == Oldest(History, S)  \* mutant

\* listRecentMessagesForContext
Loaded(S) == Newest(History, S)

LoadHistory(r) ==
    /\ at[r] = "loading"
    /\ context' = [context EXCEPT ![r] = base[r].carries \cup
                      Loaded(After(base[r]) \ {own[r]})]
    /\ before' = [before EXCEPT ![r] = messages \ {own[r]}]
    /\ Move(r, "asking")
    /\ UNCHANGED <<trialVars, taken, messages, checkpoints, own, base, tail,
                   picked>>

\* The run is over: completed with its answer and a compaction launched, or
\* failed, with a message of what was done or without one.
Finish(r) ==
    /\ at[r] = "model"
    /\ stage[r] \in {"settled", "over"}
    /\ \/ /\ taken < MaxMessages
          /\ taken' = taken + 1
          /\ messages' = messages \cup {taken + 1}
          /\ at' = [at EXCEPT ![r] = "done",
                              ![CompactionOf[r]] =
                                  IF stage[r] = "settled" THEN "reading" ELSE @]
       \/ /\ stage[r] = "over"
          /\ Move(r, "done")
          /\ UNCHANGED <<taken, messages>>
    /\ UNCHANGED <<trialVars, checkpoints, own, base, tail, picked, context,
                   before>>

-----------------------------------------------------------------------------
(* compactThreadContext *)

\* getThreadContextTailStats.  A short tail triggers by its characters alone.
CountTail(k) ==
    /\ at[k] = "counting"
    /\ tail' = [tail EXCEPT ![k] = Cardinality(After(base[k]))]
    /\ \/ Move(k, "listing")
       \/ /\ Cardinality(After(base[k])) < Trigger
          /\ Move(k, "done")
    /\ UNCHANGED <<trialVars, taken, messages, checkpoints, own, base, picked,
                   context, before>>

KeptNothing(counted) == counted  \* mutant

Kept(counted) == IF counted > Retain THEN counted - Retain ELSE 0

Eligible(k) ==
    Oldest(Min({Trigger, Kept(tail[k])}), After(base[k]))

Listed(k, n) == Oldest(n, Eligible(k))

\* listOldestMessagesForContextCompaction and projectCompactionPrefix: as
\* many of the eligible messages as the model's budget holds, from the oldest.
PickPrefix(k) ==
    /\ at[k] = "listing"
    /\ \E n \in 0..Cardinality(Eligible(k)) :
         /\ picked' = [picked EXCEPT ![k] = Listed(k, n)]
         /\ Move(k, IF n = 0 THEN "done" ELSE "asking")
    /\ UNCHANGED <<trialVars, taken, messages, checkpoints, own, base, tail,
                   context, before>>

\* The model's answer is billed; an error of the bill is only logged.  An
\* answer of the wrong form or size is dropped.
Judge(k) ==
    /\ at[k] = "model"
    /\ stage[k] \in {"settled", "over"}
    /\ \/ /\ stage[k] = "settled"
          /\ Move(k, "judging")
       \/ Move(k, "done")
    /\ UNCHANGED <<trialVars, taken, messages, checkpoints, own, base, tail,
                   picked, context, before>>

Boundary(k) == Max(picked[k])

\* The latest checkpoint is read again ...
Recheck(k) ==
    /\ at[k] = "judging"
    /\ Move(k, IF Boundary(k) <= Latest.through THEN "done" ELSE "writing")
    /\ UNCHANGED <<trialVars, taken, messages, checkpoints, own, base, tail,
                   picked, context, before>>

\* ... and the new one inserted, whatever was inserted in between.
CreateCheckpoint(k) ==
    /\ at[k] = "writing"
    /\ checkpoints' = Append(checkpoints,
                             [through |-> Boundary(k),
                              carries |-> base[k].carries \cup picked[k]])
    /\ Move(k, "done")
    /\ UNCHANGED <<trialVars, taken, messages, own, base, tail, picked,
                   context, before>>

-----------------------------------------------------------------------------
(* The model calls, and the bills behind them *)

\* A run and a compaction check the credit before their model is called.
Ask(t) ==
    /\ at[t] = "asking"
    /\ BeforeManagedCall(t)
    /\ Move(t, "model")
    /\ UNCHANGED <<taken, messages, checkpoints, own, base, tail, picked,
                   context, before>>

Bill ==
    /\ \/ \E t \in Titles, r \in Runs : AskTitle(t, r)
       \/ \E b \in Bills : \/ ModelAnswers(b) \/ CallThrows(b) \/ RunThrows(b)
                           \/ RecordUsage(b) \/ AfterUsageRecorded(b)
                           \/ Unwind(b)
    /\ UNCHANGED threadVars

Next ==
    \/ \E r \in Runs : \/ BeginStart(r) \/ CommitStart(r)
                       \/ ReadLatest(r, "reading", "loading")
                       \/ LoadHistory(r) \/ Finish(r)
    \/ \E k \in Compactions : \/ ReadLatest(k, "reading", "counting")
                              \/ CountTail(k) \/ PickPrefix(k) \/ Judge(k)
                              \/ Recheck(k) \/ CreateCheckpoint(k)
    \/ \E t \in Tasks : Ask(t)
    \/ Bill

Spec == Init /\ [][Next]_vars

-----------------------------------------------------------------------------
(* Properties *)

\* A checkpoint stands for every message up to its boundary: "Keep a prefix
\* for compaction so its boundary only covers represented messages"
\* (context-projection.ts:130).  Runs skip those messages for good, so one it
\* does not carry, and one committed behind it later, would be forgotten.
BoundaryIsRepresented ==
    \A i \in DOMAIN checkpoints :
        {m \in messages : m <= checkpoints[i].through} = checkpoints[i].carries

\* A run that reads a checkpoint and then, later, the rows after it still
\* knows the newest messages of the thread, as many as the history may have.
RecentIsRemembered ==
    \A r \in Runs : Newest(History, before[r]) \subseteq context[r]

\* However two compactions interleave, the checkpoint the runs read never
\* moves back to one that carries less.
LatestAdvances ==
    [][Latest.carries \subseteq Latest'.carries]_vars

=============================================================================
