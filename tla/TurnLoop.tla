------------------------------- MODULE TurnLoop -------------------------------
(***************************************************************************)
(* The loop of packages/agent-core/src/run.ts: model, tools, model, ...    *)
(*                                                                         *)
(* One turn is one model response.  Its tool calls run as: every mutation  *)
(* up to the last one marked beforeReads, in order; then all reads at      *)
(* once; then the other mutations, in order.  A key is a tool with its     *)
(* arguments, which is what the failure fuse counts.  Text, tokens,        *)
(* metrics and events are left out, and so is what a tool does.            *)
(***************************************************************************)
EXTENDS Integers, FiniteSets

CONSTANTS
    Keys,
    KindOf,        \* of the tool of each key
    MaxTurns,      \* maxTurns
    MaxAttempts,   \* maxAttemptsPerCall
    MaxBatch,      \* bound of the calls in one response, for TLC
    MaxSegments    \* bound of the continuations of a run, for TLC

\* "select": a mutation marked beforeReads.  "finish": a terminal read.
Kinds == {"read", "mutate", "select", "finish"}

ASSUME KindsAssumption == KindOf \in [Keys -> Kinds]
ASSUME BoundsAssumption ==
    /\ MaxTurns \in Nat /\ MaxAttempts \in Nat
    /\ MaxBatch \in Nat /\ MaxSegments \in Nat

VARIABLES
    pc,        \* "top" of the loop, waiting for the "model", running its "calls"
    stop,      \* how the run ended, "none" while it goes on
    turns,
    batch,     \* the calls of the turn, in the order the model made them
    call,      \* what became of each
    failedAt,  \* failedMutationCallId, 0 if there is none
    failures,  \* the fuse
    aborted,   \* the abort signal
    segments,  \* executions of this run, continuations included
    tried      \* history: executions of a key, as a mutation, that failed

turn == <<batch, call, failedAt>>
fuse == <<failures, tried>>
vars == <<pc, stop, turns, turn, fuse, aborted, segments>>

Stops == {"completed", "finish_tool", "max_turns", "deadline", "output_limit",
          "cancelled", "model_error"}

\* "soft": the tool answered ok === false.  "thrown": the result is an error
\* text.  "lost": it threw after an abort, and has no result.
Results == {"ok", "soft", "thrown", "skipped"}
CallStates == Results \cup {"waiting", "running", "lost"}

\* A call of a tool this turn does not expose is resolved to no tool.
CallSet == {[key |-> k, kind |-> c] : k \in Keys, c \in Kinds \cup {"unknown"}}
Calls == {c \in CallSet : c.kind \in {KindOf[c.key], "unknown"}}
Batches == UNION {[1 .. n -> Calls] : n \in 1 .. MaxBatch}

TypeOK ==
    /\ pc \in {"top", "model", "calls"}
    /\ stop \in Stops \cup {"none"}
    /\ turns \in 0 .. MaxTurns
    /\ \E n \in 0 .. MaxBatch :
          /\ batch \in [1 .. n -> Calls]
          /\ call \in [1 .. n -> CallStates]
          /\ failedAt \in 0 .. n
    /\ failures \in [Keys -> Nat] /\ tried \in [Keys -> Nat]
    /\ aborted \in BOOLEAN
    /\ segments \in Nat

Empty == [i \in 1 .. 0 |-> "none"]

Init ==
    /\ pc = "top" /\ stop = "none"
    /\ turns = 0
    /\ batch = Empty /\ call = Empty /\ failedAt = 0
    /\ failures = [k \in Keys |-> 0] /\ tried = [k \in Keys |-> 0]
    /\ aborted = FALSE
    /\ segments = 1

At(p) == stop = "none" /\ pc = p
End(s) == stop' = s /\ UNCHANGED <<pc, turns, turn, fuse, aborted, segments>>
-----------------------------------------------------------------------------
(* The top of the loop and the model's answer.                             *)

TurnsLeft == turns < MaxTurns

TurnAborted == At("top") /\ aborted /\ End("cancelled")

TurnLimit == At("top") /\ ~ aborted /\ ~ TurnsLeft /\ End("max_turns")

\* deadlineMs elapsed.
Deadline == At("top") /\ ~ aborted /\ TurnsLeft /\ End("deadline")

StartTurn ==
    /\ At("top") /\ ~ aborted /\ TurnsLeft
    /\ turns' = turns + 1
    /\ pc' = "model"
    /\ batch' = Empty /\ call' = Empty /\ failedAt' = 0
    /\ UNCHANGED <<stop, fuse, aborted, segments>>

\* The stream throws, or the provider reports an error.
ModelFails == At("model") /\ End(IF aborted THEN "cancelled" ELSE "model_error")

\* finishReason "length": the calls, if any, are discarded.
ModelCut == At("model") /\ End("output_limit")

ModelStops == At("model") /\ End("completed")

ModelCalls(b) ==
    /\ At("model")
    /\ batch' = b
    /\ call' = [i \in DOMAIN b |-> "waiting"]
    /\ failedAt' = 0
    /\ pc' = "calls"
    /\ UNCHANGED <<stop, turns, fuse, aborted, segments>>
-----------------------------------------------------------------------------
(* The calls of a turn.                                                    *)

Kind(i) == batch[i].kind
Key(i) == batch[i].key

Mutations == {i \in DOMAIN batch : Kind(i) \in {"mutate", "select"}}
Reads == DOMAIN batch \ Mutations
ContextChanges ==
    {i \in Mutations : \E j \in Mutations : i =< j /\ Kind(j) = "select"}

Settled(S) == \A i \in S : call[i] \in Results
Tripped(i) == failures[Key(i)] >= MaxAttempts
Blocked == failedAt # 0

\* The turn of mutation i has come.
Due(i) ==
    /\ At("calls")
    /\ i \in Mutations /\ call[i] = "waiting"
    /\ Settled({j \in Mutations : j < i})
    /\ i \notin ContextChanges => Settled(Reads)
Ready(i) == Due(i) /\ ~ aborted

\* The signal is checked before each mutation, skipped ones included.
AbortBeforeMutation(i) == Due(i) /\ aborted /\ End("cancelled")

Become(i, c) == call' = [call EXCEPT ![i] = c]

SkipMutation(i) ==
    /\ Ready(i) /\ Blocked
    /\ Become(i, "skipped")
    /\ UNCHANGED <<pc, stop, turns, batch, failedAt, fuse, aborted, segments>>

\* Fused: not executed, and it counts as a failed mutation.
FuseMutationPasses(i) ==                                           \* mutant
    /\ Ready(i) /\ ~ Blocked /\ Tripped(i)
    /\ Become(i, "skipped")
    /\ UNCHANGED <<pc, stop, turns, batch, failedAt, fuse, aborted, segments>>
FuseMutation(i) ==
    /\ Ready(i) /\ ~ Blocked /\ Tripped(i)
    /\ Become(i, "skipped")
    /\ failedAt' = i
    /\ UNCHANGED <<pc, stop, turns, batch, fuse, aborted, segments>>

StartMutation(i) ==
    /\ Ready(i) /\ ~ Blocked /\ ~ Tripped(i)
    /\ Become(i, "running")
    /\ UNCHANGED <<pc, stop, turns, batch, failedAt, fuse, aborted, segments>>

ReadsDue == (\E i \in Reads : call[i] = "waiting") /\ Settled(ContextChanges)

StartedUnblocked(i) == IF Tripped(i) THEN "skipped" ELSE "running"     \* mutant
Started(i) == IF Blocked \/ Tripped(i) THEN "skipped" ELSE "running"

\* All reads pass the fuse before any of them runs.
StartReads ==
    /\ At("calls") /\ ReadsDue
    /\ call' = [i \in DOMAIN call |-> IF i \in Reads THEN Started(i) ELSE call[i]]
    /\ UNCHANGED <<pc, stop, turns, batch, failedAt, fuse, aborted, segments>>

Succeed(i) ==
    /\ call[i] = "running" /\ Kind(i) # "unknown"
    /\ Become(i, "ok")
    /\ UNCHANGED <<pc, stop, turns, batch, failedAt, fuse, aborted, segments>>

\* fuse.record.  A soft failure is one whether or not the run was aborted; a
\* call of no tool always throws.
Fail(i) ==
    /\ call[i] = "running"
    /\ \/ Kind(i) # "unknown" /\ Become(i, "soft")
       \/ ~ aborted /\ Become(i, "thrown")
    /\ failures' = [failures EXCEPT ![Key(i)] = @ + 1]
    /\ IF i \in Mutations
       THEN failedAt' = i /\ tried' = [tried EXCEPT ![Key(i)] = @ + 1]
       ELSE UNCHANGED <<failedAt, tried>>
    /\ UNCHANGED <<pc, stop, turns, batch, aborted, segments>>

\* A call that throws after an abort ends the run, the other reads still going.
ThrowAborted(i) ==
    /\ call[i] = "running" /\ aborted
    /\ Become(i, "lost")
    /\ stop' = IF stop = "none" THEN "cancelled" ELSE stop
    /\ UNCHANGED <<pc, turns, batch, failedAt, fuse, aborted, segments>>

\* findTerminalText: any terminal call whose output is not an error text.
Finishes == \E i \in DOMAIN batch : Kind(i) = "finish" /\ call[i] # "thrown"

BatchDone == Settled(DOMAIN batch)

FinishAnyway ==                                                    \* mutant
    At("calls") /\ BatchDone /\ Finishes /\ End("finish_tool")
Finish == At("calls") /\ BatchDone /\ Finishes /\ ~ Blocked /\ End("finish_tool")

NextTurn ==
    /\ At("calls") /\ BatchDone
    /\ ~ Finishes \/ Blocked
    /\ pc' = "top"
    /\ UNCHANGED <<stop, turns, turn, fuse, aborted, segments>>

Abort ==
    /\ stop = "none" /\ ~ aborted
    /\ aborted' = TRUE
    /\ UNCHANGED <<pc, stop, turns, turn, fuse, segments>>

\* A new execution takes over the transcript and the fuse's snapshot.
ResumeUnfused ==                                                   \* mutant
    /\ stop \in {"max_turns", "deadline"} /\ segments < MaxSegments
    /\ stop' = "none" /\ pc' = "top" /\ turns' = 0
    /\ aborted' = FALSE
    /\ segments' = segments + 1
    /\ failures' = [k \in Keys |-> 0]
    /\ UNCHANGED <<turn, tried>>
Resume ==
    /\ stop \in {"max_turns", "deadline"} /\ segments < MaxSegments
    /\ stop' = "none" /\ pc' = "top" /\ turns' = 0
    /\ aborted' = FALSE
    /\ segments' = segments + 1
    /\ UNCHANGED <<turn, fuse>>

Mutate(i) ==
    AbortBeforeMutation(i) \/ SkipMutation(i) \/ FuseMutation(i) \/ StartMutation(i)
Return(i) == Succeed(i) \/ Fail(i) \/ ThrowAborted(i)

Loop ==
    \/ TurnAborted \/ TurnLimit \/ Deadline \/ StartTurn
    \/ ModelFails \/ ModelCut \/ ModelStops \/ \E b \in Batches : ModelCalls(b)
    \/ \E i \in DOMAIN batch : Mutate(i) \/ Return(i)
    \/ StartReads \/ Finish \/ NextTurn

Next == Loop \/ Abort \/ Resume

Spec == Init /\ [][Next]_vars

-----------------------------------------------------------------------------
Executed(i) == call[i] \notin {"waiting", "skipped"}

\* The mutations of a turn that are executed are the first ones it asked for,
\* each after the one before it succeeded: "a failed mutation short-circuits
\* the rest" (run.ts:42), a fused one like one that failed.
MutationsFormAPrefix ==
    \A i, j \in Mutations : i < j /\ Executed(j) => call[i] = "ok"

\* A mutation never runs beside another call of its run.
MutationsRunAlone ==
    \A i \in Mutations : call[i] = "running" =>
        \A j \in DOMAIN batch : j # i => call[j] # "running"

\* "Context changes must finish before reads can observe the selected state"
\* (run.ts:262): a read runs only after every context change succeeded, and
\* never after a later mutation of its turn has begun.
ReadsSeeTheSelection ==
    \A r \in Reads : Executed(r) =>
        /\ \A i \in ContextChanges : call[i] = "ok"
        /\ call[r] = "running" =>
              \A i \in Mutations \ ContextChanges : call[i] = "waiting"

\* A run that a terminal tool ends has made every change its last turn asked
\* for ("honour only when the batch's mutations all succeeded", run.ts:319).
FinishedWhole == stop = "finish_tool" => \A i \in Mutations : call[i] = "ok"

\* "Replayable state only at a safe boundary after all tool results were
\* recorded" (types.ts:229): a run that can be continued owes no result.
SafeBoundary == stop \in {"max_turns", "deadline"} => Settled(DOMAIN batch)

\* An identical change is not tried more than MaxAttempts times after failing,
\* however many turns and continuations the run has.
FuseHolds == \A k \in Keys : tried[k] =< MaxAttempts

\* No mutation begins once the run was aborted (run.ts:295).
NoMutationAfterAbort ==
    [][\A i \in Mutations :
          aborted /\ call[i] = "waiting" /\ batch' = batch => call'[i] # "running"]_vars
=============================================================================
