# OpenSuite: a TLA+ model of its agent runs, documents and editor

OpenSuite is a document editor with an agent that edits. Its core is the API
(`apps/api/src`): one Node process in front of Postgres and an S3 store. The
browser opens documents, autosaves drafts, starts agent runs and watches them
over server-sent events. An agent run reads a document version, calls a model
in a loop, edits a working copy through tools, and appends a new version.

The modules here model the parts where two actors meet: two tabs, a tab and a
background run, a run and the repair of a run, a save and the transaction,
object and clean-up it consists of, a typing user and the version that replaces
what he sees, a process and the one that replaces it.

## The system

| component | state it keeps | operations | hard behaviour |
|---|---|---|---|
| execution lease (`agent/execution-lease.ts`) | one row per user: token, expiry | acquire, renew, release, releaseUser, clearAll | expiry against renewals that fail, late releases, restarts |
| run start and execution (`agent/execution.ts`, `run-settlement.ts`, `run-continuation.ts`) | the call's position; the row, transcript and event it writes | start, continue, run, finalize, settle | each step may fail alone, and the next must still be truthful |
| run manager and event stream (`agent/run-manager.ts`, `routes/agent.ts`) | in-memory map of live runs, a hub with a buffer per run, SSE responses | startRun, cancel, subscribe, repairAbandonedRun, safety net, grace timer | the map is not the table: a run can be in one and not in the other |
| agent persistence (`agent/persistence.ts`) | threads, messages, runs, steps, checkpoints | createRun, updateRunStatus, recordStep ... | the transition is checked on a row that was read without a lock |
| turn loop (`packages/agent-core/src/run.ts`) | messages, failure fuse, turn count | one model turn, tool calls | turn bound, terminal tool, abort between calls |
| working copy (`agent/docx-tools.ts`, `agent/execution.ts`) | the active document of a run, its bytes, revision and handles; what the model was shown | read, edit, style, create, duplicate, select, flush | a flush fails half-way; what the model holds outlives what it was read from |
| documents (`documents/service.ts`) | document row, versions, autosave draft, stored objects | create, append, saveDraft, restoreVersion, softDelete, restore, purge | put, transaction and clean-up fail separately; optimistic concurrency on a version and a draft |
| storage accounting (`storage-accounting/service.ts`) | used bytes per user | reserve, release, reconcile | must agree with the rows through every failure |
| workspaces (`workspaces/service.ts`) | workspace row | trash, restore, purge | the purge takes several row locks, in another order than those it meets |
| chat attachments (`chat-attachments/service.ts`) | attachment rows, their bytes and extractions | upload, bind, remove, expire, extract | binding, removal and expiry do not take the same locks |
| attachment extraction (`chat-attachments/extraction.ts`) | cached extractions, pending reads, two worker slots | get, view, verifySource | the cache is written beside a removal |
| context compaction (`agent/context-compaction.ts`, `agent-context.ts`) | checkpoints of a thread | compact, loadHistory | background compactions race with each other and with messages committed late |
| usage and managed trial (`model-usage`, `managed-trial`, `agent/usage-accounting.ts`) | usage events, debits, balance | record, debit, block | checked before the call, debited after it |
| editor surface (`docx-surface.tsx`, `editor-save.ts`, `editor-version-refresh.ts`) | revision counts, pending save, loaded version, preview | type, save, refresh, reload, preview, discard | whatever an answer finds when it arrives |
| agent panel (`document-agent-panel.tsx`, `lib/api.ts`) | thread shown, run followed, event stream | attach, probe, reconnect, stop, finalize, switch | handlers that resume on a panel which has moved on |
| brand, styles, capabilities, retrieval, credentials, catalog, auth, other web | one row or one page each | CRUD, rendering | mostly none |

What makes each correct, in the terms of the properties below: the lease
excludes and is never lost for good; a run ends once, its end is announced truthfully
and what is called resumable can be replayed and is continued once; the loop runs
changes one by one, in order, and stops at the first that fails; no save is lost and
rows, objects and charge agree; the purge of a workspace leaves nothing behind, takes
nothing from one that is in use, and ends; what a message refers to stays until the user
removes it; a checkpoint stands for exactly the messages it replaces; a model call is
charged once; a handle, a reused read and the view in a prompt say what is in the working copy,
and no change of a run is dropped by a switch of documents; what the user types is in the editor, in a draft or in a version;
a panel settles on what the server says.

Interactions: `start()` acquires the lease, commits the run's row and returns to
the manager, which puts the run in its map; the background execution writes the
row, its document through the document service, and its events through the hub;
the event route reads the row, then the map, and repairs the row (and the
lease) of a run that is not in the map; the document service calls the ledger
inside its transactions and the object store around them; `start()` binds the
attachments inside the transaction that creates the message; a run that
completes starts a compaction nobody waits for, and both are billed; the panel starts a run
after the surface has saved, follows its events, and tells the surface to preview and to refresh.

PROJECT.json lists every component with its status, and every hazard with its
line and the properties that would catch it. Two small ones are not in its list: the
heartbeat timer of an event stream whose buffered replay ends the response inside
`subscribe()` is armed after the response closed (routes/agent.ts:739), and identical
reads of one response pass the fuse together (agent-core run.ts:277). Nor are those whose property is
proved and no longer run: no change begins after an abort (NoMutationAfterAbort), a bounded stop owes no result (SafeBoundary),
a deleted attachment stays deleted (DeletedIsFinal), a version contains the one before it (HistoryIsCumulative). A blank document that was
created and could not be read back is an orphan in its workspace (docx-tools.ts:528; CreateFails of WorkingCopy).

## Modules

| module | models | proofs |
|---|---|---|
| `ExecutionMutex` | what the lease promises (abstract) | |
| `ExecutionLease` | the lease with a clock, its holders, failing renewals and releases, the repair's release by user, restarts | `Execution_proofs` |
| `RunLifecycle` | what those who watch a run may rely on (abstract) | |
| `AgentRuns` | start, execution, settlement, safety net, cancel, event stream and repair of runs | `AgentRuns_proofs` |
| `TurnLoop` | the loop of agent-core between "running" and its stop | `Execution_proofs` |
| `DocumentVersions` | one document with its versions, draft, objects and charge | `DocumentVersions_proofs` |
| `WorkspacePurge` | a workspace's purge beside those who work on it | `WorkspacePurge_proofs` |
| `ChatAttachments` | uploads, messages, removals, expiries and extractions | `ChatAttachments_proofs` |
| `WorkingCopy` | the document a run edits, and what its model knows of it | `WorkingCopy_proofs` |
| `ManagedTrial` | the allowance of a user and the bills that draw on it | in `ThreadContext_proofs` |
| `ThreadContext` | messages, checkpoints and compactions of a thread; EXTENDS ManagedTrial | `ThreadContext_proofs` |
| `EditorSession` | one open document in the web editor, the server it saves to, a run | `EditorSession_proofs` |
| `AgentPanel` | the chat panel following the runs of a thread | `Execution_proofs` |

Each has an `MC_` module with the model values of its instance and a cfg per run. ManagedTrial is
checked as part of ThreadContext. MC_AgentRuns serves three cfgs (MC_AgentRuns, MC_AgentStreams, MC_DoubleExecution).

How they compose. ThreadContext extends ManagedTrial: its runs and compactions take
the latter's steps at their model calls. The others meet at an assumption that one side
makes and the other shows. AgentRuns uses the lease by what ExecutionLease
promises: a row of a live holder does not expire (ExpireLease needs a holder
that is gone). Its ModelSucceeds, ModelBounded and ModelFails are the stops of TurnLoop.
A BeginSend of ChatAttachments is the transaction CreateRun of AgentRuns, and only one
is in progress at a time because the lease is held; the same exclusion makes the runs of ThreadContext
one at a time. That a run ends whose stream is open, and that the stream says so, which AgentPanel assumes
of the server, are EveryRunEnds and StreamEnds of AgentRuns, where opening a stream is a visit of the run's page. The tools that WorkingCopy runs
one after the other are the calls of TurnLoop. The store behind EditorSession and WorkingCopy accepts a save exactly when UpToDate of
DocumentVersions holds.

### ExecutionLease

`row[u]` is the table's row of user u, `stage[t]` the position of the call of
`start()` that drew token t ("starting" until its interval is armed in
`keepLeaseUntilFinished`, "running" until its promise settles, "finishing" until
its release returned). `Free` and `WriteRow` are the upsert of acquire, with its
`where expires_at <= now`; `DeleteRow` is the delete by user and token.
`Renew` ignores the Boolean result, as the caller does, `RenewFails` and the second
disjunct of `Release` are the swallowed errors. `FindUntracked` is a tab that takes
the run of a call still in `start()` for an abandoned one, and `ReleaseUser` what
the repair then does to the row.

`MaxSilence` is the one assumption about the environment: a live holder writes
its row successfully at least that often, and MaxSilence < LeaseMs. In the code
a lease is written for 5 minutes and renewed every 60 s (execution-lease.ts:8-9), so it
says that no more than three consecutive renewals fail, and that timers
are not late. Without it the lease does not exclude: nothing tells a holder
that its row was taken.

`OneExecutionPerUser`, `LiveHolderUnexpired`: a user has one execution between
acquire and settlement, and its row does not expire under it. Both except users
in `orphaned`: those with an unfinished run that looks abandoned, whose repair
deletes the row of whoever holds it. `ImplementsMutex` refines ExecutionMutex
with running <- the live calls.

### AgentRuns

Everything between two awaits is one step; each database statement is a step of
its own. So `updateRunStatus` is two (SettleRead, SettleWrite; RepairRead,
RepairWrite): it reads the row, checks `RUN_STATUS_TRANSITIONS` and updates by id.
Any database call may fail without effect, and a commit may take effect and lose
its reply; `faults` counts both. `Restart` loses everything the process keeps.

| variable | code |
|---|---|
| `status`, `chain`, `created` | agent_run: status with the errorCode that is read back, the runs of one task, createdAt |
| `stored` | runs whose transcript carries a continuation step |
| `lease` | agent_execution_lease, as ExecutionLease leaves it: a row of a live holder does not expire, any other may |
| `pc`, `from`, `plan`, `aborted` | the awaits of start / runExecution / settleTerminalRunFailure / the safety net, continueFromRunId, the outcome to write, the AbortController |
| `active`, `events`, `tab` | the manager's map, the terminal events in each hub's buffer, the event-stream requests |
| `mistaken`, `dropped` | history: runs a tab took for abandoned while they were in progress; users for whom a repair deleted the lease of a live holder |

Abstractions. The model loop is three outcomes (ModelSucceeds, ModelBounded,
ModelFails). completed_with_input_needed is completed. The statuses `planning` and
`waiting_for_confirmation` are never written by the code. Non-terminal events are left out.
The deadline stop of agent-core is not used by the host. The message, its
attachments and the rows beside the run in the creating transaction are left out.

Two exceptions appear in the properties because the code needs them. A run is
`mistaken` when a tab subscribes after its row is committed and before the map
knows it: the repair then fails a run that goes on, and the two writers do not
exclude each other. A user is `dropped` when a repair deletes the lease of a
call in `start()`, which hasLiveForOwner does not see. The run
double_execution states the exclusion without `dropped`.

ContinuedOnce is a property of the whole path: the newest run of a task is read,
checked and linked by three statements of `start()`, and only the lease keeps two calls
from taking the same run. Before(r), the order in which a call passes these
statements, and EndTab, the end of a response, are operators of their own.

### DocumentVersions

Each operation draws one fresh id that names it, its row and its object.
`edits[i]` is what the bytes of i contain: the edits of the saves its author had
read, and his own. A save is BeginCreate or ReadTip, ReadForEditing; PutObject;
CommitSave, SaveRejected or CommitAmbiguous; SweepOld or SweepOwn. `UpToDate` is the
check under the row's lock: the latest version is the base and the draft is
the base draft. restoreVersion and purge hold the lock while they delete objects one by
one, then commit. `torn` names the objects that the code deletes before the
transaction that drops their rows, or after one whose reply was lost.

Bytes are counted as cells: `Cells(S)` has Size[i] of them for each row i of S, and `Bytes(S)` is
their number, the sum that expectedUsage adds up.

Abstractions. One document and one owner. The bytes are a set of edits. S3's delete of a missing
key is not an error. Trashing through the workspace, renaming, starring,
downloading and listing are left out; agent and editor saves take the same path.

### WorkspacePurge

An operation is one transaction, with an object put before it or deleted inside
it. `held[o]` are the row locks it has, `pc[o]` its statement. The orders are the code's: a purge takes
the workspace, its documents, then the ledger; an upload has the ledger when it updates the workspace;
an append takes the document, ledger and workspace; the purge of a document takes the document,
workspace and ledger. So they can wait in a circle, and `Victim` is Postgres aborting
one of the circle. `doomed` is what a purge has read, whose bytes it releases at the end,
`todo` what of it is still in the store. MaxToggles bounds the moves to the trash and back.

What the run and the proofs show: ActiveKeepsItsBytes, an active workspace's rows have
their objects though an append never looks again whether the workspace was trashed;
PurgeLeavesNothing, after a purge that committed there are no rows, and no objects but those of operations that failed;
PurgesEnd, a purge that found its target in the trash ends, and if nothing failed, with success. `torn` is the exception: an aborted purge
(a failing statement, the victim of a deadlock, a foreign key of a run that is still
working) has deleted objects and keeps the rows. Restoring the workspace then brings
back documents that cannot be opened.

Abstractions. One workspace with one document from the start and those the uploads create; a
version is one byte; attachments and brand assets, which are deleted the same way, are left out.

### TurnLoop

A step is what `runAgent` does between two awaits: the check at the top of the
loop, the model's answer, the start and the end of each tool call. `batch` is the
response's calls in order, `call[i]` what became of the i-th, `failedAt` is
failedMutationCallId, `failures` the fuse, `segments` the executions of the run, each of which
gets the transcript and the fuse's counts of the one before. A key is a tool with its arguments, as the
fuse counts them; `KindOf` says whether its tool reads, mutates, mutates before the
reads, or ends the run.

Abstractions. Text, tokens, metrics, events, the contents of results and failing
event sinks are left out. The model may answer anything at any time, and a tool may
succeed, answer ok: false, throw, or throw because of the abort. Reads of one response are started
together, so identical ones pass the fuse together.

MutationsFormAPrefix says that the executed changes of a response are its first
ones, each begun after the one before it succeeded; ReadsSeeTheSelection that
reads run after every change marked beforeReads succeeded and before any other; SafeBoundary
that a transcript handed to a continuation owes no result; FinishedWhole
that a run a terminal tool ended made every change its last response asked for.

### WorkingCopy

`s` is the session of `createActiveDocxSession`: document, version, baseDraftId, bytes, dirty, workingRevision
and workingMutationCount. Content is the sequence of the changes in it, and a handle is the content it was read from;
it is current while only formatting ("keeps") or a field refresh ("fields") came after (`GoesOn`). What a content
holds of the run's or the tabs' changes is counted by their places in it (`Count`). A call is one step, since agent-core
makes mutations one at a time and a turn's reads see no mutation (TurnLoop); only the selection is two, as
it reads the listing and then the bytes while tabs save. `Flushes` is what a flush may do: refresh the fields or not, append, conflict,
fail, or commit and lose its reply. `mixed` says whether the turn's response has calls that are no
guarded reads: those are the barrier of guardRepeatedReads. `view` is the complete document in the prompt: of which
version (directVersionId), from which revision, and whether there is a message.

HandlesAreCurrent: what the model holds points to where it did when it was read, across batches, turns and switches of documents.
ReuseIsCurrent: an answer from an earlier read is what the read would return. ViewIsCurrent: the model is never shown the
document without the changes it made. NoEditIsLost: a run's changes are in the latest version or still to
be saved, and it says when they were not; a tab's are not replaced.

HandlesAreCurrent excepts "fields". The refresh inside a flush binds a fresh host without expiring handles: when the
creation it was part of fails, the document stays active, nothing counts as changed in that
turn, and handles read before are accepted on the bytes that LibreOffice wrote, in later turns too.

Abstractions. The native engine. Reads of documents that are not active return no handles, and renaming has no state here. A
continuation differs only by its lock; its restored style state and transcript are left out, and so is the verification after
the save. Where composeProjectMessages has no current view it may repeat the retrieval made before the run, as historical evidence
after edits; `Shown` is the current view only. The edits of a run whose process dies are lost, as nothing is saved before the flush.

### ChatAttachments

An attachment has the name of its upload. A request is a sequence of steps with one
query or storage call each: `pc[p]` is its position, `target[p]` its attachment. `lock` is the
workspace's row, taken by `select .. for update`; `held` are the rows that the
transaction of a message has updated and not committed, and until it commits every other query reads
them as they were. `Mark` is an update by id, so it waits for `held` and then
overwrites; `BindRow` is an update with the status in its WHERE. Each upload begins with
the expiry of what was `old` when it looked; an extraction is a second object, put and then checked.

The charge of a set of rows is counted in `Cells`, as in DocumentVersions.

Abstractions. One user and workspace. The kind, name and hash of an upload and the limit of ten per
message are left out. A reader belongs to the attachment's chat. What
refuses a request before it changes anything (404, 400) is a guard. The worker pool, the
sharing of pending reads and remembered failures are not modelled.

`torn`, `raced` and `late` name the three exceptions the code needs: a failed request left a row without
its bytes; an expiry was under way when a message claimed the attachment; an extraction was
written between the deletion of the objects and its commit.

### ManagedTrial

`balance` and `blocked` are the account's row, `events[b]` the usage events of a bill, `debits[b]`
which of them have a debit. A bill reads the account before its model is called; afterwards it
inserts an event and then debits the account for it, or blocks it when the provider reported no
cost that can be parsed. Nothing ties the statements together. `attempted` is
runUsageAttempted, `catches` the catch blocks a failing run still passes through,
each of which calls the accounting again.

`Debited` has a unit for each credit of a debited event, so that what was debited is their number.
ChargedOnce says that the balance is the grant less the cost of every debited event, that no event of a bill is
debited twice however often the accounting is retried, and that one left unpaid belongs
to a bill in flight or to one whose statement failed (`dropped`): a failure between the
event and its debit leaves it unpaid for ever. A balance can fall below zero by what is
in flight when it runs out, and the title's call is not checked at all. The vision readers of
attachments, which bill in the same way, are left out.

### ThreadContext

A message is its place in the order (created_at, id) that its transaction takes when it
begins, so it may be committed after a later one (`taken` against `messages`). A checkpoint is its boundary (`through`)
and the messages its text stands for (`carries`). A run reads the latest checkpoint, then the newest
History messages after it; a compaction reads the checkpoint, counts, lists, asks the
model, looks whether the boundary is stale, and inserts, with whole runs and other compactions between.

BoundaryIsRepresented: a checkpoint carries exactly the messages up to its boundary.
RecentIsRemembered: a run knows the newest History messages there were when it read its checkpoint, from it or from the rows. LatestAdvances: the checkpoint the next run reads never carries less than before;
duplicates are harmless because the latest is chosen by its boundary and not by its insert.
What is not promised: COMPACTION_TRIGGER_MESSAGES is 60 and MAX_HISTORY_MESSAGES 40, so
between compactions the oldest of a tail of 41 to 59 messages are in neither. That is by
the constants' design; the property speaks of the newest.

Abstractions. The wording of a checkpoint, the token budget, the pairing and trimming of
historical messages. Continuations, which load no history, are left out.

### EditorSession

The surface's refs are the variables: `revision`, `savedRevision` and `versionRevision` of
createEditorSaveState, `tried` (lastAutoSaveRevision), `save` and `queued` (the pending save and the version save
behind it), `reload`, `preview` and `painting`. Content is the set of edits it holds, `Work` what a
run writes. A save is export, send, answer; edits go on between the three. `agent` is the run
the panel starts: the surface saves first, then the run is posted and started. A preview is fetched
(FetchPreview), looked at again in full and by its run (CheckPreview), waits while a reload is under way,
polling every 50 ms (BeginPreview, `PreviewPolls`), and replaces the screen (ApplyPreview). The poll looks at
`dirty` alone. That it comes before a save could hide an edit from it is assumed: Type
drops a preview that polls, for an export and two replies take longer than 50 ms. That the editor's library does not load
another document in the middle of an export is assumed as well.

NoEditIsLost: what was typed is on screen or in the draft or version the server would load,
but for edits the user discarded and those typed while a reload was on its way or
a run was being started (`exposed`). CleanIsSaved: a surface that says it has nothing to save has nothing to lose.
RunReadsTheEdits: a run begins on a content with all that was on screen when the user asked for it.
Without the exception `exposed` it is false: a refresh of a clean editor looks once for edits and fetches the version while
the user can type; markChanged does not count during a reload, and what the fetch brings replaces what was typed.

Noticed and left out: the answer of a getDocument that a save of one's own overtook
reloads an older version and leads to a conflict that is none (here a refresh's look and
answer are one step); a preview ignores a draft saved between the save before a run and the run's start. A failed
run leaves its preview on screen until the next reload, so phantom work stays visible.

### AgentPanel

Handlers that wait are jobs (`probe`, `finals`, `abandon`, `cancel`, `selects`, `submit`, `newChat`);
between two awaits they run alone. A job is told from a stale one by the generation of
the event stream, by runIdRef, or not at all, as in the code. The server is a set of runs that are live and end.

A Stop is three steps: the server ends the run or does not and reads its row (StopAnswered), the panel shows what was read
(Stopped), and after another request applies it (StopApplied). CancelRoute waits for runs this process tracks
and answers any other as its row is, so the answer may be a live run: after a restart, or when the settlement was refused and
the safety net has not written yet.

Settles: unless the panel is excused, it does not stay busy for ever with a run, however often its stream is lost. EndedStaysEnded: a
run shown as ended is not shown running again. The excuses are `crossed`, a job without a
check took effect on a panel that had moved on (handleSelectThread and submitInstruction attach
without looking at the view; a chat is opened again while a Stop waits; a stale finalize clears the state of another run, which
the comment at document-agent-panel.tsx:286 means to prevent), and `severed`, a Stop or a last
read of a run failed after the stream was closed, and nothing attaches it again. Settles alone excepts `unheeded` too: a Stop
that was answered with a live run leaves the panel busy with its stream closed (document-agent-panel.tsx:1205-1224), though no call has failed,
and only another Stop, once the run has ended, or a change of thread gets it out. A restart followed by a Stop
during the pause before a reconnect is enough. EndedStaysEnded holds there: the Stop has dropped what else followed the run.

Noticed and left out, since the transcript is not modelled: a lost stream makes abandonLiveRun
cancel a run that is alive ("Disconnect does not cancel the run", api.ts:900); a replay repeats narration (agent-progress.ts:89-110).
A refresh of the messages that fails after startAgentRun leaves the run unfollowed (a fault here).
An open stream that a failing query has kept from telling the end (`faults` of AgentRuns), and a repair that fails and yet
announces one, are not in this model.

## Runs

| run | instance | shows |
|---|---|---|
| execution_lease | 4 calls, 2 users, LeaseMs 4, RenewMs 1, MaxSilence 3, clock to 6, 1 restart | the lease implements ExecutionMutex |
| agent_runs | 3 runs of a user, one of them stopped by now, 1 tab, 1 failing query | exclusion, replayable resumable stops, truthful announcements, terminal is final, a run is continued once |
| agent_streams | 1 run, 2 tabs, 2 failing queries, 1 restart, pages that are visited | refinement of RunLifecycle, every stream and every run ends, the lease is freed again and again |
| document_versions | 4 operations of sizes 1, 1, 2, 3, quota 6, 1 failure or restart | rows have objects, draft continues the tip, ledger and store agree, no save is lost |
| turn_loop | a tool of each kind, up to 3 calls a turn, 2 executions of a turn, fuse at 1 | order of the calls, the fuse over a continuation, how a run ends |
| chat_attachments | 2 uploads, a removal, a message, a reader that asks again and again, quota 3, 1 failure or restart | live rows have bytes, ledger and store agree, what was sent stays, every request ends |
| editor_session | 2 edits, 1 run, 1 save of another tab or failing call | no edit is lost, clean is saved, the run reads the edits |
| agent_panel | 2 threads, 2 runs, 1 change of thread, 2 lost streams, 1 reconnect (the code's is 2), 1 failing call | the panel settles but for Stops that fail or are answered with a live run, what ended stays ended |
| thread_context | 2 runs, 2 compactions, a title, grant 3 at 1 a call, up to 5 messages, trigger 3, retain 1, history 2, 1 failing statement | charged once, checkpoints that are true, recent messages known, the latest advances |
| workspace_purge | 2 purges, an upload, an append, a document purge, 2 moves, 1 fault | an active workspace keeps its bytes, a purge leaves nothing and ends |
| working_copy | 2 documents and one to create, 3 turns, 2 changes by the run, 1 by a tab to each document, 1 failing call | handles, reused reads and view are current, no change is lost |
| double_execution | 3 runs of a user, 1 tab, 1 restart | violation: a repair frees the lease of a call that is in `start()` |

Bounds. Four calls of which three are one user's are a first holder, its
successor and a late caller, and the clock passes one whole lease after a takeover.
Two runs that continue a third, with a tab, are the smallest instance with a repair beside a start
and a race to continue. Four operations are two
concurrent saves over a version that a third made and a restore or purge; the
sizes make the quota bite on the last. Three calls in a response are one change, its
successor and a read between or beside them; the
continuation meets what the first turn left (the fuse, the exposed tools), as a second turn of the same execution would.
Two uploads expire each other, and the second does not fit beside the first and its extraction. Two edits are one in a save and
one typed during it. Three turns are a read, a change and the use of what was read; two changes
are a batch, or one before and one after a save. Two runs in two threads are the one followed and the one a stale handler may take for it; one reconnect
that succeeds and one that is refused need two losses. A compaction with trigger 3 and retain 1 covers two messages, and the
second covers more or races with the first. Two purges are one and its retry after the abort; one more operation of
each kind closes every circle of locks. One fault is enough for every single failing
call, and agent_streams allows two, so that the safety net behind a failed settlement fails too; where a bound says "failure or restart", one of either kind happens. editor_session has one run (its second multiplies the states); the
theorems hold for any number, and runs that meet another's preview are in them. What the
bounds leave open for the proved properties, the proofs close. Every property is violated by a mutated definition of the
model under the same bounds (PROJECT.json, mutants; the mutated operators stand
before the ones they replace, marked `mutant`).

Deadlock is not checked (CHECK_DEADLOCK FALSE): operations are finite in number, and a model in which all
have ended stops. The waits that could last for ever are covered by RequestsEnd, PurgesEnd, EveryRunEnds, StreamEnds and Settles.

## Where the code disagrees with its words

One has a run of its own and is a finding in PROJECT.json: double_execution. The
models contain the others too, and the properties except them by name:

- `mistaken` (TerminalIsFinal): updateRunStatus checks the row it read and updates by
  id, so a repair and a run that goes on can both write a terminal state ("Terminal
  states have no outgoing edges.", persistence.ts:137).
- `torn` (RowsHaveObjects): when the commit of an append takes effect and its reply is
  lost, the catch block deletes the object of what now is the latest version ("The
  previous version is unchanged.", execution.ts:656). In WorkspacePurge: an aborted purge leaves
  rows without objects ("Document/version history is retained", service.ts:246).
- `faults` (StreamEnds): one failing query at settlement, and a subscribed tab streams
  for ever, since the safety net announces nothing (run-manager.ts:285, against the comment at :279).
- `raced` (SentAttachmentsStay): an upload's expiry deletes an attachment that a message is
  claiming (chat-attachments/service.ts:531, against schema/chat-attachments.ts:17).
- `late` (StoreMatchesRows of ChatAttachments): an extraction written between a
  removal's deletions and its commit outlives the attachment ("deleted = bytes
  removed", schema/chat-attachments.ts:18).
- `exposed` (NoEditIsLost of EditorSession): what is typed while a refresh of a clean editor is fetched is replaced
  ("Data-loss invariant: callers must only invoke this when dirty human edits are absent", docx-surface.tsx:240).
- "fields" (HandlesAreCurrent): the flush refreshes the fields of the bytes and keeps the handles of the old ones (docx-tools.ts:220, against
  "Fresh host → fresh handle state; handles from the prior binding stay stale.", :252).
- `dropped` (ChargedOnce), `crossed`, `severed` and `unheeded` (Settles): see the modules above.
- FinishedWhole asks nothing of the terminal tool itself: findTerminalText passes over
  one that threw, but one that answered ok: false or was skipped ends the run as
  finish_tool ("called and executed successfully", run.ts:574). In the host the gate
  on finish throws, so this does not show there.

## Fairness

Only liveness runs use it. `WF(Work(r))`, `WF(Serve(t))` of AgentRuns: the event loop runs a
continuation once its reply is there, and database and model replies arrive or fail (the loop is
bounded by MAX_MODEL_TURNS and every provider call has a timeout). `WF(GraceExpires)`,
`WF(ExpireLease)`: a timer fires and a clock goes on. No fairness on requests,
cancellations, faults or restarts. EveryRunEnds also assumes that the page of each run is opened again
and again (`Visits`: SF, since a tab is free only now and then), because nothing else
in the code ends a run that a dead process left behind. A stream that a failing query or a mistaken repair may have
left without its end is closed some day (`LeaveSilent`); every other must end by itself (StreamEnds).

FairSpec of ChatAttachments: each request's own steps, with queries and storage calls that
answer or fail; DropFails is left out of it, so that no failure is counted on to end a wait.
Spec of WorkspacePurge: WF(Step(o)), a statement that can go on does, and WF of some Victim,
Postgres's deadlock detection (deadlock_timeout); none on faults.
FairPanelSpec: WF(Answers), each request is answered or fails, and WF(FollowedRunEnds), a live run
ends while its stream is open; none on runs nobody follows, the user, lost connections or faults. EveryRunEnds of AgentRuns needs
visits of the run's page, since a run that a dead process left is ended only by the repair of whoever opens its stream
(routes/agent.ts:677); a panel with an open stream has made that visit, and one whose stream is lost makes it again when it reconnects.

## Proofs

They hold for every value of the constants that the ASSUMEs of the modules allow. In each the
properties are not inductive, and `IInv` is the conjunction that is (in `Execution_proofs`, which speaks of three
components, `Calm`, `PanelInv` and `LeaseInv`).

The lease (`Execution_proofs`): any users and calls, any clock and number of restarts, all times
with 0 < RenewMs <= MaxSilence < LeaseMs. That a row has not expired does
not say that it will not before the next renewal. `LeaseInv` adds `HolderRows` (the row
of a live holder carries its token and the expiry of its last write) and
`TimersOnTime` (the next attempt comes within MaxSilence of the last success). From
them LiveHolderUnexpired follows by arithmetic, and OneExecutionPerUser because one
row carries one token. Acquire preserves LeaseInv because a free row belongs to no
live holder (FreeMeansNobody); a renewal because only the holder of the row
writes it. Every step then maps to a step of ExecutionMutex or a stutter
(LeaseImplementsMutex).

The turn loop (`Execution_proofs`): any set of tools and all bounds. That the executed changes are a prefix needs that
changes run in the order of the response (`Ordered`), that nothing starts after a failure
(`FailureBlocks`), that reads wait for the changes marked beforeReads and see no other
(`ReadsAfter`, `ReadsFresh`) and that the remaining changes wait for the reads (`ChangesAfter`).
`Order` is their conjunction; `Steps` reduces Next to steps that touch no call, and calls that
start, end or are skipped, and OrderStep has one lemma per kind. `Boundary` (a call is open only in phase
"calls") gives SafeBoundary; `Fused` (the failures of all executions are at most what
the fuses have counted) gives FuseHolds.

`AgentRuns_proofs`: any users, runs, tabs, failing queries and restarts.
The parts of `IInv`: `LeaseHeld` (a live call has the lease unless a repair dropped it), `RowMatches`
(what a call knows of its row), `TabsRepair` (a tab repairs a run nobody works on, or one it
mistook), `Announced`, `Listed` (`created` lists the rows, each once), `Chained` (a run's chain is that of the run it
continues and itself, later in `created`), `Stored`, `Continued` (what is continued could be
replayed and still can) and `NextInTask` (a call past the check for the newest run is the next of its
task). There is a lemma for each part and kind of step, and Next is reduced to what
it does to the rows (RowSteps: one row inserted or none; HistoryKept: terminal rows stay), to the calls (CallSteps) and to
what watchers see (SeenSteps). ContinuedOnce follows from the lease's exclusion and from
NewestIsLast: what continues a task comes after all of it. The refinement needs `Faultless` beside IInv: while
no query has failed, a run is tracked with an open hub until its end is written and announced. Each step then is
one of RunLifecycle or a stutter (RunsImplementLifecycle), with its Fail once a query did fail.

`WorkspacePurge_proofs`: any uploads, appends, purges, moves and faults. The parts: who holds which
lock where and that what it read under it still holds (`Exclusion`, `PurgesLock`, `DocPurgesLock`,
`WritersLock`), that a purge's plan is what the rows say and of it exactly `todo` is still stored (`Plans`), `Uploads`,
`Missing` and `Strays` (a row without object, or an object without row, is one an excused
operation left), `Ledger`. ActiveKeepsItsBytes and PurgeLeavesNothing are read off them.

`ThreadContext_proofs`: any runs and compactions, any Trigger > Retain > 0. A checkpoint can only
be true if no message up to its boundary is committed later. `OneAtATime` and `Overtaken`: a message that waits for its commit is
overtaken by at most one, because the lease admits one run; since Retain > 0 leaves the newest message behind,
no boundary passes one that waits. `TrueCheckpoints`, `BasesKnown`, `Counted` and `PickedWhole` carry this through a
compaction's statements. LatestAdvances follows because the latest checkpoint is the one of the greatest boundary and all are true.

`DocumentVersions_proofs`: any operations, sizes, failures and restarts. The parts beside the properties: `Placed` (rows and
what is to be deleted are of operations that have saved), `Shape` (a draft is no version), `Locked` (a restore or
purge has the lock, and the document is as it read it), `Bases` (a save contains what it was read from, and its object is stored before
its row) and `Sweeps` (what is cleaned up is no row). `RowSteps` reduces Next to steps that keep the rows, commit a save
(`Saves`) or commit a restore or purge (`Drops`). A save that is UpToDate contains the version and the
draft it replaces; from that come DraftContinuesTip, HistoryIsCumulative and NoSaveIsLost.

`ChatAttachments_proofs`: any uploads, removals, messages, readers, failures and restarts. `Locking` (who deletes has the
workspace's row, and its target stays live until it commits), `Claimed` (a row that a message holds is
staged: a deletion waits for it, and an expiry that began before leaves it in `raced`), `Inserts` (nobody but its upload
touches the bytes of a row that is not inserted) and `Delivered` (what a message has been given, or holds, or
has yet to claim). The readers do to the rows nothing at all (`Reads`), which leaves the steps of the others to look at.

The ledger and the store of both, `LedgerInv` in either module, stand on these invariants. A sum over rows
has no induction that the provers can do; a number of cells is a Cardinality, for which the library's theorems of
unions and differences hold (BytesAdd, BytesRemove). `Account`
is the property with the quota: what a transaction releases is a subset of the rows it deletes (`Distinct`: a version is listed
once, so a restore frees each once), what it charges is new. `Tidy` is what StoreMatchesRows leaves out, the middle of an
operation: while nothing failed, an object that is no row's is one an operation is still to put in a row or to
delete, and an object deleted ahead of its row belongs to the one that holds the lock.

In `ThreadContext_proofs` the credit is `Drawn`: the debited units are finitely many and the balance is the grant less
their number. `OneEvent` is why no retry of the accounting debits twice: while a bill has not attempted its
usage it has no event, a recorded event has no debit yet, and there is never a second.

`EditorSession_proofs`: any edits, runs, mishaps. `Kept` are the edits that must not be lost. `Ordered` says which version, draft and
revision numbers precede which, `Seen` that nothing holds an edit before it is typed, `Phases` what may be under way with what;
among them `RunIsStored`: while a run may still save, what is stored is what it read. The rest is
`Safe`. The editor is `Near` when it shows the newest version or has a save `Underway` that becomes the newest. Near,
all that is kept is on screen (`OnScreen`), an export that no edit crossed brings all of it (`Marks`, `Exports`), a
save the server may accept drops nothing from it and, uncrossed, brings everything (`Lands`, `Landed`), and the
counts may then say that nothing is unsaved (`CountsTrue`). Not Near, all that is kept is stored: a reload
begins only so and brings it (`ReloadsSaved`, `ReloadsNewest`), and so does a preview of the run's work (`PreviewsRead`,
`PreviewsSaved`). A run has read it all when it starts, and drops nothing that came since, as it saves only over what it read (`RunsRead`).
So what is stored is replaced by a save that Lands, by the run's, or by another tab's, which keeps it; NoEditIsLost,
CleanIsSaved and RunReadsTheEdits are read off these parts.

`WorkingCopy_proofs`: any documents, turns, changes, failing flushes and saves of tabs. The library has no theorem that
filters a sequence without an operator parameter, so what a content holds is its set of `Places` and their number, and the lemmas
`CountLonger` and `Appending` say what a change adds. The parts: `Placed` and `Selecting` (the session is at a version that exists; a
selection finds nothing unsaved), `Early` and `Untouched` (before the first change the run has left no trace, which is why
a new document or a selected one starts with none of its changes), `Reads` (what may be reused was read from what the
session holds), `Viewed` (a view of the session's revision has the run's changes, in order), `Own` (the run's
changes are in the session, and in the latest version unless the session is dirty) and `Others` (a session that is up to date
with the rows has all that the tabs saved). `Flushing` goes through the ends of a flush once, for the four
actions that contain one; `RowsRight` says that each leaves the rows with everyone's changes: an accepted save
was UpToDate, and one that was not, or whose reply was lost, changes nothing the session relies on. `Rebound` is why no handle
survives a switch of documents. HandlesAreCurrent is inductive with these; the others are read off them.

The panel (`Execution_proofs`): any threads (there is one to show) and runs, any numbers of lost streams, failing calls and page loads. Its
handlers act on what they read before they waited, so `PanelInv` says of each what is still true of it. `Known` and `Opened`:
the runs it names have begun, and one read as ended with the messages of its thread has ended; a run never lives
again (`Ahead`). `Following`: a stream is followed or probed, never both, within the retries (which PanelTypesHold needs for the
counter). `ProbeTrue` and `FinalsTrue`: a probe or a final read that found its run ended is right, and no probe that took the run
for live (`StaleProbe`) waits beside a final read, since what begins one leaves no probe. `Stopping`: while a Stop waits nothing is
followed. `Heard` and `LateLive`: an answer to a Stop that says the run has ended is right, and while one that says it lives is on its way
nothing will show, or has shown, that run as ended. `ShownTrue`: of a run shown as ended no stale probe is current. A probe of an ended run never becomes stale
(`StaleStays`), so no answer can show the run as live (EndedStays), other than of a handler that does
not look (`crossed`).

Only model-checked: liveness (EveryRunEnds, RequestsEnd, Settles and the like), which is out of the prover's reach (fairness, ENABLED).

## What could come next

1. The composition of WorkingCopy with TurnLoop, its calls as the loop's.
2. `ExtractionPool`: two worker slots, shared pending reads, remembered failures.
3. Abstract specifications: a document as a register of cumulative edits, implemented by
   DocumentVersions; an attachment as staged, bound, deleted, implemented by ChatAttachments.
4. EditorSession with a refresh whose look and answer are two steps, composed with AgentPanel.

## Not modelled

Most of the repository's lines are not state that actors share, and the map covers a small
part of them for that reason: the web's rendering, formatting and progress texts; bindings to the native
DOCX engine, which is not in the repository; parsers and text selection (retrieval, style profiles, DOCX and PDF
readers); prompts, tool descriptions and schemas. They are data transformations
whose correctness is in their detail, which a test over inputs reaches and an
interleaving does not.

Credentials, preferences and the model catalog are one row written by one statement. Brand and its assets repeat the put, row and
clean-up of DocumentVersions. Capabilities are a registry and a set that only grows within a run. Auth, email and rate limits are
library configuration and I/O. The extraction pool is named above.
