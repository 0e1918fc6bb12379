--------------------------- MODULE EditorSession ----------------------------
(***************************************************************************)
(* One document open in the web editor                                     *)
(* (apps/web/src/components/documents/surfaces/docx-surface.tsx,           *)
(* lib/editor-save.ts, lib/editor-version-refresh.ts), beside the agent    *)
(* run the user starts on it and the writers of other tabs.                *)
(*                                                                         *)
(* Edits are counted by a revision; a save exports the editor's content,   *)
(* sends it over the version and the draft it was loaded from, and counts  *)
(* the revision it began at as saved.  A newer version and the preview of  *)
(* a run's working copy replace the content of an editor without edits.    *)
(*                                                                         *)
(* Content is the set of the edits it holds; Work stands for what a run    *)
(* writes.  Other tabs add nothing the properties speak of.                *)
(***************************************************************************)
EXTENDS Integers, Sequences

CONSTANTS
    Edits,       \* what the user types, each once
    Work,        \* what the run writes
    None,
    MaxRuns,     \* bound of the runs, for TLC
    MaxMishaps   \* bound of the saves of other tabs and the failing calls

ASSUME EditsAssumption == Work \notin Edits
ASSUME NoneAssumption == None \notin Int /\ None \notin [id : Nat, body : SUBSET (Edits \cup {Work})]
ASSUME BoundsAssumption == {MaxRuns, MaxMishaps} \subseteq Nat

VARIABLES
    (* the server *)
    bodies,      \* content of version 1, 2, ...
    draft,       \* the document_draft row, or None
    drafts,      \* drafts ever stored, the id of the next one
    run,         \* the run on this document, or None
    (* the surface *)
    phase, loaded, latest,   \* loadedVersionId, latestVersionId
    draftId, dirty, conflict,
    tried,       \* lastAutoSaveRevision
    preview,     \* workingPreview is set
    (* createEditorSaveState *)
    revision, savedRevision, versionRevision,
    save,        \* the pending save, or None
    queued,      \* a version save waits for the pending one
    (* the editor library *)
    shown,       \* the content on screen
    baseline, marked,        \* what a selective export is made of
    needsFull,   \* needsFullExportRef
    (* asynchronous work *)
    reload,      \* loadVersion or reloadVersionInPlace, or None
    painting,    \* the preview being fetched and shown, or None
    agent,       \* the panel's run: idle, saving, posting, started, running
    (* bounds and history *)
    foreign, faults,
    runs,        \* runs asked for, the number of the latest
    typed,       \* edits typed so far
    exposed,     \* typed during a reload, or while a run was started
    discarded,   \* given up by the user
    asked        \* edits on screen when the run was asked for

server  == <<bodies, draft, drafts>>
counts  == <<revision, savedRevision, versionRevision>>
library == <<shown, baseline, marked, needsFull>>
surface == <<phase, loaded, latest, draftId, dirty, conflict>>
bounds  == <<foreign, runs, faults>>
lost    == <<exposed, discarded>>
history == <<typed, lost, asked>>
vars == <<server, run, surface, tried, preview, counts, save, queued, library,
          reload, painting, agent, bounds, history>>

Tip == Len(bodies)
DraftId == IF draft = None THEN None ELSE draft.id
Stored == IF draft = None THEN bodies[Tip] ELSE draft.body
Contents == SUBSET (Edits \cup {Work})

Saves == [step : {"export", "sent", "answered"}, mode : {"draft", "version"},
          revision : Nat, body : Contents, base : Nat, baseDraft : Nat \cup {None},
          result : Nat \cup {None}]
Reloads == [kind : {"open", "reload"}, step : {"wait", "fetch", "apply"},
            target : Nat, body : Contents, draftId : Nat \cup {None}]

TypeOK ==
    /\ bodies \in Seq(Contents)
    /\ draft \in [id : Nat, body : Contents] \cup {None}
    /\ drafts \in Nat
    /\ run \in [base : Nat, draftId : Nat \cup {None}, body : Contents] \cup {None}
    /\ phase \in {"loading", "ready", "error"}
    /\ loaded \in Nat /\ latest \in Nat
    /\ draftId \in Nat \cup {None}
    /\ {dirty, conflict, preview, queued, needsFull} \subseteq BOOLEAN
    /\ {revision, savedRevision} \subseteq Nat /\ {tried, versionRevision} \subseteq Int
    /\ save \in Saves \cup {None}
    /\ {shown, baseline, marked} \subseteq Contents
    /\ reload \in Reloads \cup {None}
    /\ painting \in [step : {"fetched", "waiting", "apply"}, run : Nat, base : Nat,
                     body : Contents] \cup {None}
    /\ agent \in {"idle", "saving", "posting", "started", "running"}
    /\ {foreign, runs, faults} \subseteq Nat
    /\ {typed, exposed, discarded, asked} \subseteq SUBSET Edits

Opening(v) == [kind |-> "open", step |-> "fetch", target |-> v, body |-> {}, draftId |-> None]

Init ==
    /\ bodies = <<{}>> /\ draft = None /\ drafts = 0 /\ run = None
    /\ phase = "loading" /\ loaded = 0 /\ latest = 1
    /\ draftId = None /\ dirty = FALSE /\ conflict = FALSE
    /\ tried = -1 /\ preview = FALSE
    /\ revision = 0 /\ savedRevision = 0 /\ versionRevision = 0
    /\ save = None /\ queued = FALSE
    /\ shown = {} /\ baseline = {} /\ marked = {} /\ needsFull = FALSE
    /\ reload = Opening(1) /\ painting = None /\ agent = "idle"
    /\ foreign = 0 /\ runs = 0 /\ faults = 0
    /\ typed = {} /\ exposed = {} /\ discarded = {} /\ asked = {}

May == foreign + faults < MaxMishaps
CountFault == May /\ faults' = faults + 1

-----------------------------------------------------------------------------
(* Typing.                                                                 *)

reloading ==
    \/ reload # None /\ reload.kind = "reload" /\ reload.step # "wait"
    \/ painting # None /\ painting.step = "apply"

Waiting == reload # None /\ reload.step = "wait"
Starting == agent \in {"posting", "started"}

\* A preview that waited for a reload looks again every 50 ms, so that no save
\* can hide an edit from it.
PreviewPolls == painting # None /\ painting.step = "waiting" /\ ~reloading

\* Casual holds the edit; markChanged does not count it during a reload.
Type(e) ==
    /\ phase = "ready" /\ e \notin typed
    /\ typed' = typed \cup {e}
    /\ shown' = shown \cup {e} /\ marked' = marked \cup {e}
    /\ exposed' = IF reloading \/ Waiting \/ Starting THEN exposed \cup {e} ELSE exposed
    /\ IF reloading
         THEN UNCHANGED <<revision, dirty>>
         ELSE revision' = revision + 1 /\ dirty' = TRUE
    /\ painting' = IF PreviewPolls THEN None ELSE painting
    /\ UNCHANGED <<server, run, phase, loaded, latest, draftId, conflict, tried, preview,
                   savedRevision, versionRevision, save, queued, baseline, needsFull,
                   reload, agent, bounds, discarded, asked>>

-----------------------------------------------------------------------------
(* Saving.                                                                 *)

Unsaved == revision # savedRevision      \* saveState.isDirty()
agentRunning == agent = "running"
MaySave == phase = "ready" /\ ~conflict /\ ~agentRunning /\ ~preview

\* The write of saveState.save, up to the export it awaits.  A selective
\* export is the library's baseline and the changes it has marked since.
Writing(mode) ==
    [step |-> "export", mode |-> mode, revision |-> revision,
     body |-> IF needsFull THEN shown ELSE baseline \cup marked,
     base |-> 0, baseDraft |-> None, result |-> None]

Write(mode) ==
    /\ save = None
    /\ IF Unsaved \/ (mode = "version" /\ revision # versionRevision)
         THEN save' = Writing(mode) /\ needsFull' = TRUE /\ UNCHANGED dirty
         ELSE dirty' = FALSE /\ UNCHANGED <<save, needsFull>>

saveUnchanged == <<server, run, phase, loaded, latest, draftId, conflict, preview, counts,
                   shown, baseline, marked, reload, painting, bounds, history>>

\* The timer of the autosave effect, one second after the last edit.
AutoSave ==
    /\ dirty /\ save = None /\ MaySave /\ tried # revision
    /\ tried' = revision
    /\ Write("draft")
    /\ UNCHANGED <<saveUnchanged, queued, agent>>

\* Save in the header, or Cmd+S.
SaveVersion ==
    /\ MaySave
    /\ IF save = None
         THEN Write("version") /\ UNCHANGED queued
         ELSE queued' = TRUE /\ UNCHANGED <<save, needsFull, dirty>>
    /\ UNCHANGED <<saveUnchanged, tried, agent>>

\* A save that fails takes those who wait for it along.
SaveFails ==
    /\ save' = None /\ queued' = FALSE
    /\ dirty' = Unsaved
    /\ agent' = IF agent = "saving" THEN "idle" ELSE agent

Exporting == save # None /\ save.step = "export"

OverlapForgotten == FALSE                                            \* mutant
\* "Casual clears its change markers after export, including overlapping edits."
Overlapped == revision # save.revision

\* The bytes are there; persistBytes sends them over the loaded version, if it
\* is the latest.
Exported ==
    /\ Exporting
    /\ baseline' = save.body /\ marked' = {}
    /\ needsFull' = Overlapped
    /\ IF loaded = latest
         THEN /\ save' = [save EXCEPT !.step = "sent", !.base = loaded, !.baseDraft = draftId]
              /\ UNCHANGED <<queued, dirty, agent>>
         ELSE SaveFails
    /\ UNCHANGED <<server, run, phase, loaded, latest, draftId, conflict, tried, preview,
                   counts, shown, reload, painting, bounds, history>>

\* The export fails, or the check of the fields after it: the marks are gone,
\* and only the failed export is sure to ask for a full one.
ExportFails ==
    /\ Exporting
    /\ CountFault
    /\ marked' = {}
    /\ \E bytes \in BOOLEAN :
         /\ baseline' = IF bytes THEN save.body ELSE baseline
         /\ needsFull' = (bytes => Overlapped)
    /\ SaveFails
    /\ UNCHANGED <<server, run, phase, loaded, latest, draftId, conflict, tried, preview,
                   counts, shown, reload, painting, foreign, runs, history>>

\* saveDraft and appendVersion, each in its transaction on the document's row.
Accepts(base, baseDraft) == base = Tip /\ baseDraft = DraftId

Store(mode, body) ==
    IF mode = "draft"
      THEN /\ drafts' = drafts + 1
           /\ draft' = [id |-> drafts, body |-> body]
           /\ UNCHANGED bodies
      ELSE /\ bodies' = Append(bodies, body)
           /\ draft' = None
           /\ UNCHANGED drafts

ServeSave ==
    /\ save # None /\ save.step = "sent"
    /\ IF Accepts(save.base, save.baseDraft)
         THEN /\ Store(save.mode, save.body)
              /\ save' = [save EXCEPT !.step = "answered",
                                      !.result = IF save.mode = "draft" THEN drafts ELSE Tip + 1]
         ELSE /\ save' = [save EXCEPT !.step = "answered"]
              /\ UNCHANGED server
    /\ UNCHANGED <<run, surface, tried, preview, counts, queued, library, reload,
                   painting, agent, bounds, history>>

\* The request fails before or after it is served.
RequestFails ==
    /\ save # None /\ save.step \in {"sent", "answered"}
    /\ CountFault
    /\ SaveFails
    /\ UNCHANGED <<server, run, phase, loaded, latest, draftId, conflict, tried, preview,
                   counts, library, reload, painting, foreign, runs, history>>

SavedSoFar == revision                                               \* mutant
\* What the save in progress has saved, and the draft it leaves behind it.
SavingRevision == save.revision
NextDraftId == IF save.mode = "draft" THEN save.result ELSE None

\* The end of persistBytes and of saveState.save.  The version that waited is
\* written next, whatever has happened to the guards of save meanwhile.
Saved ==
    /\ save # None /\ save.step = "answered" /\ save.result # None
    /\ savedRevision' = SavingRevision
    /\ draftId' = NextDraftId
    /\ IF save.mode = "draft"
         THEN UNCHANGED <<loaded, latest, conflict, versionRevision>>
         ELSE /\ loaded' = save.result /\ latest' = Tip
              /\ conflict' = FALSE
              /\ versionRevision' = SavingRevision
    /\ dirty' = (revision # savedRevision')
    /\ queued' = FALSE
    /\ IF queued /\ (dirty' \/ revision # versionRevision')
         THEN save' = Writing("version") /\ needsFull' = TRUE
         ELSE save' = None /\ UNCHANGED needsFull
    /\ UNCHANGED <<server, run, phase, tried, preview, revision, shown, baseline, marked,
                   reload, painting, agent, bounds, history>>

\* The refresh after a conflict may fail.
Refused ==
    /\ save # None /\ save.step = "answered" /\ save.result = None
    /\ conflict' = TRUE
    /\ latest' \in {latest, Tip}
    /\ SaveFails
    /\ UNCHANGED <<server, run, phase, loaded, draftId, tried, preview, counts, library,
                   reload, painting, bounds, history>>

-----------------------------------------------------------------------------
(* Loading a version.                                                      *)

DraftMoved == draft # None /\ reload.target = latest /\ reload.target # Tip

\* loadEditorBytes: the draft of the latest version, or the version.  It
\* resets the counts before the editor has the bytes.
Fetch ==
    /\ reload # None /\ reload.step = "fetch"
    /\ ~DraftMoved
    /\ LET id == IF reload.target = latest THEN DraftId ELSE None IN
         /\ reload' = [reload EXCEPT !.step = "apply", !.draftId = id,
                                     !.body = IF id = None THEN bodies[reload.target] ELSE draft.body]
         /\ draftId' = id
         /\ savedRevision' = revision
         /\ versionRevision' = IF id = None THEN revision ELSE revision - 1
    /\ UNCHANGED <<server, run, phase, loaded, latest, dirty, conflict, tried, preview,
                   revision, save, queued, library, painting, agent, bounds, history>>

\* The library does not load while it exports.
Apply ==
    /\ reload # None /\ reload.step = "apply"
    /\ ~Exporting
    /\ phase' = "ready" /\ loaded' = reload.target
    /\ shown' = reload.body /\ baseline' = reload.body /\ marked' = {} /\ needsFull' = FALSE
    /\ dirty' = FALSE /\ conflict' = FALSE
    /\ reload' = None
    /\ UNCHANGED <<server, run, latest, draftId, tried, preview, counts, save, queued,
                   painting, agent, bounds, history>>

\* The draft belongs to another version, or a call fails.
LoadFails ==
    /\ reload # None /\ reload.step # "wait"
    /\ \/ reload.step = "fetch" /\ DraftMoved /\ UNCHANGED faults
       \/ CountFault
    /\ phase' = IF reload.kind = "open" THEN "error" ELSE phase
    /\ reload' = None
    /\ UNCHANGED <<server, run, loaded, latest, draftId, dirty, conflict, tried, preview,
                   counts, save, queued, library, painting, agent, foreign, runs, history>>

loadUnchanged == <<server, run, loaded, latest, draftId, tried, preview, save, queued,
                   painting, agent, bounds, typed, exposed, asked>>

\* Retry, shown when the load failed.
Retry ==
    /\ phase = "error" /\ reload = None
    /\ phase' = "loading" /\ dirty' = FALSE /\ conflict' = FALSE /\ needsFull' = FALSE
    /\ savedRevision' = revision /\ versionRevision' = revision
    /\ reload' = Opening(latest)
    /\ UNCHANGED <<loadUnchanged, revision, shown, baseline, marked, discarded>>

\* reloadVersionInPlace waits while another reload is under way.
Reloading ==
    reload' = [kind |-> "reload", step |-> IF reloading THEN "wait" ELSE "fetch",
               target |-> latest, body |-> {}, draftId |-> None]

RefreshDirty == phase = "ready" /\ loaded # latest /\ ~conflict /\ save = None \* mutant
\* decideEditorVersionRefresh: reload_inplace.
MayRefresh == phase = "ready" /\ loaded # latest /\ ~conflict /\ save = None /\ ~dirty

\* The timer of the auto-refresh effect.
AutoRefresh ==
    /\ MayRefresh /\ reload = None
    /\ Reloading
    /\ UNCHANGED <<loadUnchanged, phase, dirty, conflict, counts, library, discarded>>

\* Reload latest, which the banners of a conflict and of a newer version offer.
DiscardAndReload ==
    /\ phase = "ready" /\ reload = None
    /\ conflict \/ (loaded # latest /\ dirty)
    /\ Reloading
    /\ discarded' = discarded \cup ((typed \cap shown) \ IF save = None THEN Stored ELSE {})
    /\ UNCHANGED <<loadUnchanged, phase, dirty, conflict, counts, library>>

Turn ==
    /\ Waiting /\ ~reloading
    /\ reload' = [reload EXCEPT !.step = "fetch"]
    /\ UNCHANGED <<loadUnchanged, phase, dirty, conflict, counts, library, discarded>>

\* A document read anew: the surface takes its latest version.
News ==
    /\ latest # Tip /\ latest' = Tip
    /\ UNCHANGED <<server, run, phase, loaded, draftId, dirty, conflict, tried, preview,
                   counts, save, queued, library, reload, painting, agent, bounds, history>>

-----------------------------------------------------------------------------
(* The run of the agent panel and its preview.                             *)

clientUnchanged == <<surface, tried, counts, save, queued, library, reload>>

Submit ==
    /\ agent = "idle" /\ runs < MaxRuns
    /\ agent' = "saving" /\ runs' = runs + 1
    /\ asked' = (typed \cap shown) \ (exposed \cup discarded)
    /\ UNCHANGED <<server, run, clientUnchanged, preview, painting, foreign, faults,
                   typed, lost>>

\* beforeAgentSave saves until nothing is unsaved, and waits for a pending save.
BeforeAgentSave ==
    /\ agent = "saving"
    /\ IF ~Unsaved
         THEN agent' = "posting" /\ UNCHANGED <<save, needsFull, dirty>>
         ELSE IF MaySave
           THEN Write("draft") /\ UNCHANGED agent
           ELSE agent' = "idle" /\ UNCHANGED <<save, needsFull, dirty>>
    /\ UNCHANGED <<saveUnchanged, tried, queued>>

\* The server starts the run on the version and the draft it finds.
StartRun ==
    /\ agent = "posting"
    /\ \/ /\ run = None
          /\ run' = [base |-> Tip, draftId |-> DraftId, body |-> Stored]
          /\ agent' = "started"
       \/ agent' = "idle" /\ UNCHANGED run
    /\ UNCHANGED <<server, clientUnchanged, preview, painting, bounds, history>>

Attach ==
    /\ agent = "started" /\ agent' = "running"
    /\ UNCHANGED <<server, run, clientUnchanged, preview, painting, bounds, history>>

\* The run saves its work over what it started from, or fails.
EndRun ==
    /\ run # None /\ agent \in {"started", "running"}
    /\ run' = None
    /\ \/ /\ Accepts(run.base, run.draftId)
          /\ Store("version", run.body \cup {Work})
       \/ UNCHANGED server
    /\ UNCHANGED <<clientUnchanged, preview, painting, agent, bounds, history>>

\* The panel finalizes the run and fetches the document.
RunEnded ==
    /\ agent = "running" /\ run = None
    /\ agent' = "idle" /\ preview' = FALSE
    /\ UNCHANGED <<server, run, clientUnchanged, painting, bounds, history>>

\* working_document.updated, for the version the run started from.
PreviewUpdated ==
    /\ agent = "running" /\ run # None /\ ~preview
    /\ preview' = TRUE
    /\ UNCHANGED <<server, run, clientUnchanged, painting, agent, bounds, history>>

CanApplyWorkingPreview(base) ==
    /\ preview
    /\ phase = "ready" /\ ~dirty /\ save = None /\ ~conflict
    /\ base = loaded /\ base = latest

FetchPreview ==
    /\ painting = None
    /\ run # None /\ CanApplyWorkingPreview(run.base)
    /\ Work \notin shown
    /\ painting' = [step |-> "fetched", run |-> runs, base |-> run.base,
                    body |-> run.body \cup {Work}]
    /\ UNCHANGED <<server, run, clientUnchanged, preview, agent, bounds, history>>

\* The working copy is there: it is looked at all of it again, and at the run.
CheckPreview ==
    /\ painting # None /\ painting.step = "fetched"
    /\ painting' = IF CanApplyWorkingPreview(painting.base) /\ painting.run = runs
                     THEN [painting EXCEPT !.step = IF reloading THEN "waiting" ELSE "apply"]
                     ELSE None
    /\ UNCHANGED <<server, run, clientUnchanged, preview, agent, bounds, history>>

\* After the wait for a reload, dirty and latest are looked at again.
BeginPreview ==
    /\ PreviewPolls
    /\ painting' = IF dirty \/ ~preview \/ latest # painting.base THEN None
                   ELSE [painting EXCEPT !.step = "apply"]
    /\ UNCHANGED <<server, run, clientUnchanged, preview, agent, bounds, history>>

ApplyPreview ==
    /\ painting # None /\ painting.step = "apply"
    /\ ~Exporting
    /\ shown' = painting.body /\ baseline' = painting.body /\ marked' = {}
    /\ dirty' = FALSE
    /\ painting' = None
    /\ UNCHANGED <<server, run, phase, loaded, latest, draftId, conflict, tried, preview,
                   counts, save, queued, needsFull, reload, agent, bounds, history>>

\* Another tab saves what it has loaded.
ForeignSave ==
    /\ May /\ foreign' = foreign + 1
    /\ \E mode \in {"draft", "version"} : Store(mode, Stored)
    /\ UNCHANGED <<run, clientUnchanged, preview, painting, agent, runs, faults, history>>

-----------------------------------------------------------------------------
Next ==
    \/ \E e \in Edits : Type(e)
    \/ AutoSave \/ SaveVersion
    \/ Exported \/ ExportFails \/ ServeSave \/ RequestFails \/ Saved \/ Refused
    \/ Fetch \/ Apply \/ LoadFails \/ Retry
    \/ AutoRefresh \/ DiscardAndReload \/ Turn \/ News
    \/ Submit \/ BeforeAgentSave \/ StartRun \/ Attach \/ EndRun \/ RunEnded
    \/ PreviewUpdated \/ FetchPreview \/ CheckPreview \/ BeginPreview \/ ApplyPreview
    \/ ForeignSave

Spec == Init /\ [][Next]_vars

-----------------------------------------------------------------------------
(* Excepted throughout are edits the user gave up, and those typed while a  *)
(* reload replaced the content (docx-surface.tsx:569) or between the save before a  *)
(* run and the moment the surface learns of the run.                        *)

Kept == typed \ (exposed \cup discarded)

\* An edit is on screen or on the server, whatever reloads, refreshes, previews
\* and saves overlap ("Never overwrite real human dirty edits").
NoEditIsLost == Kept \subseteq shown \cup Stored

\* An editor that shows no unsaved changes has them all on the server: edits
\* made during an export or an upload are not counted as saved.
CleanIsSaved ==
    phase = "ready" /\ ~dirty /\ reload = None => Kept \cap shown \subseteq Stored

\* A run reads every edit that was on screen when the user asked for it.
RunReadsTheEdits == run # None => asked \ discarded \subseteq run.body
=============================================================================
