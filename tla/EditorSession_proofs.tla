------------------------ MODULE EditorSession_proofs -------------------------
(***************************************************************************)
(* What holds of an open document for any number of edits, of runs, and of *)
(* saves of other tabs, however saves, reloads, refreshes and previews     *)
(* overlap: no edit is lost, an editor that shows no unsaved changes has   *)
(* none, and a run reads what was on screen when the user asked for it.    *)
(***************************************************************************)
EXTENDS EditorSession, SequenceTheorems, TLAPS

USE EditsAssumption, NoneAssumption, BoundsAssumption

-----------------------------------------------------------------------------
(* Types.                                                                  *)

ServerTypes ==
    /\ bodies \in Seq(Contents)
    /\ draft \in [id : Nat, body : Contents] \cup {None}
    /\ drafts \in Nat
    /\ run \in [base : Nat, draftId : Nat \cup {None}, body : Contents] \cup {None}

SurfaceTypes ==
    /\ phase \in {"loading", "ready", "error"}
    /\ loaded \in Nat /\ latest \in Nat
    /\ draftId \in Nat \cup {None}
    /\ {dirty, conflict, preview, queued, needsFull} \subseteq BOOLEAN
    /\ revision \in Nat /\ savedRevision \in Nat
    /\ {tried, versionRevision} \subseteq Int

SaveTypes ==
    /\ save \in Saves \cup {None}

ScreenTypes ==
    /\ shown \in Contents /\ baseline \in Contents /\ marked \in Contents

ReloadTypes ==
    /\ reload \in Reloads \cup {None}

PaintingTypes ==
    /\ painting \in [step : {"fetched", "waiting", "apply"}, run : Nat, base : Nat,
                     body : Contents] \cup {None}

AgentTypes ==
    /\ agent \in {"idle", "saving", "posting", "started", "running"}
    /\ {foreign, runs, faults} \subseteq Nat
    /\ {typed, exposed, discarded, asked} \subseteq SUBSET Edits

Versions == loaded =< latest /\ latest =< Tip /\ 1 =< latest

SaveBases ==
    save # None => /\ save.step # "export" => save.base =< latest
                   /\ save.mode = "version" /\ save.result # None => save.result =< Tip

Targets == reload # None => reload.target \in 1 .. latest

RunBases == run # None => run.base =< Tip

Revisions ==
    /\ savedRevision =< revision
    /\ save # None => /\ save.revision =< revision
                      /\ save.step \in {"export", "sent"} => save.result = None

PaintingBases == painting # None => painting.base =< Tip

Numbers ==
    /\ draft # None => draft.id < drafts
    /\ run # None => run.draftId = None \/ run.draftId < drafts
    /\ painting # None => painting.run =< runs

Ordered ==
    Versions /\ SaveBases /\ Targets /\ RunBases /\ PaintingBases /\ Revisions /\ Numbers

LEMMA TypesApart ==
    TypeOK <=> /\ ServerTypes /\ SurfaceTypes /\ SaveTypes /\ ScreenTypes
               /\ ReloadTypes /\ PaintingTypes /\ AgentTypes
BY DEF TypeOK, ServerTypes, SurfaceTypes, SaveTypes, ScreenTypes, ReloadTypes,
       PaintingTypes, AgentTypes

\* What the server has.
LEMMA ServerFacts ==
    ASSUME TypeOK, Ordered
    PROVE  /\ Tip \in Nat /\ Tip >= 1 /\ Tip = Len(bodies)
           /\ \A v \in 1 .. Tip : bodies[v] \in Contents
           /\ Stored \in Contents /\ DraftId \in Nat \cup {None}
<1>1. bodies \in Seq(Contents) /\ latest \in Nat /\ 1 =< latest /\ latest =< Len(bodies)
  BY DEF TypeOK, Ordered, Versions, Tip
<1>2. Len(bodies) \in Nat /\ Len(bodies) >= 1 /\ \A v \in 1 .. Len(bodies) : bodies[v] \in Contents
  BY <1>1, LenProperties
<1> QED  BY <1>2 DEF TypeOK, Tip, Stored, DraftId

LEMMA ReloadFacts ==
    ASSUME TypeOK, Ordered, reload # None
    PROVE  reload \in Reloads /\ reload.target \in 1 .. latest /\ reload.target \in 1 .. Tip
<1>1. latest \in Nat /\ latest =< Tip /\ Tip \in Nat /\ reload.target \in 1 .. latest
  BY ServerFacts DEF TypeOK, Ordered, Versions, Targets
<1> QED  BY <1>1 DEF TypeOK

\* What a write of the server does.
LEMMA StoreSteps ==
    ASSUME TypeOK, Ordered, NEW mode, NEW body \in Contents, Store(mode, body)
    PROVE  /\ bodies' \in Seq(Contents) /\ drafts' \in Nat
           /\ draft' \in [id : Nat, body : Contents] \cup {None}
           /\ Stored' = body
           /\ drafts =< drafts'
           /\ draft' # None => draft'.id < drafts'
           /\ \/ /\ mode = "draft" /\ bodies' = bodies /\ Tip' = Tip
                 /\ draft' # None /\ DraftId' = drafts /\ draft'.body = body
              \/ /\ mode # "draft" /\ bodies' = Append(bodies, body) /\ Tip' = Tip + 1
                 /\ draft' = None /\ DraftId' = None
                 /\ bodies'[Tip + 1] = body /\ \A v \in 1 .. Tip : bodies'[v] = bodies[v]
<1>1. bodies \in Seq(Contents) /\ drafts \in Nat /\ Tip \in Nat /\ Tip >= 1 /\ Tip = Len(bodies)
  BY ServerFacts DEF TypeOK
<1>2. CASE mode = "draft"
  <2>1. /\ drafts' = drafts + 1 /\ draft' = [id |-> drafts, body |-> body]
        /\ bodies' = bodies
    BY <1>2 DEF Store
  <2>2. draft' \in [id : Nat, body : Contents] /\ draft' # None
    BY <1>1, <2>1 DEF Contents
  <2> QED  BY <1>1, <1>2, <2>1, <2>2 DEF Stored, DraftId, Tip
<1>3. CASE mode # "draft"
  <2>1. bodies' = Append(bodies, body) /\ draft' = None /\ drafts' = drafts
    BY <1>3 DEF Store
  <2>2. /\ bodies' \in Seq(Contents) /\ Len(bodies') = Tip + 1 /\ bodies'[Tip + 1] = body
        /\ \A v \in 1 .. Tip : bodies'[v] = bodies[v]
    BY <1>1, <2>1, AppendProperties
  <2>3. Tip' = Tip + 1
    BY <2>2 DEF Tip
  <2> QED  BY <1>1, <1>3, <2>1, <2>2, <2>3 DEF Stored, DraftId
<1> QED  BY <1>2, <1>3

\* The beginning of a save.
LEMMA WritingIsSave ==
    ASSUME TypeOK, NEW mode \in {"draft", "version"}
    PROVE  Writing(mode) \in Saves /\ Writing(mode).mode = mode
           /\ Writing(mode).step = "export" /\ Writing(mode).revision = revision
           /\ Writing(mode).result = None
           /\ Writing(mode).body = IF needsFull THEN shown ELSE baseline \cup marked
<1>1. (IF needsFull THEN shown ELSE baseline \cup marked) \in Contents
  BY DEF TypeOK, Contents
<1>2. revision \in Nat
  BY DEF TypeOK
<1> QED  BY <1>1, <1>2 DEF Writing, Saves

LEMMA WriteSteps ==
    ASSUME NEW mode, Write(mode)
    PROVE  /\ save = None
           /\ \/ save' = Writing(mode) /\ needsFull' = TRUE /\ dirty' = dirty
              \/ revision = savedRevision /\ save' = save /\ needsFull' = needsFull /\ dirty' = FALSE
BY DEF Write, Unsaved

LEMMA ServerTypesStep ==
    ASSUME TypeOK, Ordered, [Next]_vars
    PROVE  ServerTypes'
<1>ServeSave. ASSUME ServeSave PROVE ServerTypes'
  <2>1. save.body \in Contents
    BY <1>ServeSave DEF ServeSave, TypeOK, Saves
  <2>2. run' = run /\ (Store(save.mode, save.body) \/ UNCHANGED server)
    BY <1>ServeSave DEF ServeSave
  <2>3. CASE Store(save.mode, save.body)
    BY <2>1, <2>2, <2>3, StoreSteps DEF TypeOK, ServerTypes
  <2> QED  BY <2>2, <2>3 DEF TypeOK, ServerTypes, server
<1>StartRun. ASSUME StartRun PROVE ServerTypes'
  <2>1. /\ UNCHANGED server
        /\ run' = run \/ run' = [base |-> Tip, draftId |-> DraftId, body |-> Stored]
    BY <1>StartRun DEF StartRun
  <2>2. /\ Tip \in Nat /\ DraftId \in Nat \cup {None} /\ Stored \in Contents
    BY ServerFacts
  <2> QED  BY <2>1, <2>2 DEF TypeOK, ServerTypes, server
<1>EndRun. ASSUME EndRun PROVE ServerTypes'
  <2>1. run.body \cup {Work} \in Contents
    BY <1>EndRun DEF EndRun, TypeOK, Contents
  <2>2. run' = None /\ (Store("version", run.body \cup {Work}) \/ UNCHANGED server)
    BY <1>EndRun DEF EndRun
  <2>3. CASE Store("version", run.body \cup {Work})
    BY <2>1, <2>2, <2>3, StoreSteps DEF TypeOK, ServerTypes
  <2> QED  BY <2>2, <2>3 DEF TypeOK, ServerTypes, server
<1>ForeignSave. ASSUME ForeignSave PROVE ServerTypes'
  <2>1. run' = run /\ \E mode \in {"draft", "version"} : Store(mode, Stored)
    BY <1>ForeignSave DEF ForeignSave
  <2>2. Stored \in Contents
    BY ServerFacts
  <2> QED  BY <2>1, <2>2, StoreSteps DEF TypeOK, ServerTypes
<1>Others. CASE UNCHANGED <<server, run>>
  BY <1>Others DEF TypeOK, ServerTypes, server
<1> QED
  BY <1>ServeSave, <1>StartRun, <1>EndRun, <1>ForeignSave, <1>Others
     DEF Next, vars, server, counts, library, surface, bounds, lost, history, saveUnchanged,
         loadUnchanged, clientUnchanged, Type, AutoSave, SaveVersion, Exported, ExportFails,
         RequestFails, Saved, Refused, Fetch, Apply, LoadFails, Retry, AutoRefresh,
         DiscardAndReload, Turn, News, Submit, BeforeAgentSave, Attach, RunEnded,
         PreviewUpdated, FetchPreview, CheckPreview, BeginPreview, ApplyPreview, Write,
         SaveFails, CountFault

LEMMA SurfaceTypesStep ==
    ASSUME TypeOK, Ordered, [Next]_vars
    PROVE  SurfaceTypes'
<1>Type. ASSUME NEW e \in Edits, Type(e) PROVE SurfaceTypes'
  <2>1. /\ UNCHANGED <<phase, loaded, latest, draftId, conflict, tried, preview, savedRevision,
                       versionRevision, queued, needsFull>>
        /\ revision' \in {revision, revision + 1}
    BY <1>Type DEF Type
  <2>2. dirty' = dirty \/ dirty' = TRUE
    BY <1>Type DEF Type
  <2>3. dirty' \in BOOLEAN
    BY <2>2 DEF TypeOK
  <2> QED  BY <2>1, <2>3 DEF TypeOK, SurfaceTypes
<1>AutoSave. ASSUME AutoSave PROVE SurfaceTypes'
  <2>1. /\ UNCHANGED <<phase, loaded, latest, draftId, conflict, preview, revision, savedRevision,
                       versionRevision, queued>>
        /\ tried' = revision
    BY <1>AutoSave DEF AutoSave, saveUnchanged, counts
  <2>2. dirty' \in BOOLEAN /\ needsFull' \in BOOLEAN
    BY <1>AutoSave, WriteSteps DEF AutoSave, TypeOK
  <2> QED  BY <2>1, <2>2 DEF TypeOK, SurfaceTypes
<1>SaveVersion. ASSUME SaveVersion PROVE SurfaceTypes'
  BY <1>SaveVersion DEF SaveVersion, MaySave, agentRunning, Write, Writing, Unsaved,
     saveUnchanged, TypeOK, SurfaceTypes, Saves, Reloads, counts, surface, server, library,
     history, bounds, lost
<1>Exported. ASSUME Exported PROVE SurfaceTypes'
  BY <1>Exported DEF Exported, Exporting, Overlapped, SaveFails, Unsaved, TypeOK,
     SurfaceTypes, Saves, Reloads, counts, surface, server, library, history, bounds, lost
<1>ExportFails. ASSUME ExportFails PROVE SurfaceTypes'
  BY <1>ExportFails DEF ExportFails, Exporting, Overlapped, SaveFails, Unsaved, CountFault,
     TypeOK, SurfaceTypes, Saves, Reloads, counts, surface, server, library, history, bounds,
     lost
<1>RequestFails. ASSUME RequestFails PROVE SurfaceTypes'
  BY <1>RequestFails DEF RequestFails, SaveFails, Unsaved, CountFault, TypeOK, SurfaceTypes,
     Saves, Reloads, counts, surface, server, library, history, bounds, lost
<1>Saved. ASSUME Saved PROVE SurfaceTypes'
  <2>1. save \in Saves /\ save.result \in Nat
    BY <1>Saved DEF Saved, TypeOK, Saves
  <2>2. /\ savedRevision' = save.revision /\ UNCHANGED <<phase, tried, preview, revision>>
        /\ draftId' \in {None, save.result}
        /\ loaded' \in {loaded, save.result} /\ latest' \in {latest, Tip}
        /\ versionRevision' \in {versionRevision, save.revision}
    BY <1>Saved DEF Saved, SavingRevision, NextDraftId
  <2>3. dirty' \in BOOLEAN /\ conflict' \in BOOLEAN /\ queued' \in BOOLEAN /\ needsFull' \in BOOLEAN
        /\ preview' \in BOOLEAN
    <3>1. conflict' \in BOOLEAN /\ needsFull' \in BOOLEAN
      BY <1>Saved DEF Saved, TypeOK
    <3>2. preview' \in BOOLEAN
      BY <1>Saved DEF Saved, TypeOK
    <3>3. dirty' \in BOOLEAN /\ queued' \in BOOLEAN
      BY <1>Saved DEF Saved
    <3> QED  BY <3>1, <3>2, <3>3
  <2>4. Tip \in Nat
    BY ServerFacts
  <2> QED  BY <2>1, <2>2, <2>3, <2>4 DEF TypeOK, SurfaceTypes, Saves
<1>Refused. ASSUME Refused PROVE SurfaceTypes'
  BY <1>Refused, ServerFacts DEF Refused, SaveFails, Unsaved, TypeOK, SurfaceTypes, Saves,
     Reloads, counts, surface, server, library, history, bounds, lost
<1>Fetch. ASSUME Fetch PROVE SurfaceTypes'
  BY <1>Fetch, ServerFacts DEF Fetch, TypeOK, SurfaceTypes, Saves, Reloads, counts, surface,
     server, library, history, bounds, lost
<1>Apply. ASSUME Apply PROVE SurfaceTypes'
  BY <1>Apply, ServerFacts DEF Apply, TypeOK, SurfaceTypes, Saves, Reloads, counts, surface,
     server, library, history, bounds, lost
<1>LoadFails. ASSUME LoadFails PROVE SurfaceTypes'
  BY <1>LoadFails DEF LoadFails, CountFault, TypeOK, SurfaceTypes, Saves, Reloads, counts,
     surface, server, library, history, bounds, lost
<1>Retry. ASSUME Retry PROVE SurfaceTypes'
  <2>1. /\ UNCHANGED <<loaded, latest, draftId, tried, preview, queued, revision>>
        /\ savedRevision' = revision /\ versionRevision' = revision /\ phase' = "loading"
    BY <1>Retry DEF Retry, loadUnchanged
  <2>2. dirty' \in BOOLEAN /\ conflict' \in BOOLEAN /\ needsFull' \in BOOLEAN
    BY <1>Retry DEF Retry
  <2> QED  BY <2>1, <2>2 DEF TypeOK, SurfaceTypes
<1>News. ASSUME News PROVE SurfaceTypes'
  BY <1>News, ServerFacts DEF News, TypeOK, SurfaceTypes, Saves, Reloads, counts, surface,
     server, library, history, bounds, lost
<1>BeforeAgentSave. ASSUME BeforeAgentSave PROVE SurfaceTypes'
  BY <1>BeforeAgentSave DEF BeforeAgentSave, MaySave, agentRunning, Write, Writing, Unsaved,
     saveUnchanged, TypeOK, SurfaceTypes, Saves, Reloads, counts, surface, server, library,
     history, bounds, lost
<1>RunEnded. ASSUME RunEnded PROVE SurfaceTypes'
  BY <1>RunEnded DEF RunEnded, clientUnchanged, TypeOK, SurfaceTypes, Saves, Reloads, counts,
     surface, server, library, history, bounds, lost
<1>PreviewUpdated. ASSUME PreviewUpdated PROVE SurfaceTypes'
  BY <1>PreviewUpdated DEF PreviewUpdated, clientUnchanged, TypeOK, SurfaceTypes, Saves,
     Reloads, counts, surface, server, library, history, bounds, lost
<1>ApplyPreview. ASSUME ApplyPreview PROVE SurfaceTypes'
  BY <1>ApplyPreview DEF ApplyPreview, TypeOK, SurfaceTypes, Saves, Reloads, counts, surface,
     server, library, history, bounds, lost
<1>Others. CASE UNCHANGED <<phase, loaded, latest, draftId, dirty, conflict, preview, queued,
                            needsFull, tried, counts>>
  BY <1>Others DEF TypeOK, SurfaceTypes, Saves, Reloads, counts, surface, server, library, history, bounds, lost
<1> QED
  BY <1>Type, <1>AutoSave, <1>SaveVersion, <1>Exported, <1>ExportFails, <1>RequestFails,
     <1>Saved, <1>Refused, <1>Fetch, <1>Apply, <1>LoadFails, <1>Retry, <1>News,
     <1>BeforeAgentSave, <1>RunEnded, <1>PreviewUpdated, <1>ApplyPreview, <1>Others
     DEF Next, vars, server, counts, library, surface, bounds, lost, history, saveUnchanged,
         loadUnchanged, clientUnchanged, ServeSave, AutoRefresh, DiscardAndReload, Turn,
         Submit, StartRun, Attach, EndRun, FetchPreview, CheckPreview, BeginPreview,
         ForeignSave, Store

LEMMA SaveTypesStep ==
    ASSUME TypeOK, Ordered, [Next]_vars
    PROVE  SaveTypes'
<1>AutoSave. ASSUME AutoSave PROVE SaveTypes'
  <2>1. save' = save \/ save' = Writing("draft")
    BY <1>AutoSave, WriteSteps DEF AutoSave
  <2> QED  BY <2>1, WritingIsSave DEF TypeOK, SaveTypes
<1>SaveVersion. ASSUME SaveVersion PROVE SaveTypes'
  <2>1. save' = save \/ save' = Writing("version")
    BY <1>SaveVersion, WriteSteps DEF SaveVersion
  <2> QED  BY <2>1, WritingIsSave DEF TypeOK, SaveTypes
<1>Exported. ASSUME Exported PROVE SaveTypes'
  BY <1>Exported DEF Exported, Exporting, Overlapped, SaveFails, Unsaved, TypeOK, SaveTypes,
     Saves, Contents
<1>ExportFails. ASSUME ExportFails PROVE SaveTypes'
  BY <1>ExportFails DEF ExportFails, Exporting, Overlapped, SaveFails, Unsaved, CountFault,
     TypeOK, SaveTypes, Saves, Contents
<1>ServeSave. ASSUME ServeSave PROVE SaveTypes'
  <2>1. drafts \in Nat /\ Tip + 1 \in Nat /\ save \in Saves
    BY <1>ServeSave, ServerFacts DEF ServeSave, TypeOK
  <2>2. \/ save' = [save EXCEPT !.step = "answered"]
        \/ \E n \in {drafts, Tip + 1} : save' = [save EXCEPT !.step = "answered", !.result = n]
    BY <1>ServeSave DEF ServeSave
  <2> QED  BY <2>1, <2>2 DEF SaveTypes, Saves
<1>RequestFails. ASSUME RequestFails PROVE SaveTypes'
  BY <1>RequestFails DEF RequestFails, SaveFails, Unsaved, CountFault, TypeOK, SaveTypes,
     Saves, Contents
<1>Saved. ASSUME Saved PROVE SaveTypes'
  <2>1. save' = None \/ save' = Writing("version")
    BY <1>Saved DEF Saved
  <2> QED  BY <2>1, WritingIsSave DEF TypeOK, SaveTypes
<1>Refused. ASSUME Refused PROVE SaveTypes'
  BY <1>Refused DEF Refused, SaveFails, Unsaved, TypeOK, SaveTypes, Saves, Contents
<1>BeforeAgentSave. ASSUME BeforeAgentSave PROVE SaveTypes'
  <2>1. save' = save \/ save' = Writing("draft")
    BY <1>BeforeAgentSave, WriteSteps DEF BeforeAgentSave
  <2> QED  BY <2>1, WritingIsSave DEF TypeOK, SaveTypes
<1>Others. CASE UNCHANGED <<save>>
  BY <1>Others DEF TypeOK, SaveTypes, Saves, Contents
<1> QED
  BY <1>AutoSave, <1>SaveVersion, <1>Exported, <1>ExportFails, <1>ServeSave, <1>RequestFails,
     <1>Saved, <1>Refused, <1>BeforeAgentSave, <1>Others
     DEF Next, vars, server, counts, library, surface, bounds, lost, history, saveUnchanged,
         loadUnchanged, clientUnchanged, Type, Fetch, Apply, LoadFails, Retry, AutoRefresh,
         DiscardAndReload, Turn, News, Submit, StartRun, Attach, EndRun, RunEnded,
         PreviewUpdated, FetchPreview, CheckPreview, BeginPreview, ApplyPreview, ForeignSave,
         CountFault, Store

LEMMA ScreenTypesStep ==
    ASSUME TypeOK, Ordered, [Next]_vars
    PROVE  ScreenTypes'
<1>Type. ASSUME NEW e \in Edits, Type(e) PROVE ScreenTypes'
  BY <1>Type DEF Type, reloading, Waiting, Starting, PreviewPolls, TypeOK, ScreenTypes,
     Contents, Saves, Reloads, library
<1>Exported. ASSUME Exported PROVE ScreenTypes'
  BY <1>Exported DEF Exported, Exporting, Overlapped, SaveFails, Unsaved, TypeOK,
     ScreenTypes, Contents, Saves, Reloads, library
<1>ExportFails. ASSUME ExportFails PROVE ScreenTypes'
  BY <1>ExportFails DEF ExportFails, Exporting, Overlapped, SaveFails, Unsaved, CountFault,
     TypeOK, ScreenTypes, Contents, Saves, Reloads, library
<1>Apply. ASSUME Apply PROVE ScreenTypes'
  BY <1>Apply DEF Apply, TypeOK, ScreenTypes, Contents, Saves, Reloads, library
<1>ApplyPreview. ASSUME ApplyPreview PROVE ScreenTypes'
  BY <1>ApplyPreview DEF ApplyPreview, TypeOK, ScreenTypes, Contents, Saves, Reloads,
     library
<1>Others. CASE UNCHANGED <<shown, baseline, marked>>
  BY <1>Others DEF TypeOK, ScreenTypes, Contents, Saves, Reloads, library
<1> QED
  BY <1>Type, <1>Exported, <1>ExportFails, <1>Apply, <1>ApplyPreview, <1>Others
     DEF Next, vars, server, counts, library, surface, bounds, lost, history, saveUnchanged,
         loadUnchanged, clientUnchanged, AutoSave, SaveVersion, ServeSave, RequestFails,
         Saved, Refused, Fetch, LoadFails, Retry, AutoRefresh, DiscardAndReload, Turn, News,
         Submit, BeforeAgentSave, StartRun, Attach, EndRun, RunEnded, PreviewUpdated,
         FetchPreview, CheckPreview, BeginPreview, ForeignSave, Write, Store, SaveFails,
         CountFault

LEMMA ReloadTypesStep ==
    ASSUME TypeOK, Ordered, [Next]_vars
    PROVE  ReloadTypes'
<1>Fetch. ASSUME Fetch PROVE ReloadTypes'
  <2>1. reload \in Reloads /\ reload.target \in 1 .. Tip
    BY <1>Fetch, ReloadFacts DEF Fetch
  <2>2. PICK id \in {None, DraftId} :
          reload' = [reload EXCEPT !.step = "apply", !.draftId = id,
                                   !.body = IF id = None THEN bodies[reload.target] ELSE draft.body]
    BY <1>Fetch DEF Fetch
  <2>3. id \in Nat \cup {None} /\ (id # None => draft.body \in Contents)
    BY <2>2, ServerFacts DEF DraftId, TypeOK
  <2>4. (IF id = None THEN bodies[reload.target] ELSE draft.body) \in Contents
    BY <2>1, <2>3, ServerFacts
  <2> QED  BY <2>1, <2>2, <2>3, <2>4 DEF ReloadTypes, Reloads
<1>Apply. ASSUME Apply PROVE ReloadTypes'
  BY <1>Apply DEF Apply, TypeOK, ReloadTypes, Reloads, Contents
<1>LoadFails. ASSUME LoadFails PROVE ReloadTypes'
  BY <1>LoadFails DEF LoadFails, CountFault, TypeOK, ReloadTypes, Reloads, Contents
<1>Retry. ASSUME Retry PROVE ReloadTypes'
  BY <1>Retry DEF Retry, Opening, loadUnchanged, TypeOK, ReloadTypes, Reloads, Contents
<1>AutoRefresh. ASSUME AutoRefresh PROVE ReloadTypes'
  BY <1>AutoRefresh DEF AutoRefresh, MayRefresh, Reloading, loadUnchanged, TypeOK,
     ReloadTypes, Reloads, Contents
<1>DiscardAndReload. ASSUME DiscardAndReload PROVE ReloadTypes'
  BY <1>DiscardAndReload DEF DiscardAndReload, Reloading, loadUnchanged, TypeOK, ReloadTypes,
     Reloads, Contents
<1>Turn. ASSUME Turn PROVE ReloadTypes'
  BY <1>Turn DEF Turn, Waiting, loadUnchanged, TypeOK, ReloadTypes, Reloads, Contents
<1>Others. CASE UNCHANGED <<reload>>
  BY <1>Others DEF TypeOK, ReloadTypes, Reloads, Contents
<1> QED
  BY <1>Fetch, <1>Apply, <1>LoadFails, <1>Retry, <1>AutoRefresh, <1>DiscardAndReload,
     <1>Turn, <1>Others
     DEF Next, vars, server, counts, library, surface, bounds, lost, history, saveUnchanged,
         loadUnchanged, clientUnchanged, Type, AutoSave, SaveVersion, Exported, ExportFails,
         ServeSave, RequestFails, Saved, Refused, News, Submit, BeforeAgentSave, StartRun,
         Attach, EndRun, RunEnded, PreviewUpdated, FetchPreview, CheckPreview, BeginPreview,
         ApplyPreview, ForeignSave, Write, SaveFails, CountFault, Store

LEMMA PaintingTypesStep ==
    ASSUME TypeOK, Ordered, [Next]_vars
    PROVE  PaintingTypes'
<1>Type. ASSUME NEW e \in Edits, Type(e) PROVE PaintingTypes'
  BY <1>Type DEF Type, reloading, Waiting, Starting, PreviewPolls, TypeOK, PaintingTypes,
     Contents
<1>FetchPreview. ASSUME FetchPreview PROVE PaintingTypes'
  BY <1>FetchPreview DEF FetchPreview, CanApplyWorkingPreview, clientUnchanged, TypeOK,
     PaintingTypes, Contents
<1>CheckPreview. ASSUME CheckPreview PROVE PaintingTypes'
  BY <1>CheckPreview DEF CheckPreview, CanApplyWorkingPreview, clientUnchanged, TypeOK,
     PaintingTypes, Contents
<1>BeginPreview. ASSUME BeginPreview PROVE PaintingTypes'
  BY <1>BeginPreview DEF BeginPreview, PreviewPolls, clientUnchanged, TypeOK, PaintingTypes,
     Contents
<1>ApplyPreview. ASSUME ApplyPreview PROVE PaintingTypes'
  BY <1>ApplyPreview DEF ApplyPreview, TypeOK, PaintingTypes, Contents
<1>Others. CASE UNCHANGED <<painting>>
  BY <1>Others DEF TypeOK, PaintingTypes, Contents
<1> QED
  BY <1>Type, <1>FetchPreview, <1>CheckPreview, <1>BeginPreview, <1>ApplyPreview, <1>Others
     DEF Next, vars, server, counts, library, surface, bounds, lost, history, saveUnchanged,
         loadUnchanged, clientUnchanged, AutoSave, SaveVersion, Exported, ExportFails,
         ServeSave, RequestFails, Saved, Refused, Fetch, Apply, LoadFails, Retry,
         AutoRefresh, DiscardAndReload, Turn, News, Submit, BeforeAgentSave, StartRun,
         Attach, EndRun, RunEnded, PreviewUpdated, ForeignSave, Write, SaveFails, CountFault,
         Store

LEMMA AgentTypesStep ==
    ASSUME TypeOK, Ordered, [Next]_vars
    PROVE  AgentTypes'
<1>Type. ASSUME NEW e \in Edits, Type(e) PROVE AgentTypes'
  BY <1>Type DEF Type, reloading, Waiting, Starting, PreviewPolls, TypeOK, AgentTypes,
     bounds, history, lost
<1>Exported. ASSUME Exported PROVE AgentTypes'
  BY <1>Exported DEF Exported, Exporting, Overlapped, SaveFails, Unsaved, TypeOK, AgentTypes,
     bounds, history, lost
<1>ExportFails. ASSUME ExportFails PROVE AgentTypes'
  BY <1>ExportFails DEF ExportFails, Exporting, Overlapped, SaveFails, Unsaved, CountFault,
     TypeOK, AgentTypes, bounds, history, lost
<1>RequestFails. ASSUME RequestFails PROVE AgentTypes'
  BY <1>RequestFails DEF RequestFails, SaveFails, Unsaved, CountFault, TypeOK, AgentTypes,
     bounds, history, lost
<1>Refused. ASSUME Refused PROVE AgentTypes'
  BY <1>Refused DEF Refused, SaveFails, Unsaved, TypeOK, AgentTypes, bounds, history, lost
<1>LoadFails. ASSUME LoadFails PROVE AgentTypes'
  BY <1>LoadFails DEF LoadFails, CountFault, TypeOK, AgentTypes, bounds, history, lost
<1>DiscardAndReload. ASSUME DiscardAndReload PROVE AgentTypes'
  BY <1>DiscardAndReload DEF DiscardAndReload, Reloading, loadUnchanged, TypeOK, AgentTypes,
     bounds, history, lost
<1>Submit. ASSUME Submit PROVE AgentTypes'
  BY <1>Submit DEF Submit, clientUnchanged, TypeOK, AgentTypes, bounds, history, lost
<1>BeforeAgentSave. ASSUME BeforeAgentSave PROVE AgentTypes'
  BY <1>BeforeAgentSave DEF BeforeAgentSave, MaySave, agentRunning, Write, Writing, Unsaved,
     saveUnchanged, TypeOK, AgentTypes, bounds, history, lost
<1>StartRun. ASSUME StartRun PROVE AgentTypes'
  BY <1>StartRun DEF StartRun, clientUnchanged, TypeOK, AgentTypes, bounds, history, lost
<1>Attach. ASSUME Attach PROVE AgentTypes'
  BY <1>Attach DEF Attach, clientUnchanged, TypeOK, AgentTypes, bounds, history, lost
<1>RunEnded. ASSUME RunEnded PROVE AgentTypes'
  BY <1>RunEnded DEF RunEnded, clientUnchanged, TypeOK, AgentTypes, bounds, history, lost
<1>ForeignSave. ASSUME ForeignSave PROVE AgentTypes'
  BY <1>ForeignSave DEF ForeignSave, Store, clientUnchanged, TypeOK, AgentTypes, bounds,
     history, lost
<1>Others. CASE UNCHANGED <<agent, bounds, history>>
  BY <1>Others DEF TypeOK, AgentTypes, bounds, history, lost
<1> QED
  BY <1>Type, <1>Exported, <1>ExportFails, <1>RequestFails, <1>Refused, <1>LoadFails,
     <1>DiscardAndReload, <1>Submit, <1>BeforeAgentSave, <1>StartRun, <1>Attach, <1>RunEnded,
     <1>ForeignSave, <1>Others
     DEF Next, vars, server, counts, library, surface, bounds, lost, history, saveUnchanged,
         loadUnchanged, clientUnchanged, AutoSave, SaveVersion, ServeSave, Saved, Fetch,
         Apply, Retry, AutoRefresh, Turn, News, EndRun, PreviewUpdated, FetchPreview,
         CheckPreview, BeginPreview, ApplyPreview, Write, Store

\* Types are kept.
LEMMA TypesStep ==
    ASSUME TypeOK, Ordered, [Next]_vars
    PROVE  TypeOK'
BY ServerTypesStep, SurfaceTypesStep, SaveTypesStep, ScreenTypesStep, ReloadTypesStep,
   PaintingTypesStep, AgentTypesStep
   DEF TypeOK, ServerTypes, SurfaceTypes, SaveTypes, ScreenTypes, ReloadTypes, PaintingTypes,
       AgentTypes

-----------------------------------------------------------------------------
(* Versions, revisions and numbers only grow.                              *)

\* Who writes to the server.
LEMMA ServerSteps ==
    ASSUME [Next]_vars
    PROVE  \/ UNCHANGED server
           \/ ServeSave /\ Accepts(save.base, save.baseDraft) /\ Store(save.mode, save.body)
           \/ EndRun /\ Accepts(run.base, run.draftId) /\ Store("version", run.body \cup {Work})
           \/ ForeignSave /\ \E mode \in {"draft", "version"} : Store(mode, Stored)
<1>1. CASE ServeSave
  BY <1>1 DEF ServeSave
<1>2. CASE EndRun
  BY <1>2 DEF EndRun
<1>3. CASE ForeignSave
  BY <1>3 DEF ForeignSave
<1>4. CASE UNCHANGED server
  BY <1>4
<1> QED
  BY <1>1, <1>2, <1>3, <1>4
     DEF Next, vars, server, counts, library, surface, bounds, lost, history, saveUnchanged,
         loadUnchanged, clientUnchanged, Type, AutoSave, SaveVersion, Exported, ExportFails,
         RequestFails, Saved, Refused, Fetch, Apply, LoadFails, Retry, AutoRefresh,
         DiscardAndReload, Turn, News, Submit, BeforeAgentSave, StartRun, Attach, RunEnded,
         PreviewUpdated, FetchPreview, CheckPreview, BeginPreview, ApplyPreview, SaveFails,
         CountFault, Write

\* What a step leaves of it.
LEMMA ServerGrows ==
    ASSUME TypeOK, Ordered, [Next]_vars
    PROVE  /\ Tip \in Nat /\ Tip' \in Nat /\ Tip =< Tip' /\ Tip' =< Tip + 1 /\ drafts =< drafts'
           /\ \A v \in 1 .. Tip : bodies'[v] = bodies[v]
<1>1. Tip \in Nat /\ drafts \in Nat
  BY ServerFacts DEF TypeOK
<1>2. CASE UNCHANGED server
  BY <1>1, <1>2 DEF server, Tip
<1>3. CASE ServeSave /\ Accepts(save.base, save.baseDraft) /\ Store(save.mode, save.body)
  <2>1. save.body \in Contents
    BY <1>3 DEF ServeSave, TypeOK, Saves
  <2>2. drafts =< drafts'
    BY <1>3, <2>1, StoreSteps
  <2>3. \/ bodies' = bodies /\ Tip' = Tip
        \/ Tip' = Tip + 1 /\ \A v \in 1 .. Tip : bodies'[v] = bodies[v]
    BY <1>3, <2>1, StoreSteps
  <2> QED  BY <1>1, <2>2, <2>3
<1>4. CASE EndRun /\ Accepts(run.base, run.draftId) /\ Store("version", run.body \cup {Work})
  <2>1. run.body \cup {Work} \in Contents
    BY <1>4 DEF EndRun, TypeOK, Contents
  <2>2. drafts =< drafts'
    BY <1>4, <2>1, StoreSteps
  <2>3. \/ bodies' = bodies /\ Tip' = Tip
        \/ Tip' = Tip + 1 /\ \A v \in 1 .. Tip : bodies'[v] = bodies[v]
    BY <1>4, <2>1, StoreSteps
  <2> QED  BY <1>1, <2>2, <2>3
<1>5. CASE ForeignSave /\ \E mode \in {"draft", "version"} : Store(mode, Stored)
  <2>1. Stored \in Contents
    BY ServerFacts
  <2>2. PICK mode \in {"draft", "version"} : Store(mode, Stored)
    BY <1>5
  <2>3. drafts =< drafts'
    BY <2>1, <2>2, StoreSteps
  <2>4. \/ bodies' = bodies /\ Tip' = Tip
        \/ Tip' = Tip + 1 /\ \A v \in 1 .. Tip : bodies'[v] = bodies[v]
    BY <2>1, <2>2, StoreSteps
  <2> QED  BY <1>1, <2>3, <2>4
<1> QED  BY <1>2, <1>3, <1>4, <1>5, ServerSteps

LEMMA VersionsStep ==
    ASSUME TypeOK, Ordered, [Next]_vars
    PROVE  Versions'
<1>Saved. ASSUME Saved PROVE Versions'
  <2>1. \/ loaded' = loaded /\ latest' = latest
        \/ save.mode = "version" /\ save.result # None /\ loaded' = save.result /\ latest' = Tip
    BY <1>Saved DEF Saved, TypeOK, Saves
  <2>2. save # None /\ loaded \in Nat /\ latest \in Nat /\ (save.result # None => save.result \in Nat)
    BY <1>Saved DEF Saved, TypeOK, Saves
  <2> QED  BY <2>1, <2>2, ServerGrows, ServerFacts DEF Ordered, Versions, SaveBases
<1>Refused. ASSUME Refused PROVE Versions'
  <2>1. loaded' = loaded /\ latest' \in {latest, Tip} /\ loaded \in Nat /\ latest \in Nat
    BY <1>Refused DEF Refused, TypeOK
  <2> QED  BY <2>1, ServerGrows, ServerFacts DEF Ordered, Versions
<1>Apply. ASSUME Apply PROVE Versions'
  <2>1. /\ loaded' = reload.target /\ latest' = latest /\ reload # None /\ reload.target \in Nat
        /\ latest \in Nat
    BY <1>Apply DEF Apply, TypeOK, Reloads
  <2> QED  BY <2>1, ServerGrows DEF Ordered, Versions, Targets
<1>News. ASSUME News PROVE Versions'
  <2>1. loaded' = loaded /\ latest' = Tip /\ loaded \in Nat /\ latest \in Nat
    BY <1>News DEF News, TypeOK
  <2> QED  BY <2>1, ServerGrows, ServerFacts DEF Ordered, Versions
<1>N. loaded \in Nat /\ latest \in Nat /\ Versions
  BY DEF TypeOK, Ordered
<1>Others. CASE UNCHANGED <<loaded, latest>>
  BY <1>Others, <1>N, ServerGrows DEF Versions
<1> QED
  BY <1>Saved, <1>Refused, <1>Apply, <1>News, <1>Others
     DEF Next, vars, server, counts, library, surface, bounds, lost, history, saveUnchanged,
         loadUnchanged, clientUnchanged, Type, AutoSave, SaveVersion, Exported, ExportFails,
         ServeSave, RequestFails, Fetch, LoadFails, Retry, AutoRefresh, DiscardAndReload,
         Turn, Submit, BeforeAgentSave, StartRun, Attach, EndRun, RunEnded, PreviewUpdated,
         FetchPreview, CheckPreview, BeginPreview, ApplyPreview, ForeignSave, Write,
         SaveFails, CountFault, Store

LEMMA LatestGrows ==
    ASSUME TypeOK, Ordered, [Next]_vars
    PROVE  latest =< latest'
<1>Saved. ASSUME Saved PROVE latest =< latest'
  <2>1. latest' \in {latest, Tip} /\ latest \in Nat
    BY <1>Saved DEF Saved, TypeOK
  <2> QED  BY <2>1, ServerFacts DEF Ordered, Versions
<1>Refused. ASSUME Refused PROVE latest =< latest'
  <2>1. latest' \in {latest, Tip} /\ latest \in Nat
    BY <1>Refused DEF Refused, TypeOK
  <2> QED  BY <2>1, ServerFacts DEF Ordered, Versions
<1>News. ASSUME News PROVE latest =< latest'
  <2>1. latest' \in {latest, Tip} /\ latest \in Nat
    BY <1>News DEF News, TypeOK
  <2> QED  BY <2>1, ServerFacts DEF Ordered, Versions
<1>Others. CASE UNCHANGED <<latest>>
  BY <1>Others DEF TypeOK
<1> QED
  BY <1>Saved, <1>Refused, <1>News, <1>Others
     DEF Next, vars, server, counts, library, surface, bounds, lost, history, saveUnchanged,
         loadUnchanged, clientUnchanged, Type, AutoSave, SaveVersion, Exported, ExportFails,
         ServeSave, RequestFails, Fetch, Apply, LoadFails, Retry, AutoRefresh,
         DiscardAndReload, Turn, Submit, BeforeAgentSave, StartRun, Attach, EndRun, RunEnded,
         PreviewUpdated, FetchPreview, CheckPreview, BeginPreview, ApplyPreview, ForeignSave,
         Write, SaveFails, CountFault, Store

\* What becomes of a pending save.
LEMMA SaveSteps ==
    ASSUME TypeOK, [Next]_vars
    PROVE  \/ save' = save
           \/ save' = None
           \/ /\ save' = Writing("draft") \/ save' = Writing("version")
              /\ needsFull' = TRUE /\ UNCHANGED <<bodies, draft, revision, shown>>
           \/ /\ Exported /\ loaded = latest
              /\ save' = [save EXCEPT !.step = "sent", !.base = loaded, !.baseDraft = draftId]
           \/ /\ ServeSave /\ Accepts(save.base, save.baseDraft) /\ Store(save.mode, save.body)
              /\ save' = [save EXCEPT !.step = "answered",
                                      !.result = IF save.mode = "draft" THEN drafts ELSE Tip + 1]
           \/ ServeSave /\ UNCHANGED server /\ save' = [save EXCEPT !.step = "answered"]
<1> USE DEF server, counts, saveUnchanged
<1>AutoSave. CASE AutoSave
  BY <1>AutoSave, WriteSteps DEF AutoSave
<1>SaveVersion. CASE SaveVersion
  BY <1>SaveVersion, WriteSteps DEF SaveVersion
<1>BeforeAgentSave. CASE BeforeAgentSave
  BY <1>BeforeAgentSave, WriteSteps DEF BeforeAgentSave
<1>Exported. CASE Exported
  BY <1>Exported DEF Exported, SaveFails
<1>ExportFails. CASE ExportFails
  BY <1>ExportFails DEF ExportFails, SaveFails
<1>ServeSave. CASE ServeSave
  BY <1>ServeSave DEF ServeSave
<1>RequestFails. CASE RequestFails
  BY <1>RequestFails DEF RequestFails, SaveFails
<1>Saved. CASE Saved
  BY <1>Saved DEF Saved
<1>Refused. CASE Refused
  BY <1>Refused DEF Refused, SaveFails
<1>Others. CASE UNCHANGED save
  BY <1>Others
<1> QED
  BY <1>AutoSave, <1>SaveVersion, <1>Exported, <1>ExportFails, <1>ServeSave, <1>RequestFails,
     <1>Saved, <1>Refused, <1>BeforeAgentSave, <1>Others
     DEF Next, vars, server, counts, library, surface, bounds, lost, history, saveUnchanged,
         loadUnchanged, clientUnchanged, Type, Fetch, Apply, LoadFails, Retry, AutoRefresh,
         DiscardAndReload, Turn, News, Submit, StartRun, Attach, EndRun, RunEnded,
         PreviewUpdated, FetchPreview, CheckPreview, BeginPreview, ApplyPreview, ForeignSave,
         CountFault

LEMMA TargetsStep ==
    ASSUME TypeOK, Ordered, [Next]_vars
    PROVE  Targets'
<1>T. /\ latest \in Nat /\ latest' \in Nat /\ 1 =< latest /\ latest =< latest' /\ Targets
      /\ reload # None => reload.target \in Nat
  BY LatestGrows, TypesStep DEF TypeOK, Ordered, Versions, Reloads
<1>Fetch. ASSUME Fetch PROVE Targets'
  <2>1. reload # None /\ reload \in Reloads /\ reload'.target = reload.target
    BY <1>Fetch DEF Fetch, TypeOK, Reloads
  <2> QED  BY <1>T, <2>1 DEF Targets, Reloads
<1>Turn. ASSUME Turn PROVE Targets'
  <2>1. reload # None /\ reload \in Reloads /\ reload'.target = reload.target
    BY <1>Turn DEF Turn, Waiting, TypeOK, Reloads
  <2> QED  BY <1>T, <2>1 DEF Targets, Reloads
<1>Retry. ASSUME Retry PROVE Targets'
  BY <1>Retry, <1>T DEF Retry, Opening, loadUnchanged, Targets
<1>AutoRefresh. ASSUME AutoRefresh PROVE Targets'
  BY <1>AutoRefresh, <1>T DEF AutoRefresh, MayRefresh, Reloading, loadUnchanged, Targets
<1>DiscardAndReload. ASSUME DiscardAndReload PROVE Targets'
  BY <1>DiscardAndReload, <1>T DEF DiscardAndReload, Reloading, loadUnchanged, Targets
<1>Apply. ASSUME Apply PROVE Targets'
  BY <1>Apply DEF Apply, Targets
<1>LoadFails. ASSUME LoadFails PROVE Targets'
  BY <1>LoadFails DEF LoadFails, CountFault, Targets
<1>Others. CASE UNCHANGED <<reload>>
  BY <1>Others, <1>T DEF Targets
<1> QED
  BY <1>Fetch, <1>Turn, <1>Retry, <1>AutoRefresh, <1>DiscardAndReload, <1>Apply,
     <1>LoadFails, <1>Others
     DEF Next, vars, server, counts, library, surface, bounds, lost, history, saveUnchanged,
         loadUnchanged, clientUnchanged, Type, AutoSave, SaveVersion, Exported, ExportFails,
         ServeSave, RequestFails, Saved, Refused, News, Submit, BeforeAgentSave, StartRun,
         Attach, EndRun, RunEnded, PreviewUpdated, FetchPreview, CheckPreview, BeginPreview,
         ApplyPreview, ForeignSave, Write, SaveFails, CountFault, Store

LEMMA RunBasesStep ==
    ASSUME TypeOK, Ordered, [Next]_vars
    PROVE  RunBases'
<1>StartRun. ASSUME StartRun PROVE RunBases'
  BY <1>StartRun, ServerGrows DEF StartRun, clientUnchanged, TypeOK, Ordered, RunBases
<1>EndRun. ASSUME EndRun PROVE RunBases'
  BY <1>EndRun, ServerGrows DEF EndRun, Store, clientUnchanged, TypeOK, Ordered, RunBases
<1>Others. CASE UNCHANGED <<run>>
  BY <1>Others, ServerGrows DEF TypeOK, Ordered, RunBases
<1> QED
  BY <1>StartRun, <1>EndRun, <1>Others
     DEF Next, vars, server, counts, library, surface, bounds, lost, history, saveUnchanged,
         loadUnchanged, clientUnchanged, Type, AutoSave, SaveVersion, Exported, ExportFails,
         ServeSave, RequestFails, Saved, Refused, Fetch, Apply, LoadFails, Retry,
         AutoRefresh, DiscardAndReload, Turn, News, Submit, BeforeAgentSave, Attach,
         RunEnded, PreviewUpdated, FetchPreview, CheckPreview, BeginPreview, ApplyPreview,
         ForeignSave, Write, SaveFails, CountFault, Store

LEMMA PaintingBasesStep ==
    ASSUME TypeOK, Ordered, [Next]_vars
    PROVE  PaintingBases'
<1>T. /\ Tip \in Nat /\ Tip' \in Nat /\ Tip =< Tip' /\ PaintingBases
      /\ run # None => run.base \in Nat /\ run.base =< Tip
      /\ painting # None => painting \in [step : {"fetched", "waiting", "apply"}, run : Nat, base : Nat,
                                          body : Contents]
  BY ServerGrows DEF TypeOK, Ordered, RunBases
<1>Type. ASSUME NEW e \in Edits, Type(e) PROVE PaintingBases'
  BY <1>Type, <1>T DEF Type, reloading, Waiting, Starting, PreviewPolls, PaintingBases
<1>FetchPreview. ASSUME FetchPreview PROVE PaintingBases'
  BY <1>FetchPreview, <1>T DEF FetchPreview, CanApplyWorkingPreview, clientUnchanged,
     PaintingBases
<1>CheckPreview. ASSUME CheckPreview PROVE PaintingBases'
  BY <1>CheckPreview, <1>T DEF CheckPreview, CanApplyWorkingPreview, clientUnchanged,
     PaintingBases
<1>BeginPreview. ASSUME BeginPreview PROVE PaintingBases'
  BY <1>BeginPreview, <1>T DEF BeginPreview, PreviewPolls, clientUnchanged, PaintingBases
<1>ApplyPreview. ASSUME ApplyPreview PROVE PaintingBases'
  BY <1>ApplyPreview, <1>T DEF ApplyPreview, PaintingBases
<1>Others. CASE UNCHANGED <<painting>>
  BY <1>Others, <1>T DEF PaintingBases
<1> QED
  BY <1>Type, <1>FetchPreview, <1>CheckPreview, <1>BeginPreview, <1>ApplyPreview, <1>Others
     DEF Next, vars, server, counts, library, surface, bounds, lost, history, saveUnchanged,
         loadUnchanged, clientUnchanged, AutoSave, SaveVersion, Exported, ExportFails,
         ServeSave, RequestFails, Saved, Refused, Fetch, Apply, LoadFails, Retry,
         AutoRefresh, DiscardAndReload, Turn, News, Submit, BeforeAgentSave, StartRun,
         Attach, EndRun, RunEnded, PreviewUpdated, ForeignSave, Write, SaveFails, CountFault,
         Store

LEMMA SaveBasesStep ==
    ASSUME TypeOK, Ordered, [Next]_vars
    PROVE  SaveBases'
<1>1. /\ Tip \in Nat /\ Tip' \in Nat /\ Tip =< Tip' /\ latest \in Nat /\ latest' \in Nat
      /\ latest =< latest' /\ SaveBases /\ loaded \in Nat
      /\ save # None => save \in Saves /\ save.base \in Nat /\ save.result \in Nat \cup {None}
  BY ServerGrows, LatestGrows, TypesStep DEF TypeOK, Ordered, Saves
<1>2. CASE save' = save
  BY <1>1, <1>2 DEF SaveBases
<1>3. CASE save' = None
  BY <1>3 DEF SaveBases
<1>4. CASE save' = Writing("draft") \/ save' = Writing("version")
  BY <1>4 DEF SaveBases, Writing
<1>5. CASE Exported /\ loaded = latest
           /\ save' = [save EXCEPT !.step = "sent", !.base = loaded, !.baseDraft = draftId]
  <2>1. save \in Saves /\ save # None /\ save.step = "export"
    BY <1>1, <1>5 DEF Exported, Exporting
  <2>2. save'.base = latest /\ save'.result = save.result
    BY <1>5, <2>1 DEF Saves
  <2>3. save.result = None
    BY <2>1 DEF Ordered, Revisions
  <2> QED  BY <1>1, <2>2, <2>3 DEF SaveBases
<1>6. CASE ServeSave /\ Accepts(save.base, save.baseDraft) /\ Store(save.mode, save.body)
           /\ save' = [save EXCEPT !.step = "answered",
                                   !.result = IF save.mode = "draft" THEN drafts ELSE Tip + 1]
  <2>1. save \in Saves /\ save # None /\ save.step = "sent" /\ save.body \in Contents
    BY <1>1, <1>6 DEF ServeSave, Saves
  <2>2. /\ save'.base = save.base /\ save'.mode = save.mode
        /\ save.mode = "version" => save'.result = Tip + 1
    BY <1>6, <2>1 DEF Saves
  <2>3. save.mode = "version" => Tip' = Tip + 1
    BY ONLY TypeOK, Ordered, <1>6, <2>1, StoreSteps
  <2> QED  BY <1>1, <2>1, <2>2, <2>3 DEF SaveBases
<1>7. CASE ServeSave /\ UNCHANGED server /\ save' = [save EXCEPT !.step = "answered"]
  <2>1. save \in Saves /\ save # None /\ save.step = "sent"
    BY <1>1, <1>7 DEF ServeSave, Saves
  <2>2. /\ save'.base = save.base /\ save'.mode = save.mode /\ save'.result = save.result
    BY <1>7, <2>1 DEF Saves
  <2> QED  BY <1>1, <2>1, <2>2 DEF SaveBases
<1> QED  BY <1>2, <1>3, <1>4, <1>5, <1>6, <1>7, SaveSteps

LEMMA RevisionsStep ==
    ASSUME TypeOK, Ordered, [Next]_vars
    PROVE  Revisions'
<1>AutoSave. ASSUME AutoSave PROVE Revisions'
  <2>1. /\ UNCHANGED <<revision, savedRevision>>
        /\ save' = save \/ save' = Writing("draft") \/ save' = Writing("version")
    BY <1>AutoSave, WriteSteps DEF AutoSave, saveUnchanged, counts
  <2> QED  BY <2>1, WritingIsSave DEF TypeOK, Ordered, Revisions, Saves
<1>SaveVersion. ASSUME SaveVersion PROVE Revisions'
  <2>1. /\ UNCHANGED <<revision, savedRevision>>
        /\ save' = save \/ save' = Writing("draft") \/ save' = Writing("version")
    BY <1>SaveVersion, WriteSteps DEF SaveVersion, saveUnchanged, counts
  <2> QED  BY <2>1, WritingIsSave DEF TypeOK, Ordered, Revisions, Saves
<1>Exported. ASSUME Exported PROVE Revisions'
  BY <1>Exported DEF Exported, Exporting, Overlapped, SaveFails, Unsaved, TypeOK, Ordered,
     Revisions, Saves, counts
<1>ExportFails. ASSUME ExportFails PROVE Revisions'
  BY <1>ExportFails DEF ExportFails, Exporting, Overlapped, SaveFails, Unsaved, CountFault,
     TypeOK, Ordered, Revisions, Saves, counts
<1>ServeSave. ASSUME ServeSave PROVE Revisions'
  BY <1>ServeSave DEF ServeSave, Store, TypeOK, Ordered, Revisions, Saves, counts
<1>RequestFails. ASSUME RequestFails PROVE Revisions'
  BY <1>RequestFails DEF RequestFails, SaveFails, Unsaved, CountFault, TypeOK, Ordered,
     Revisions, Saves, counts
<1>Saved. ASSUME Saved PROVE Revisions'
  BY <1>Saved DEF Saved, SavingRevision, NextDraftId, Writing, TypeOK, Ordered, Revisions,
     Saves, counts
<1>Refused. ASSUME Refused PROVE Revisions'
  BY <1>Refused DEF Refused, SaveFails, Unsaved, TypeOK, Ordered, Revisions, Saves, counts
<1>BeforeAgentSave. ASSUME BeforeAgentSave PROVE Revisions'
  <2>1. /\ UNCHANGED <<revision, savedRevision>>
        /\ save' = save \/ save' = Writing("draft") \/ save' = Writing("version")
    BY <1>BeforeAgentSave, WriteSteps DEF BeforeAgentSave, saveUnchanged, counts
  <2> QED  BY <2>1, WritingIsSave DEF TypeOK, Ordered, Revisions, Saves
<1>Type. ASSUME NEW e \in Edits, Type(e) PROVE Revisions'
  BY <1>Type DEF Type, reloading, Waiting, Starting, PreviewPolls, TypeOK, Ordered,
     Revisions, Saves, counts
<1>Fetch. ASSUME Fetch PROVE Revisions'
  BY <1>Fetch DEF Fetch, TypeOK, Ordered, Revisions, Saves, counts
<1>Retry. ASSUME Retry PROVE Revisions'
  BY <1>Retry DEF Retry, Opening, loadUnchanged, TypeOK, Ordered, Revisions, Saves, counts
<1>Others. CASE UNCHANGED <<revision, savedRevision, save>>
  BY <1>Others DEF TypeOK, Ordered, Revisions, Saves, counts
<1> QED
  BY <1>AutoSave, <1>SaveVersion, <1>Exported, <1>ExportFails, <1>ServeSave, <1>RequestFails,
     <1>Saved, <1>Refused, <1>BeforeAgentSave, <1>Type, <1>Fetch, <1>Retry, <1>Others
     DEF Next, vars, server, counts, library, surface, bounds, lost, history, saveUnchanged,
         loadUnchanged, clientUnchanged, Apply, LoadFails, AutoRefresh, DiscardAndReload,
         Turn, News, Submit, StartRun, Attach, EndRun, RunEnded, PreviewUpdated,
         FetchPreview, CheckPreview, BeginPreview, ApplyPreview, ForeignSave, CountFault,
         Store

LEMMA NumbersStep ==
    ASSUME TypeOK, Ordered, [Next]_vars
    PROVE  Numbers'
<1>1. /\ drafts \in Nat /\ drafts' \in Nat /\ drafts =< drafts' /\ runs \in Nat /\ runs' \in Nat
      /\ draft # None => draft.id \in Nat /\ draft.id < drafts
      /\ run # None => run.draftId \in Nat \cup {None} /\ (run.draftId = None \/ run.draftId < drafts)
      /\ painting # None => painting.run \in Nat /\ painting.run =< runs
  BY ServerGrows, TypesStep DEF TypeOK, Ordered, Numbers
<1>2. draft' # None => draft'.id < drafts'
  <2>1. CASE UNCHANGED server
    BY <1>1, <2>1 DEF server
  <2>2. CASE \E mode : \E body \in Contents : Store(mode, body)
    <3>1. PICK mode : \E body \in Contents : Store(mode, body)
      BY <2>2
    <3>2. PICK body \in Contents : Store(mode, body)
      BY <3>1
    <3> QED  BY <3>2, StoreSteps
  <2>3. \/ UNCHANGED server
        \/ \E mode : \E body \in Contents : Store(mode, body)
    <3>1. ServeSave => save.body \in Contents
      BY DEF ServeSave, TypeOK, Saves
    <3>2. EndRun => run.body \cup {Work} \in Contents
      BY DEF EndRun, TypeOK, Contents
    <3>3. Stored \in Contents
      BY ServerFacts
    <3> QED  BY ONLY ServerSteps, <3>1, <3>2, <3>3, [Next]_vars
  <2> QED  BY <2>1, <2>2, <2>3
<1>3. run' # None => run'.draftId = None \/ run'.draftId < drafts'
  <2>1. CASE UNCHANGED run
    BY <1>1, <2>1
  <2>2. CASE run' = None
    BY <2>2
  <2>3. CASE run' = [base |-> Tip, draftId |-> DraftId, body |-> Stored]
    BY <1>1, <2>3 DEF DraftId
  <2> QED
    BY <2>1, <2>2, <2>3 DEF Next, vars, server, counts, library, surface, bounds, lost, history, saveUnchanged,
      loadUnchanged, clientUnchanged, Type, AutoSave, SaveVersion, Exported, ExportFails,
      ServeSave, RequestFails, Saved, Refused, Fetch, Apply, LoadFails, Retry,
      AutoRefresh, DiscardAndReload, Turn, News, Submit, BeforeAgentSave, StartRun,
      Attach, EndRun, RunEnded, PreviewUpdated, FetchPreview, CheckPreview, BeginPreview,
      ApplyPreview, ForeignSave, SaveFails, CountFault, Write, Store
<1>4. runs =< runs'
  <2>1. CASE Submit
    BY <1>1, <2>1 DEF Submit
  <2>2. CASE UNCHANGED runs
    BY <1>1, <2>2
  <2> QED
    BY <2>1, <2>2 DEF Next, vars, server, counts, library, surface, bounds, lost, history, saveUnchanged,
      loadUnchanged, clientUnchanged, Type, AutoSave, SaveVersion, Exported, ExportFails,
      ServeSave, RequestFails, Saved, Refused, Fetch, Apply, LoadFails, Retry,
      AutoRefresh, DiscardAndReload, Turn, News, BeforeAgentSave, StartRun, Attach,
      EndRun, RunEnded, PreviewUpdated, FetchPreview, CheckPreview, BeginPreview,
      ApplyPreview, ForeignSave, SaveFails, CountFault, Write, Store
<1>5. painting' # None => painting'.run =< runs'
  <2>1. CASE UNCHANGED painting
    BY <1>1, <1>4, <2>1
  <2>2. CASE painting' = None
    BY <2>2
  <2>3. CASE painting # None /\ \E s : painting' = [painting EXCEPT !.step = s]
    <3>1. painting'.run = painting.run
      BY <2>3 DEF TypeOK
    <3> QED  BY <1>1, <1>4, <2>3, <3>1
  <2>4. CASE FetchPreview
    BY <1>1, <1>4, <2>4 DEF FetchPreview
  <2> QED
    BY <2>1, <2>2, <2>3, <2>4 DEF PreviewPolls, Next, vars, server, counts, library, surface, bounds, lost, history, saveUnchanged,
      loadUnchanged, clientUnchanged, Type, AutoSave, SaveVersion, Exported, ExportFails,
      ServeSave, RequestFails, Saved, Refused, Fetch, Apply, LoadFails, Retry,
      AutoRefresh, DiscardAndReload, Turn, News, Submit, BeforeAgentSave, StartRun,
      Attach, EndRun, RunEnded, PreviewUpdated, CheckPreview, BeginPreview, ApplyPreview,
      ForeignSave, SaveFails, CountFault, Write, Store
<1> QED  BY <1>2, <1>3, <1>5 DEF Numbers

\* The order is kept.
LEMMA OrderedStep ==
    ASSUME TypeOK, Ordered, [Next]_vars
    PROVE  Ordered'
BY VersionsStep, SaveBasesStep, TargetsStep, RunBasesStep, PaintingBasesStep, RevisionsStep,
   NumbersStep
   DEF Ordered

-----------------------------------------------------------------------------
(* Nothing is seen before it is typed.                                      *)

Known == typed \cup {Work}

SeenServer ==
    /\ \A v \in 1 .. Tip : bodies[v] \subseteq Known
    /\ draft # None => draft.body \subseteq Known

SeenRun == run # None => run.body \subseteq Known
SeenSave == save # None => save.body \subseteq Known
SeenReload == reload # None => reload.body \subseteq Known
SeenPainting == painting # None => painting.body \subseteq Known
SeenScreen == shown \subseteq Known /\ baseline \subseteq Known /\ marked \subseteq Known
SeenAsked == asked \subseteq typed \ exposed

Seen ==
    /\ SeenServer /\ SeenRun /\ SeenSave /\ SeenReload /\ SeenPainting /\ SeenScreen /\ SeenAsked

LEMMA KnownGrows ==
    ASSUME [Next]_vars
    PROVE  Known \subseteq Known'
<1>Type. ASSUME NEW e \in Edits, Type(e) PROVE Known \subseteq Known'
  BY <1>Type DEF Type, Known
<1>Others. CASE UNCHANGED typed
  BY <1>Others DEF Known
<1> QED
  BY <1>Type, <1>Others
     DEF Next, vars, server, counts, library, surface, bounds, lost, history, saveUnchanged,
         loadUnchanged, clientUnchanged, AutoSave, SaveVersion, Exported, ExportFails,
         ServeSave, RequestFails, Saved, Refused, Fetch, Apply, LoadFails, Retry,
         AutoRefresh, DiscardAndReload, Turn, News, Submit, BeforeAgentSave, StartRun,
         Attach, EndRun, RunEnded, PreviewUpdated, FetchPreview, CheckPreview, BeginPreview,
         ApplyPreview, ForeignSave, Write, SaveFails, CountFault, Store

LEMMA SeenStored ==
    ASSUME TypeOK, Ordered, Seen
    PROVE  Stored \subseteq Known
BY ServerFacts DEF Seen, SeenServer, Stored

LEMMA SeenServerStep ==
    ASSUME TypeOK, Ordered, Seen, [Next]_vars
    PROVE  SeenServer'
<1>1. Known \subseteq Known' /\ Tip \in Nat /\ SeenServer
  BY KnownGrows, ServerFacts DEF Seen
<1>2. CASE UNCHANGED server
  BY <1>1, <1>2 DEF server, Tip, SeenServer
<1>3. ASSUME NEW mode, NEW body \in Contents, Store(mode, body), body \subseteq Known
      PROVE  SeenServer'
  <2>1. draft' # None => draft'.body \subseteq Known'
    BY <1>1, <1>3, StoreSteps
  <2>2. CASE bodies' = bodies /\ Tip' = Tip
    BY <1>1, <2>1, <2>2 DEF SeenServer
  <2>3. CASE /\ Tip' = Tip + 1 /\ bodies'[Tip + 1] = body
             /\ \A v \in 1 .. Tip : bodies'[v] = bodies[v]
    <3>1. ASSUME NEW v \in 1 .. Tip'
          PROVE  bodies'[v] \subseteq Known'
      <4>1. CASE v = Tip + 1
        BY <1>1, <1>3, <2>3, <4>1
      <4>2. CASE v # Tip + 1
        <5>1. v \in 1 .. Tip
          BY <1>1, <2>3, <4>2
        <5> QED  BY <1>1, <2>3, <5>1 DEF SeenServer
      <4> QED  BY <4>1, <4>2
    <3> QED  BY <2>1, <3>1 DEF SeenServer
  <2> QED  BY <1>3, <2>2, <2>3, StoreSteps
<1>4. CASE ServeSave /\ Store(save.mode, save.body)
  BY <1>3, <1>4 DEF ServeSave, TypeOK, Saves, Seen, SeenSave
<1>5. CASE EndRun /\ Store("version", run.body \cup {Work})
  BY <1>3, <1>5 DEF EndRun, TypeOK, Contents, Seen, SeenRun, Known
<1>6. CASE ForeignSave /\ \E mode \in {"draft", "version"} : Store(mode, Stored)
  BY <1>3, <1>6, ServerFacts, SeenStored
<1> QED  BY <1>2, <1>4, <1>5, <1>6, ServerSteps

LEMMA SeenRunStep ==
    ASSUME TypeOK, Ordered, Seen, [Next]_vars
    PROVE  SeenRun'
<1>StartRun. ASSUME StartRun PROVE SeenRun'
  BY <1>StartRun, KnownGrows, SeenStored DEF StartRun, clientUnchanged, Seen, SeenRun
<1>EndRun. ASSUME EndRun PROVE SeenRun'
  BY <1>EndRun DEF EndRun, Store, clientUnchanged, Seen, SeenRun
<1>Others. CASE UNCHANGED <<run>>
  BY <1>Others, KnownGrows DEF Seen, SeenRun
<1> QED
  BY <1>StartRun, <1>EndRun, <1>Others
     DEF Next, vars, server, counts, library, surface, bounds, lost, history, saveUnchanged,
         loadUnchanged, clientUnchanged, Type, AutoSave, SaveVersion, Exported, ExportFails,
         ServeSave, RequestFails, Saved, Refused, Fetch, Apply, LoadFails, Retry,
         AutoRefresh, DiscardAndReload, Turn, News, Submit, BeforeAgentSave, Attach,
         RunEnded, PreviewUpdated, FetchPreview, CheckPreview, BeginPreview, ApplyPreview,
         ForeignSave, Write, SaveFails, CountFault, Store

LEMMA SeenSaveStep ==
    ASSUME TypeOK, Ordered, Seen, [Next]_vars
    PROVE  SeenSave'
<1>1. Known \subseteq Known' /\ SeenSave /\ (save # None => save \in Saves)
  BY KnownGrows DEF Seen, TypeOK
<1>2. CASE save' # None /\ save # None /\ save'.body = save.body
  BY <1>1, <1>2 DEF SeenSave
<1>3. CASE save' = Writing("draft") \/ save' = Writing("version")
  BY <1>1, <1>3 DEF SeenSave, Writing, Seen, SeenScreen
<1>4. ServeSave \/ Exported => save # None
  BY DEF ServeSave, Exported, Exporting
<1> QED  BY <1>1, <1>2, <1>3, <1>4, SaveSteps DEF SeenSave, Saves

LEMMA SeenReloadStep ==
    ASSUME TypeOK, Ordered, Seen, [Next]_vars
    PROVE  SeenReload'
<1>Fetch. ASSUME Fetch PROVE SeenReload'
  <2>1. reload \in Reloads /\ reload # None /\ reload.target \in 1 .. Tip
    BY <1>Fetch, ReloadFacts DEF Fetch
  <2>2. PICK id \in {None, DraftId} :
          reload' = [reload EXCEPT !.step = "apply", !.draftId = id,
                                   !.body = IF id = None THEN bodies[reload.target] ELSE draft.body]
    BY <1>Fetch DEF Fetch
  <2>3. reload'.body = IF id = None THEN bodies[reload.target] ELSE draft.body
    BY <2>1, <2>2 DEF Reloads
  <2>4. id # None => draft # None
    BY <2>2 DEF DraftId
  <2>5. CASE id = None
    BY <2>1, <2>3, <2>5, KnownGrows DEF Seen, SeenServer, SeenReload
  <2>6. CASE id # None
    BY <2>3, <2>4, <2>6, KnownGrows DEF Seen, SeenServer, SeenReload
  <2> QED  BY <2>5, <2>6
<1>Apply. ASSUME Apply PROVE SeenReload'
  BY <1>Apply, KnownGrows DEF Apply, Seen, SeenReload, Reloads, TypeOK
<1>LoadFails. ASSUME LoadFails PROVE SeenReload'
  BY <1>LoadFails, KnownGrows DEF LoadFails, CountFault, Seen, SeenReload, Reloads, TypeOK
<1>Retry. ASSUME Retry PROVE SeenReload'
  BY <1>Retry, KnownGrows DEF Retry, Opening, loadUnchanged, Seen, SeenReload, Reloads,
     TypeOK
<1>AutoRefresh. ASSUME AutoRefresh PROVE SeenReload'
  BY <1>AutoRefresh, KnownGrows DEF AutoRefresh, MayRefresh, Reloading, loadUnchanged, Seen,
     SeenReload, Reloads, TypeOK
<1>DiscardAndReload. ASSUME DiscardAndReload PROVE SeenReload'
  BY <1>DiscardAndReload, KnownGrows DEF DiscardAndReload, Reloading, loadUnchanged, Seen,
     SeenReload, Reloads, TypeOK
<1>Turn. ASSUME Turn PROVE SeenReload'
  BY <1>Turn, KnownGrows DEF Turn, Waiting, loadUnchanged, Seen, SeenReload, Reloads, TypeOK
<1>Others. CASE UNCHANGED <<reload>>
  BY <1>Others, KnownGrows DEF Seen, SeenReload, Reloads, TypeOK
<1> QED
  BY <1>Fetch, <1>Apply, <1>LoadFails, <1>Retry, <1>AutoRefresh, <1>DiscardAndReload,
     <1>Turn, <1>Others
     DEF Next, vars, server, counts, library, surface, bounds, lost, history, saveUnchanged,
         loadUnchanged, clientUnchanged, Type, AutoSave, SaveVersion, Exported, ExportFails,
         ServeSave, RequestFails, Saved, Refused, News, Submit, BeforeAgentSave, StartRun,
         Attach, EndRun, RunEnded, PreviewUpdated, FetchPreview, CheckPreview, BeginPreview,
         ApplyPreview, ForeignSave, Write, SaveFails, CountFault, Store

LEMMA SeenPaintingStep ==
    ASSUME TypeOK, Ordered, Seen, [Next]_vars
    PROVE  SeenPainting'
<1>Type. ASSUME NEW e \in Edits, Type(e) PROVE SeenPainting'
  BY <1>Type, KnownGrows DEF Type, reloading, Waiting, Starting, PreviewPolls, Seen,
     SeenPainting, TypeOK
<1>FetchPreview. ASSUME FetchPreview PROVE SeenPainting'
  BY <1>FetchPreview, KnownGrows DEF FetchPreview, CanApplyWorkingPreview, clientUnchanged,
     Seen, SeenPainting, TypeOK, SeenRun, Known
<1>CheckPreview. ASSUME CheckPreview PROVE SeenPainting'
  BY <1>CheckPreview, KnownGrows DEF CheckPreview, CanApplyWorkingPreview, clientUnchanged,
     Seen, SeenPainting, TypeOK
<1>BeginPreview. ASSUME BeginPreview PROVE SeenPainting'
  BY <1>BeginPreview, KnownGrows DEF BeginPreview, PreviewPolls, clientUnchanged, Seen,
     SeenPainting, TypeOK
<1>ApplyPreview. ASSUME ApplyPreview PROVE SeenPainting'
  BY <1>ApplyPreview, KnownGrows DEF ApplyPreview, Seen, SeenPainting, TypeOK
<1>Others. CASE UNCHANGED <<painting>>
  BY <1>Others, KnownGrows DEF Seen, SeenPainting, TypeOK
<1> QED
  BY <1>Type, <1>FetchPreview, <1>CheckPreview, <1>BeginPreview, <1>ApplyPreview, <1>Others
     DEF Next, vars, server, counts, library, surface, bounds, lost, history, saveUnchanged,
         loadUnchanged, clientUnchanged, AutoSave, SaveVersion, Exported, ExportFails,
         ServeSave, RequestFails, Saved, Refused, Fetch, Apply, LoadFails, Retry,
         AutoRefresh, DiscardAndReload, Turn, News, Submit, BeforeAgentSave, StartRun,
         Attach, EndRun, RunEnded, PreviewUpdated, ForeignSave, Write, SaveFails, CountFault,
         Store

LEMMA SeenScreenStep ==
    ASSUME TypeOK, Ordered, Seen, [Next]_vars
    PROVE  SeenScreen'
<1>Type. ASSUME NEW e \in Edits, Type(e) PROVE SeenScreen'
  BY <1>Type, KnownGrows DEF Type, reloading, Waiting, Starting, PreviewPolls, Seen,
     SeenScreen, Known
<1>Exported. ASSUME Exported PROVE SeenScreen'
  BY <1>Exported, KnownGrows DEF Exported, Exporting, Overlapped, SaveFails, Unsaved, Seen,
     SeenScreen, SeenSave
<1>ExportFails. ASSUME ExportFails PROVE SeenScreen'
  BY <1>ExportFails, KnownGrows DEF ExportFails, Exporting, Overlapped, SaveFails, Unsaved,
     CountFault, Seen, SeenScreen, SeenSave
<1>Apply. ASSUME Apply PROVE SeenScreen'
  BY <1>Apply, KnownGrows DEF Apply, Seen, SeenScreen, SeenReload
<1>ApplyPreview. ASSUME ApplyPreview PROVE SeenScreen'
  BY <1>ApplyPreview, KnownGrows DEF ApplyPreview, Seen, SeenScreen, SeenPainting
<1>Others. CASE UNCHANGED <<shown, baseline, marked>>
  BY <1>Others, KnownGrows DEF Seen, SeenScreen
<1> QED
  BY <1>Type, <1>Exported, <1>ExportFails, <1>Apply, <1>ApplyPreview, <1>Others
     DEF Next, vars, server, counts, library, surface, bounds, lost, history, saveUnchanged,
         loadUnchanged, clientUnchanged, AutoSave, SaveVersion, ServeSave, RequestFails,
         Saved, Refused, Fetch, LoadFails, Retry, AutoRefresh, DiscardAndReload, Turn, News,
         Submit, BeforeAgentSave, StartRun, Attach, EndRun, RunEnded, PreviewUpdated,
         FetchPreview, CheckPreview, BeginPreview, ForeignSave, Write, Store, SaveFails,
         CountFault

LEMMA SeenAskedStep ==
    ASSUME TypeOK, Ordered, Seen, [Next]_vars
    PROVE  SeenAsked'
<1>Type. ASSUME NEW e \in Edits, Type(e) PROVE SeenAsked'
  BY <1>Type DEF Type, reloading, Waiting, Starting, PreviewPolls, Seen, SeenAsked
<1>Submit. ASSUME Submit PROVE SeenAsked'
  BY <1>Submit DEF Submit, clientUnchanged, Seen, SeenAsked, lost
<1>Others. CASE UNCHANGED <<typed, exposed, asked>>
  BY <1>Others DEF Seen, SeenAsked
<1> QED
  BY <1>Type, <1>Submit, <1>Others
     DEF Next, vars, server, counts, library, surface, bounds, lost, history, saveUnchanged,
         loadUnchanged, clientUnchanged, AutoSave, SaveVersion, Exported, ExportFails,
         ServeSave, RequestFails, Saved, Refused, Fetch, Apply, LoadFails, Retry,
         AutoRefresh, DiscardAndReload, Turn, News, BeforeAgentSave, StartRun, Attach,
         EndRun, RunEnded, PreviewUpdated, FetchPreview, CheckPreview, BeginPreview,
         ApplyPreview, ForeignSave, Write, SaveFails, CountFault, Store

\* What is seen was typed.
LEMMA SeenStep ==
    ASSUME TypeOK, Ordered, Seen, [Next]_vars
    PROVE  Seen'
BY SeenServerStep, SeenRunStep, SeenSaveStep, SeenReloadStep, SeenPaintingStep, SeenScreenStep,
   SeenAskedStep
   DEF Seen

-----------------------------------------------------------------------------
(* What may be under way with what.                                        *)

Opens ==
    /\ phase # "ready" => typed = {}
    /\ phase = "ready" /\ reload # None => reload.kind = "reload"
    /\ painting # None => phase = "ready"

Turns == painting # None /\ painting.step = "apply" => reload = None \/ reload.step = "wait"

Conflicts == conflict => save = None

Panel ==
    /\ preview => agent = "running"
    /\ run # None => agent \in {"started", "running"}
    /\ painting # None /\ painting.run = runs => agent \in {"running", "idle"}

\* A run that may still save started from what is stored.
RunIsStored == run # None /\ Accepts(run.base, run.draftId) => Stored = run.body

Phases == Opens /\ Turns /\ Conflicts /\ Panel /\ RunIsStored

LEMMA OpensStep ==
    ASSUME TypeOK, Ordered, Phases, [Next]_vars
    PROVE  Opens'
<1>Type. ASSUME NEW e \in Edits, Type(e) PROVE Opens'
  BY <1>Type DEF Type, reloading, Waiting, Starting, PreviewPolls, TypeOK, Phases, Opens,
     Reloads, surface, history
<1>FetchPreview. ASSUME FetchPreview PROVE Opens'
  BY <1>FetchPreview DEF FetchPreview, CanApplyWorkingPreview, clientUnchanged, TypeOK,
     Phases, Opens, Reloads, surface, history
<1>CheckPreview. ASSUME CheckPreview PROVE Opens'
  BY <1>CheckPreview DEF CheckPreview, CanApplyWorkingPreview, clientUnchanged, TypeOK,
     Phases, Opens, Reloads, surface, history
<1>BeginPreview. ASSUME BeginPreview PROVE Opens'
  BY <1>BeginPreview DEF BeginPreview, PreviewPolls, clientUnchanged, TypeOK, Phases, Opens,
     Reloads, surface, history
<1>ApplyPreview. ASSUME ApplyPreview PROVE Opens'
  BY <1>ApplyPreview DEF ApplyPreview, TypeOK, Phases, Opens, Reloads, surface, history
<1>Fetch. ASSUME Fetch PROVE Opens'
  BY <1>Fetch DEF Fetch, TypeOK, Phases, Opens, Reloads, surface, history
<1>Apply. ASSUME Apply PROVE Opens'
  BY <1>Apply DEF Apply, TypeOK, Phases, Opens, Reloads, surface, history
<1>LoadFails. ASSUME LoadFails PROVE Opens'
  BY <1>LoadFails DEF LoadFails, CountFault, TypeOK, Phases, Opens, Reloads, surface,
     history
<1>Retry. ASSUME Retry PROVE Opens'
  BY <1>Retry DEF Retry, Opening, loadUnchanged, TypeOK, Phases, Opens, Reloads, surface,
     history
<1>AutoRefresh. ASSUME AutoRefresh PROVE Opens'
  BY <1>AutoRefresh DEF AutoRefresh, MayRefresh, Reloading, loadUnchanged, TypeOK, Phases,
     Opens, Reloads, surface, history
<1>DiscardAndReload. ASSUME DiscardAndReload PROVE Opens'
  BY <1>DiscardAndReload DEF DiscardAndReload, Reloading, loadUnchanged, TypeOK, Phases,
     Opens, Reloads, surface, history
<1>Turn. ASSUME Turn PROVE Opens'
  BY <1>Turn DEF Turn, Waiting, loadUnchanged, TypeOK, Phases, Opens, Reloads, surface,
     history
<1>Others. CASE UNCHANGED <<typed, phase, reload, painting>>
  BY <1>Others DEF TypeOK, Phases, Opens, Reloads, surface, history
<1> QED
  BY <1>Type, <1>FetchPreview, <1>CheckPreview, <1>BeginPreview, <1>ApplyPreview, <1>Fetch,
     <1>Apply, <1>LoadFails, <1>Retry, <1>AutoRefresh, <1>DiscardAndReload, <1>Turn,
     <1>Others
     DEF Next, vars, server, counts, library, surface, bounds, lost, history, saveUnchanged,
         loadUnchanged, clientUnchanged, AutoSave, SaveVersion, Exported, ExportFails,
         ServeSave, RequestFails, Saved, Refused, News, Submit, BeforeAgentSave, StartRun,
         Attach, EndRun, RunEnded, PreviewUpdated, ForeignSave, Write, SaveFails, CountFault,
         Store

LEMMA TurnsStep ==
    ASSUME TypeOK, Ordered, Phases, [Next]_vars
    PROVE  Turns'
<1>Type. ASSUME NEW e \in Edits, Type(e) PROVE Turns'
  BY <1>Type DEF Type, reloading, Waiting, Starting, PreviewPolls, TypeOK, Phases, Opens,
     Turns, Reloads, reloading
<1>FetchPreview. ASSUME FetchPreview PROVE Turns'
  BY <1>FetchPreview DEF FetchPreview, CanApplyWorkingPreview, clientUnchanged, TypeOK,
     Phases, Opens, Turns, Reloads, reloading
<1>CheckPreview. ASSUME CheckPreview PROVE Turns'
  BY <1>CheckPreview DEF CheckPreview, CanApplyWorkingPreview, clientUnchanged, TypeOK,
     Phases, Opens, Turns, Reloads, reloading
<1>BeginPreview. ASSUME BeginPreview PROVE Turns'
  BY <1>BeginPreview DEF BeginPreview, PreviewPolls, clientUnchanged, TypeOK, Phases, Opens,
     Turns, Reloads, reloading
<1>ApplyPreview. ASSUME ApplyPreview PROVE Turns'
  BY <1>ApplyPreview DEF ApplyPreview, TypeOK, Phases, Opens, Turns, Reloads, reloading
<1>Fetch. ASSUME Fetch PROVE Turns'
  BY <1>Fetch DEF Fetch, TypeOK, Phases, Opens, Turns, Reloads, reloading
<1>Apply. ASSUME Apply PROVE Turns'
  BY <1>Apply DEF Apply, TypeOK, Phases, Opens, Turns, Reloads, reloading
<1>LoadFails. ASSUME LoadFails PROVE Turns'
  BY <1>LoadFails DEF LoadFails, CountFault, TypeOK, Phases, Opens, Turns, Reloads,
     reloading
<1>Retry. ASSUME Retry PROVE Turns'
  BY <1>Retry DEF Retry, Opening, loadUnchanged, TypeOK, Phases, Opens, Turns, Reloads,
     reloading
<1>AutoRefresh. ASSUME AutoRefresh PROVE Turns'
  BY <1>AutoRefresh DEF AutoRefresh, MayRefresh, Reloading, loadUnchanged, TypeOK, Phases,
     Opens, Turns, Reloads, reloading
<1>DiscardAndReload. ASSUME DiscardAndReload PROVE Turns'
  BY <1>DiscardAndReload DEF DiscardAndReload, Reloading, loadUnchanged, TypeOK, Phases,
     Opens, Turns, Reloads, reloading
<1>Turn. ASSUME Turn PROVE Turns'
  BY <1>Turn DEF Turn, Waiting, loadUnchanged, TypeOK, Phases, Opens, Turns, Reloads,
     reloading
<1>Others. CASE UNCHANGED <<reload, painting>>
  BY <1>Others DEF TypeOK, Phases, Opens, Turns, Reloads, reloading
<1> QED
  BY <1>Type, <1>FetchPreview, <1>CheckPreview, <1>BeginPreview, <1>ApplyPreview, <1>Fetch,
     <1>Apply, <1>LoadFails, <1>Retry, <1>AutoRefresh, <1>DiscardAndReload, <1>Turn,
     <1>Others
     DEF Next, vars, server, counts, library, surface, bounds, lost, history, saveUnchanged,
         loadUnchanged, clientUnchanged, AutoSave, SaveVersion, Exported, ExportFails,
         ServeSave, RequestFails, Saved, Refused, News, Submit, BeforeAgentSave, StartRun,
         Attach, EndRun, RunEnded, PreviewUpdated, ForeignSave, Write, SaveFails, CountFault,
         Store

LEMMA ConflictsStep ==
    ASSUME TypeOK, Ordered, Phases, [Next]_vars
    PROVE  Conflicts'
<1>AutoSave. ASSUME AutoSave PROVE Conflicts'
  BY <1>AutoSave DEF AutoSave, MaySave, agentRunning, Write, Writing, Unsaved, saveUnchanged,
     Phases, Conflicts, surface
<1>SaveVersion. ASSUME SaveVersion PROVE Conflicts'
  BY <1>SaveVersion DEF SaveVersion, MaySave, agentRunning, Write, Writing, Unsaved,
     saveUnchanged, Phases, Conflicts, surface
<1>Exported. ASSUME Exported PROVE Conflicts'
  BY <1>Exported DEF Exported, Exporting, Overlapped, SaveFails, Unsaved, Phases, Conflicts,
     surface
<1>ExportFails. ASSUME ExportFails PROVE Conflicts'
  BY <1>ExportFails DEF ExportFails, Exporting, Overlapped, SaveFails, Unsaved, CountFault,
     Phases, Conflicts, surface
<1>ServeSave. ASSUME ServeSave PROVE Conflicts'
  BY <1>ServeSave DEF ServeSave, Store, Phases, Conflicts, surface
<1>RequestFails. ASSUME RequestFails PROVE Conflicts'
  BY <1>RequestFails DEF RequestFails, SaveFails, Unsaved, CountFault, Phases, Conflicts,
     surface
<1>Saved. ASSUME Saved PROVE Conflicts'
  BY <1>Saved DEF Saved, SavingRevision, NextDraftId, Writing, Phases, Conflicts, surface
<1>Refused. ASSUME Refused PROVE Conflicts'
  BY <1>Refused DEF Refused, SaveFails, Unsaved, Phases, Conflicts, surface
<1>BeforeAgentSave. ASSUME BeforeAgentSave PROVE Conflicts'
  BY <1>BeforeAgentSave DEF BeforeAgentSave, MaySave, agentRunning, Write, Writing, Unsaved,
     saveUnchanged, Phases, Conflicts, surface
<1>Apply. ASSUME Apply PROVE Conflicts'
  BY <1>Apply DEF Apply, Phases, Conflicts, surface
<1>Retry. ASSUME Retry PROVE Conflicts'
  BY <1>Retry DEF Retry, Opening, loadUnchanged, Phases, Conflicts, surface
<1>Others. CASE UNCHANGED <<conflict, save>>
  BY <1>Others DEF Phases, Conflicts, surface
<1> QED
  BY <1>AutoSave, <1>SaveVersion, <1>Exported, <1>ExportFails, <1>ServeSave, <1>RequestFails,
     <1>Saved, <1>Refused, <1>BeforeAgentSave, <1>Apply, <1>Retry, <1>Others
     DEF Next, vars, server, counts, library, surface, bounds, lost, history, saveUnchanged,
         loadUnchanged, clientUnchanged, Type, Fetch, LoadFails, AutoRefresh,
         DiscardAndReload, Turn, News, Submit, StartRun, Attach, EndRun, RunEnded,
         PreviewUpdated, FetchPreview, CheckPreview, BeginPreview, ApplyPreview, ForeignSave,
         CountFault, Store

LEMMA PanelStep ==
    ASSUME TypeOK, Ordered, Phases, [Next]_vars
    PROVE  Panel'
<1>N. runs \in Nat /\ (painting # None => painting.run \in Nat /\ painting.run =< runs)
  BY DEF TypeOK, Ordered, Numbers
<1>Type. ASSUME NEW e \in Edits, Type(e) PROVE Panel'
  BY <1>Type DEF Type, reloading, Waiting, Starting, PreviewPolls, Phases, Panel, bounds
<1>FetchPreview. ASSUME FetchPreview PROVE Panel'
  BY <1>FetchPreview, <1>N DEF FetchPreview, CanApplyWorkingPreview, clientUnchanged, Phases,
     Panel, bounds
<1>CheckPreview. ASSUME CheckPreview PROVE Panel'
  BY <1>CheckPreview DEF CheckPreview, CanApplyWorkingPreview, clientUnchanged, Phases,
     Panel, bounds
<1>BeginPreview. ASSUME BeginPreview PROVE Panel'
  BY <1>BeginPreview DEF BeginPreview, PreviewPolls, clientUnchanged, Phases, Panel, bounds
<1>ApplyPreview. ASSUME ApplyPreview PROVE Panel'
  BY <1>ApplyPreview DEF ApplyPreview, Phases, Panel, bounds
<1>Exported. ASSUME Exported PROVE Panel'
  BY <1>Exported DEF Exported, Exporting, Overlapped, SaveFails, Unsaved, Phases, Panel,
     bounds
<1>ExportFails. ASSUME ExportFails PROVE Panel'
  BY <1>ExportFails DEF ExportFails, Exporting, Overlapped, SaveFails, Unsaved, CountFault,
     Phases, Panel, bounds
<1>RequestFails. ASSUME RequestFails PROVE Panel'
  BY <1>RequestFails DEF RequestFails, SaveFails, Unsaved, CountFault, Phases, Panel, bounds
<1>Refused. ASSUME Refused PROVE Panel'
  BY <1>Refused DEF Refused, SaveFails, Unsaved, Phases, Panel, bounds
<1>Submit. ASSUME Submit PROVE Panel'
  BY <1>Submit, <1>N DEF Submit, clientUnchanged, Phases, Panel, bounds
<1>BeforeAgentSave. ASSUME BeforeAgentSave PROVE Panel'
  BY <1>BeforeAgentSave DEF BeforeAgentSave, MaySave, agentRunning, Write, Writing, Unsaved,
     saveUnchanged, Phases, Panel, bounds
<1>StartRun. ASSUME StartRun PROVE Panel'
  BY <1>StartRun DEF StartRun, clientUnchanged, Phases, Panel, bounds
<1>Attach. ASSUME Attach PROVE Panel'
  BY <1>Attach DEF Attach, clientUnchanged, Phases, Panel, bounds
<1>EndRun. ASSUME EndRun PROVE Panel'
  BY <1>EndRun DEF EndRun, Store, clientUnchanged, Phases, Panel, bounds
<1>RunEnded. ASSUME RunEnded PROVE Panel'
  BY <1>RunEnded DEF RunEnded, clientUnchanged, Phases, Panel, bounds
<1>PreviewUpdated. ASSUME PreviewUpdated PROVE Panel'
  BY <1>PreviewUpdated DEF PreviewUpdated, clientUnchanged, Phases, Panel, bounds
<1>Others. CASE UNCHANGED <<preview, agent, run, painting, runs>>
  BY <1>Others DEF Phases, Panel, bounds
<1> QED
  BY <1>Type, <1>FetchPreview, <1>CheckPreview, <1>BeginPreview, <1>ApplyPreview,
     <1>Exported, <1>ExportFails, <1>RequestFails, <1>Refused, <1>Submit, <1>BeforeAgentSave,
     <1>StartRun, <1>Attach, <1>EndRun, <1>RunEnded, <1>PreviewUpdated, <1>Others
     DEF Next, vars, server, counts, library, surface, bounds, lost, history, saveUnchanged,
         loadUnchanged, clientUnchanged, AutoSave, SaveVersion, ServeSave, Saved, Fetch,
         Apply, LoadFails, Retry, AutoRefresh, DiscardAndReload, Turn, News, ForeignSave,
         Write, Store, CountFault

LEMMA RunIsStoredStep ==
    ASSUME TypeOK, Ordered, Phases, [Next]_vars
    PROVE  RunIsStored'
<1>1. CASE UNCHANGED <<bodies, draft, run>>
  <2>1. UNCHANGED <<Stored, Tip, DraftId>>
    BY <1>1 DEF Stored, Tip, DraftId
  <2>2. RunIsStored
    BY DEF Phases
  <2> QED  BY <1>1, <2>1, <2>2 DEF RunIsStored, Accepts
<1>2. CASE run' = None
  BY <1>2 DEF RunIsStored
<1>3. CASE run' = [base |-> Tip, draftId |-> DraftId, body |-> Stored] /\ UNCHANGED server
  <2>1. UNCHANGED <<Stored, Tip, DraftId>>
    BY <1>3 DEF Stored, Tip, DraftId, server
  <2> QED  BY <1>3, <2>1 DEF RunIsStored
<1>4. ASSUME run' = run, NEW mode, NEW body \in Contents, Store(mode, body), run # None
      PROVE  ~Accepts(run.base, run.draftId)'
  <2>1. /\ Tip \in Nat /\ drafts \in Nat /\ run.base \in Nat /\ run.base =< Tip
        /\ run.draftId \in Nat \cup {None} /\ (run.draftId = None \/ run.draftId < drafts)
    BY <1>4, ServerFacts DEF TypeOK, Ordered, RunBases, Numbers
  <2>2. CASE Tip' = Tip + 1
    BY <1>4, <2>1, <2>2 DEF Accepts
  <2>3. CASE DraftId' = drafts
    BY <1>4, <2>1, <2>3 DEF Accepts
  <2> QED  BY <1>4, <2>2, <2>3, StoreSteps
<1>5. CASE ServeSave /\ Store(save.mode, save.body)
  <2>1. save.body \in Contents /\ run' = run
    BY <1>5 DEF ServeSave, TypeOK, Saves
  <2> QED  BY <1>4, <1>5, <2>1 DEF RunIsStored
<1>6. CASE ForeignSave /\ \E mode \in {"draft", "version"} : Store(mode, Stored)
  <2>1. Stored \in Contents /\ run' = run
    BY <1>6, ServerFacts DEF ForeignSave
  <2> QED  BY <1>4, <1>6, <2>1 DEF RunIsStored
<1>7. \/ UNCHANGED run \/ run' = None
      \/ run' = [base |-> Tip, draftId |-> DraftId, body |-> Stored] /\ UNCHANGED server
  BY DEF Next, vars, server, counts, library, surface, bounds, lost, history, saveUnchanged,
         loadUnchanged, clientUnchanged, Type, AutoSave, SaveVersion, Exported,
         ExportFails, ServeSave, RequestFails, Saved, Refused, Fetch, Apply, LoadFails,
         Retry, AutoRefresh, DiscardAndReload, Turn, News, Submit, BeforeAgentSave,
         StartRun, Attach, EndRun, RunEnded, PreviewUpdated, FetchPreview, CheckPreview,
         BeginPreview, ApplyPreview, ForeignSave, SaveFails, CountFault, Write, Store
<1>8. EndRun => run' = None
  BY DEF EndRun
<1> QED  BY <1>1, <1>2, <1>3, <1>5, <1>6, <1>7, <1>8, ServerSteps DEF server

\* What may be under way is kept.
LEMMA PhasesStep ==
    ASSUME TypeOK, Ordered, Phases, [Next]_vars
    PROVE  Phases'
BY OpensStep, TurnsStep, ConflictsStep, PanelStep, RunIsStoredStep DEF Phases

-----------------------------------------------------------------------------
(* Where the edits are.                                                     *)

\* A save under way becomes, or has become, the newest version.
Underway ==
    save # None /\ \/ save.step = "sent" /\ save.base = Tip
                   \/ save.step = "answered" /\ save.mode = "version" /\ save.result = Tip

\* The editor shows the newest version, or a save makes what it shows the newest.
Near == loaded = Tip \/ Underway

\* A save the server may still accept.
MayLand ==
    save # None /\ \/ save.step = "export" /\ loaded = Tip
                   \/ save.step = "sent" /\ save.base = Tip

OnScreen == Near => Kept \subseteq shown

Marks == ~needsFull => Kept \cap shown \subseteq baseline \cup marked

Exports == Exporting /\ save.revision = revision => Kept \cap shown \subseteq save.body

\* A save that lands drops no edit from the server, and one without later edits
\* brings them all.
Lands ==
    MayLand => /\ Kept \cap Stored \subseteq save.body
               /\ save.revision = revision => Kept \subseteq save.body

Landed ==
    save # None /\ save.step = "answered" /\ save.result # None /\ save.revision = revision
       => Kept \subseteq Stored

CountsTrue ==
    /\ savedRevision = revision => Kept \subseteq Stored
    /\ ~dirty => Kept \subseteq Stored

\* A reload replaces no edit the server does not have; one that crosses a save
\* has none before it.
ReloadsSaved ==
    /\ reload # None => Kept \subseteq Stored
    /\ reload # None /\ loaded = latest /\ ~conflict => Kept = {}
    /\ reload # None /\ Underway => Kept = {}

ReloadsNewest ==
    reload # None /\ reload.step = "apply" /\ reload.target = Tip => Kept \subseteq reload.body

\* Nothing is dropped by a run that saves over the newest version.
Holds(base, body) ==
    /\ base = Tip => Kept \cap Stored \subseteq body
    /\ save # None /\ save.mode = "draft" => Kept \cap save.body \subseteq body

RunsRead ==
    /\ agent = "posting" => Kept \subseteq Stored
    /\ run # None /\ agent = "started" => Kept \subseteq run.body
    /\ run # None /\ agent = "running" => Holds(run.base, run.body)

PreviewsRead ==
    painting # None /\ painting.run = runs /\ agent = "running"
       => Holds(painting.base, painting.body)

PreviewsSaved ==
    /\ painting # None /\ painting.step = "waiting" => Kept = {}
    /\ painting # None /\ painting.step = "apply" =>
          Kept \subseteq Stored /\ (Near => Kept \subseteq painting.body)

Safe ==
    /\ NoEditIsLost /\ OnScreen /\ Marks /\ Exports /\ Lands /\ Landed /\ CountsTrue
    /\ ReloadsSaved /\ ReloadsNewest /\ RunsRead /\ PreviewsRead /\ PreviewsSaved
    /\ RunReadsTheEdits

SessionInv == TypeOK /\ Ordered /\ Seen /\ Phases /\ Safe

\* What typing does to the edits.
LEMMA TypeSteps ==
    ASSUME SessionInv, NEW e \in Edits, Type(e)
    PROVE  /\ phase = "ready" /\ Kept' \subseteq Kept \cup {e}
           /\ reload # None \/ Starting \/ reloading => Kept' \subseteq Kept
           /\ ~reloading => revision' = revision + 1 /\ dirty'
           /\ reloading => revision' = revision /\ dirty' = dirty
           /\ e \notin Stored /\ (save # None => e \notin save.body)
           /\ Stored' = Stored /\ Tip' = Tip /\ UNCHANGED <<Near, Underway>>
           /\ shown' = shown \cup {e} /\ marked' = marked \cup {e}
           /\ UNCHANGED <<run, phase, loaded, latest, conflict, savedRevision, save, baseline,
                          needsFull, reload, agent, runs, asked, discarded>>
           /\ painting' = IF PreviewPolls THEN None ELSE painting
<1>1. /\ phase = "ready" /\ e \notin typed /\ typed' = typed \cup {e} /\ discarded' = discarded
      /\ exposed' = IF reloading \/ Waiting \/ Starting THEN exposed \cup {e} ELSE exposed
      /\ shown' = shown \cup {e} /\ marked' = marked \cup {e}
      /\ UNCHANGED <<server, run, phase, loaded, latest, conflict, savedRevision, save, baseline,
                     needsFull, reload, agent, bounds, asked>>
      /\ painting' = IF PreviewPolls THEN None ELSE painting
  BY DEF Type
<1>2. Kept' \subseteq Kept \cup {e} /\ (reloading \/ Waiting \/ Starting => Kept' \subseteq Kept)
  BY <1>1 DEF Kept
<1>3. reload # None => reloading \/ Waiting
  BY <1>1 DEF SessionInv, Phases, Opens, reloading, Waiting
<1>4. e \notin Known
  BY <1>1, EditsAssumption DEF Known
<1>5. e \notin Stored /\ (save # None => e \notin save.body)
  BY <1>4, SeenStored DEF SessionInv, Seen, SeenSave
<1>6. Stored' = Stored /\ Tip' = Tip /\ UNCHANGED <<Near, Underway>>
  BY <1>1 DEF server, Stored, Tip, Near, Underway
<1>7. /\ ~reloading => revision' = revision + 1 /\ dirty'
      /\ reloading => revision' = revision /\ dirty' = dirty
  BY DEF Type
<1> QED  BY <1>1, <1>2, <1>3, <1>5, <1>6, <1>7 DEF bounds

\* Only typing adds to the edits.
LEMMA KeptSteps ==
    ASSUME [Next]_vars
    PROVE  (\E e \in Edits : Type(e)) \/ Kept' \subseteq Kept
<1>1. CASE DiscardAndReload
  <2>1. typed' = typed /\ exposed' = exposed /\ discarded \subseteq discarded'
    BY <1>1 DEF DiscardAndReload, loadUnchanged
  <2> QED  BY <2>1 DEF Kept
<1>Others. CASE UNCHANGED <<typed, exposed, discarded>>
  BY <1>Others DEF Kept
<1> QED
  BY <1>1, <1>Others
     DEF Next, vars, server, counts, library, surface, bounds, lost, history, saveUnchanged,
         loadUnchanged, clientUnchanged, AutoSave, SaveVersion, Exported, ExportFails,
         ServeSave, RequestFails, Saved, Refused, Fetch, Apply, LoadFails, Retry,
         AutoRefresh, Turn, News, Submit, BeforeAgentSave, StartRun, Attach, EndRun,
         RunEnded, PreviewUpdated, FetchPreview, CheckPreview, BeginPreview, ApplyPreview,
         ForeignSave, SaveFails, CountFault, Write, Store

\* What a step does to what is stored.
LEMMA StoredSteps ==
    ASSUME SessionInv, [Next]_vars
    PROVE  /\ Tip \in Nat /\ Tip' \in Nat
           /\ Kept \cap Stored \subseteq Stored'
           /\ \/ ServeSave /\ save.base = Tip /\ Stored' = save.body
                 /\ save' = [save EXCEPT !.step = "answered",
                                         !.result = IF save.mode = "draft" THEN drafts ELSE Tip + 1]
                 /\ \/ save.mode = "draft" /\ Tip' = Tip
                    \/ save.mode = "version" /\ Tip' = Tip + 1
              \/ Stored' = Stored /\ Tip' = Tip
              \/ Stored \subseteq Stored' /\ Tip' = Tip + 1
<1> USE DEF SessionInv
<1>1. Tip \in Nat /\ Tip' \in Nat
  BY ServerGrows
<1>2. CASE UNCHANGED server
  BY <1>1, <1>2 DEF server, Stored, Tip
<1>3. CASE ServeSave /\ Accepts(save.base, save.baseDraft) /\ Store(save.mode, save.body)
  <2>1. save \in Saves /\ save # None /\ save.step = "sent" /\ save.base = Tip
    BY <1>3 DEF ServeSave, Accepts, TypeOK
  <2>2. save.body \in Contents /\ save.mode \in {"draft", "version"}
    BY <2>1 DEF Saves
  <2>3. /\ Stored' = save.body
        /\ \/ save.mode = "draft" /\ Tip' = Tip
           \/ save.mode = "version" /\ Tip' = Tip + 1
    BY <1>3, <2>2, StoreSteps
  <2>4. Kept \cap Stored \subseteq save.body
    BY <2>1 DEF Safe, Lands, MayLand
  <2>5. save' = [save EXCEPT !.step = "answered",
                             !.result = IF save.mode = "draft" THEN drafts ELSE Tip + 1]
    BY <1>3 DEF ServeSave
  <2> QED  BY <1>1, <1>3, <2>1, <2>3, <2>4, <2>5
<1>4. CASE EndRun /\ Accepts(run.base, run.draftId) /\ Store("version", run.body \cup {Work})
  <2>1. run # None /\ run.body \cup {Work} \in Contents
    BY <1>4 DEF EndRun, TypeOK, Contents
  <2>2. Stored = run.body
    BY <1>4, <2>1 DEF Phases, RunIsStored
  <2>3. Stored' = run.body \cup {Work} /\ Tip' = Tip + 1
    BY <1>4, <2>1, StoreSteps
  <2> QED  BY <1>1, <2>2, <2>3
<1>5. CASE ForeignSave /\ \E mode \in {"draft", "version"} : Store(mode, Stored)
  <2>1. Stored \in Contents
    BY ServerFacts
  <2>2. PICK mode \in {"draft", "version"} : Store(mode, Stored)
    BY <1>5
  <2>3. Stored' = Stored /\ (Tip' = Tip \/ Tip' = Tip + 1)
    BY <2>1, <2>2, StoreSteps
  <2> QED  BY <1>1, <2>3
<1> QED  BY <1>2, <1>3, <1>4, <1>5, ServerSteps

\* What a step may do to the edits.
LEMMA KeptFacts ==
    ASSUME SessionInv, [Next]_vars
    PROVE  /\ revision' = revision \/ revision' = revision + 1
           /\ revision' = revision => Kept' \subseteq Kept
           /\ revision' # revision => dirty' /\ save' = save /\ savedRevision' = savedRevision
           /\ reload # None \/ reloading \/ Starting => Kept' \subseteq Kept
           /\ Kept' \cap Stored \subseteq Kept
           /\ save # None => Kept' \cap save.body \subseteq Kept
<1>1. revision \in Nat
  BY DEF SessionInv, TypeOK
<1>2. CASE \E e \in Edits : Type(e)
  <2>1. PICK e \in Edits : Type(e)
    BY <1>2
  <2>2. /\ Kept' \subseteq Kept \cup {e} /\ e \notin Stored /\ (save # None => e \notin save.body)
        /\ ~reloading => revision' = revision + 1 /\ dirty'
        /\ reloading => revision' = revision
        /\ reload # None \/ Starting \/ reloading => Kept' \subseteq Kept
        /\ save' = save /\ savedRevision' = savedRevision
    BY <2>1, TypeSteps
  <2> QED  BY <1>1, <2>2
<1>3. CASE revision' = revision /\ Kept' \subseteq Kept
  BY <1>1, <1>3
<1>Others. CASE UNCHANGED revision
  BY <1>2, <1>3, <1>Others, KeptSteps
<1> QED
  BY <1>2, <1>Others
     DEF Next, vars, server, counts, library, surface, bounds, lost, history, saveUnchanged,
         loadUnchanged, clientUnchanged, AutoSave, SaveVersion, Exported, ExportFails,
         ServeSave, RequestFails, Saved, Refused, Fetch, Apply, LoadFails, Retry,
         AutoRefresh, DiscardAndReload, Turn, News, Submit, BeforeAgentSave, StartRun,
         Attach, EndRun, RunEnded, PreviewUpdated, FetchPreview, CheckPreview, BeginPreview,
         ApplyPreview, ForeignSave, SaveFails, CountFault, Write, Store

\* What becomes of the version on screen.
LEMMA LoadedSteps ==
    ASSUME TypeOK, [Next]_vars
    PROVE  \/ loaded' = loaded
           \/ /\ Saved /\ save.mode = "version" /\ loaded' = save.result /\ latest' = Tip
              /\ UNCHANGED server
           \/ Apply /\ loaded' = reload.target /\ UNCHANGED <<server, save>>
<1>1. CASE Saved
  BY <1>1 DEF Saved, TypeOK, Saves
<1>2. CASE Apply
  BY <1>2 DEF Apply
<1>Others. CASE UNCHANGED loaded
  BY <1>Others
<1> QED
  BY <1>1, <1>2, <1>Others
     DEF Next, vars, server, counts, library, surface, bounds, lost, history, saveUnchanged,
         loadUnchanged, clientUnchanged, Type, AutoSave, SaveVersion, Exported, ExportFails,
         ServeSave, RequestFails, Refused, Fetch, LoadFails, Retry, AutoRefresh,
         DiscardAndReload, Turn, News, Submit, BeforeAgentSave, StartRun, Attach, EndRun,
         RunEnded, PreviewUpdated, FetchPreview, CheckPreview, BeginPreview, ApplyPreview,
         ForeignSave, SaveFails, CountFault, Write, Store

\* The numbers of a pending save.
LEMMA SaveFacts ==
    ASSUME TypeOK, Ordered
    PROVE  /\ Tip \in Nat /\ loaded \in Nat /\ latest \in Nat /\ loaded =< latest /\ latest =< Tip
           /\ save # None => /\ save \in Saves /\ save.base \in Nat /\ save.result \in Nat \cup {None}
                             /\ save.revision \in Nat /\ save.revision =< revision
                             /\ save.step # "export" => save.base =< Tip
                             /\ save.mode = "version" /\ save.result # None => save.result =< Tip
                             /\ save.step \in {"export", "sent"} => save.result = None
                             /\ save.step \in {"export", "sent", "answered"}
                             /\ save.mode \in {"draft", "version"} /\ save.body \in Contents
           /\ revision \in Nat /\ savedRevision \in Nat /\ savedRevision =< revision
<1>1. /\ Tip \in Nat /\ loaded \in Nat /\ latest \in Nat /\ loaded =< latest /\ latest =< Tip
  BY ServerFacts DEF TypeOK, Ordered, Versions
<1>2. revision \in Nat /\ savedRevision \in Nat /\ savedRevision =< revision
  BY DEF TypeOK, Ordered, Revisions
<1>3. ASSUME save # None
      PROVE  /\ save \in Saves /\ save.base \in Nat /\ save.result \in Nat \cup {None}
             /\ save.revision \in Nat /\ save.step \in {"export", "sent", "answered"}
             /\ save.mode \in {"draft", "version"} /\ save.body \in Contents
  BY <1>3 DEF TypeOK, Saves
<1>4. ASSUME save # None
      PROVE  /\ save.revision =< revision
             /\ save.step # "export" => save.base =< latest
             /\ save.mode = "version" /\ save.result # None => save.result =< Tip
             /\ save.step \in {"export", "sent"} => save.result = None
  BY <1>4 DEF Ordered, Revisions, SaveBases
<1>5. ASSUME save # None, save.step # "export"
      PROVE  save.base =< Tip
  BY <1>1, <1>3, <1>4, <1>5
<1> QED  BY <1>1, <1>2, <1>3, <1>4, <1>5

\* What becomes of a pending save, field by field.
LEMMA PendingSteps ==
    ASSUME TypeOK, Ordered, [Next]_vars, save' # None
    PROVE  \/ save' = save
           \/ /\ save'.step = "export" /\ save'.revision = revision /\ save'.result = None
              /\ save'.body = IF needsFull THEN shown ELSE baseline \cup marked
              /\ UNCHANGED <<bodies, draft, revision, shown>>
           \/ /\ Exported /\ loaded = latest /\ save # None /\ save.step = "export"
              /\ save'.step = "sent" /\ save'.base = loaded /\ save'.mode = save.mode
              /\ save'.revision = save.revision /\ save'.body = save.body
           \/ /\ ServeSave /\ save # None /\ save.step = "sent"
              /\ save'.step = "answered" /\ save'.mode = save.mode
              /\ save'.revision = save.revision /\ save'.body = save.body
              /\ save'.result = None \/ save.base = Tip
<1>1. save # None => save \in Saves /\ (save.step = "sent" => save.result = None)
  BY DEF TypeOK, Ordered, Revisions
<1>2. CASE /\ save' = Writing("draft") \/ save' = Writing("version")
           /\ needsFull' = TRUE /\ UNCHANGED <<bodies, draft, revision, shown>>
  BY <1>2 DEF Writing
<1>3. CASE /\ Exported /\ loaded = latest
           /\ save' = [save EXCEPT !.step = "sent", !.base = loaded, !.baseDraft = draftId]
  <2>1. save # None /\ save.step = "export"
    BY <1>3 DEF Exported, Exporting
  <2> QED  BY <1>1, <1>3, <2>1 DEF Saves
<1>4. CASE /\ ServeSave /\ Accepts(save.base, save.baseDraft) /\ Store(save.mode, save.body)
           /\ save' = [save EXCEPT !.step = "answered",
                                   !.result = IF save.mode = "draft" THEN drafts ELSE Tip + 1]
  <2>1. save # None /\ save.step = "sent" /\ save.base = Tip
    BY <1>4 DEF ServeSave, Accepts
  <2> QED  BY <1>1, <1>4, <2>1 DEF Saves
<1>5. CASE ServeSave /\ UNCHANGED server /\ save' = [save EXCEPT !.step = "answered"]
  <2>1. save # None /\ save.step = "sent"
    BY <1>5 DEF ServeSave
  <2> QED  BY <1>1, <1>5, <2>1 DEF Saves
<1> QED  BY <1>2, <1>3, <1>4, <1>5, SaveSteps

\* Nothing comes near the newest version but by a load of it.
LEMMA NearSteps ==
    ASSUME SessionInv, [Next]_vars
    PROVE  Near' => Near \/ (Apply /\ reload.target = Tip /\ Tip' = Tip)
<1> USE DEF SessionInv
<1>1. Tip' \in Nat /\ (Tip' = Tip \/ Tip' = Tip + 1)
  BY StoredSteps
<1>2. ASSUME loaded' = Tip'
      PROVE  Near \/ (Apply /\ reload.target = Tip /\ Tip' = Tip)
  <2>1. CASE loaded' = loaded
    BY <1>1, <1>2, <2>1, SaveFacts DEF Near
  <2>2. CASE /\ Saved /\ save.mode = "version" /\ loaded' = save.result
             /\ UNCHANGED server
    <3>1. Tip' = Tip /\ save # None /\ save.step = "answered"
      BY <2>2 DEF server, Tip, Saved
    <3> QED  BY <1>2, <2>2, <3>1 DEF Near, Underway
  <2>3. CASE Apply /\ loaded' = reload.target /\ UNCHANGED <<server, save>>
    <3>1. Tip' = Tip
      BY <2>3 DEF server, Tip
    <3> QED  BY <1>2, <2>3, <3>1
  <2> QED  BY <2>1, <2>2, <2>3, LoadedSteps
<1>3. ASSUME Underway'
      PROVE  Near
  <2>1. save' # None /\ \/ save'.step = "sent" /\ save'.base = Tip'
                        \/ save'.step = "answered" /\ save'.mode = "version" /\ save'.result = Tip'
    BY <1>3 DEF Underway
  <2>2. CASE save' = save
    <3>1. Tip' = Tip
      BY <1>1, <2>1, <2>2, SaveFacts, NoneAssumption
    <3> QED  BY <2>1, <2>2, <3>1 DEF Near, Underway
  <2>3. CASE Exported /\ loaded = latest /\ save'.step = "sent" /\ save'.base = loaded
    <3>1. loaded = Tip
      BY <1>1, <2>1, <2>3, SaveFacts
    <3> QED  BY <3>1 DEF Near
  <2>4. CASE /\ ServeSave /\ save # None /\ save.step = "sent" /\ save'.step = "answered"
             /\ save'.result = None \/ save.base = Tip
    <3>1. save'.result # None
      BY <1>1, <2>1, <2>4, NoneAssumption
    <3> QED  BY <2>4, <3>1 DEF Near, Underway
  <2> QED  BY <2>1, <2>2, <2>3, <2>4, PendingSteps
<1> QED  BY <1>2, <1>3 DEF Near

\* Nor does a save that may land come from anywhere else.
LEMMA LandSteps ==
    ASSUME SessionInv, [Next]_vars, MayLand'
    PROVE  /\ Stored' = Stored
           /\ \/ /\ MayLand /\ save'.body = save.body /\ save'.revision = save.revision
              \/ /\ Near /\ save'.revision = revision /\ revision' = revision
                 /\ save'.body = IF needsFull THEN shown ELSE baseline \cup marked
<1> USE DEF SessionInv
<1>1. Tip' \in Nat /\ (Tip' = Tip \/ Tip' = Tip + 1)
  BY StoredSteps
<1>2. save' # None /\ \/ save'.step = "export" /\ loaded' = Tip'
                      \/ save'.step = "sent" /\ save'.base = Tip'
  BY DEF MayLand
<1>3. ~ServeSave
  BY <1>2, SaveFacts DEF ServeSave, Saves
<1>4. CASE save' = save
  <2>1. CASE save.step = "sent" /\ save.base = Tip'
    <3>1. Tip' = Tip
      BY <1>1, <1>2, <1>4, <2>1, SaveFacts
    <3>2. Stored' = Stored
      BY <1>1, <1>3, <3>1, StoredSteps
    <3> QED  BY <1>2, <1>4, <2>1, <3>1, <3>2 DEF MayLand
  <2>2. CASE save.step = "export" /\ loaded' = Tip'
    <3>1. loaded' = loaded
      BY <1>2, <1>4, <2>2, LoadedSteps DEF Saved, Apply, Exporting
    <3>2. Tip' = Tip
      BY <1>1, <2>2, <3>1, SaveFacts
    <3>3. Stored' = Stored
      BY <1>1, <1>3, <3>2, StoredSteps
    <3> QED  BY <1>2, <1>4, <2>2, <3>1, <3>2, <3>3 DEF MayLand
  <2> QED  BY <1>2, <1>4, <2>1, <2>2
<1>5. CASE /\ save'.step = "export" /\ save'.revision = revision
           /\ save'.body = IF needsFull THEN shown ELSE baseline \cup marked
           /\ UNCHANGED <<bodies, draft, revision, shown>>
  <2>1. Stored' = Stored /\ Tip' = Tip
    BY <1>5 DEF Stored, Tip
  <2>2. loaded' = Tip'
    BY <1>2, <1>5
  <2>3. ~Apply
    BY <1>2, <1>5 DEF Apply, Exporting
  <2>4. Near
    BY <2>2, <2>3, NearSteps DEF Near
  <2> QED  BY <1>5, <2>1, <2>4
<1>6. CASE /\ Exported /\ loaded = latest /\ save # None /\ save.step = "export"
           /\ save'.step = "sent" /\ save'.base = loaded
           /\ save'.revision = save.revision /\ save'.body = save.body
  <2>1. Stored' = Stored /\ Tip' = Tip
    BY <1>6 DEF Exported, Stored, Tip, server
  <2> QED  BY <1>2, <1>6, <2>1 DEF MayLand
<1> QED  BY <1>2, <1>3, <1>4, <1>5, <1>6, PendingSteps

-----------------------------------------------------------------------------
(* No step loses an edit.                                                   *)

LEMMA LostStep ==
    ASSUME SessionInv, [Next]_vars
    PROVE  NoEditIsLost'
<1>Type. ASSUME NEW e \in Edits, Type(e) PROVE NoEditIsLost'
  BY <1>Type, TypeSteps DEF SessionInv, Safe, NoEditIsLost
<1>Apply. ASSUME Apply PROVE NoEditIsLost'
  <2>1. Kept \subseteq Stored /\ Kept' \subseteq Kept
    BY <1>Apply DEF Apply, SessionInv, Safe, ReloadsSaved, Kept, history, lost
  <2> QED  BY <2>1, StoredSteps DEF NoEditIsLost
<1>ApplyPreview. ASSUME ApplyPreview PROVE NoEditIsLost'
  <2>1. Kept \subseteq Stored /\ Kept' \subseteq Kept
    BY <1>ApplyPreview DEF ApplyPreview, SessionInv, Safe, PreviewsSaved, Kept, history, lost
  <2> QED  BY <2>1, StoredSteps DEF NoEditIsLost
<1>Others. CASE UNCHANGED <<shown>> /\ Kept' \subseteq Kept
  BY <1>Others, StoredSteps DEF SessionInv, Safe, NoEditIsLost
<1> QED
  BY <1>Type, <1>Apply, <1>ApplyPreview, <1>Others, KeptSteps
     DEF Next, vars, server, counts, library, surface, bounds, lost, history, saveUnchanged,
         loadUnchanged, clientUnchanged, AutoSave, SaveVersion, Exported, ExportFails,
         ServeSave, RequestFails, Saved, Refused, Fetch, LoadFails, Retry, AutoRefresh,
         DiscardAndReload, Turn, News, Submit, BeforeAgentSave, StartRun, Attach, EndRun,
         RunEnded, PreviewUpdated, FetchPreview, CheckPreview, BeginPreview, ForeignSave,
         Write, SaveFails, CountFault, Store

LEMMA OnScreenStep ==
    ASSUME SessionInv, [Next]_vars
    PROVE  OnScreen'
<1>Type. ASSUME NEW e \in Edits, Type(e) PROVE OnScreen'
  BY <1>Type, TypeSteps DEF SessionInv, Safe, OnScreen
<1>Apply. ASSUME Apply PROVE OnScreen'
  <2>1. /\ Kept' \subseteq Kept /\ shown' = reload.body /\ reload # None /\ reload.step = "apply"
        /\ loaded' = reload.target /\ save' = save /\ Tip' = Tip
    BY <1>Apply DEF Apply, Kept, history, lost, server, Tip
  <2>2. ASSUME Near'
        PROVE  Kept \subseteq reload.body
    <3>1. CASE reload.target = Tip
      BY <2>1, <3>1 DEF SessionInv, Safe, ReloadsNewest
    <3>2. CASE Underway'
      <4>1. Underway
        BY <2>1, <3>2 DEF Underway
      <4> QED  BY <2>1, <4>1 DEF SessionInv, Safe, ReloadsSaved
    <3> QED  BY <2>1, <2>2, <3>1, <3>2 DEF Near
  <2> QED  BY <2>1, <2>2 DEF OnScreen
<1>ApplyPreview. ASSUME ApplyPreview PROVE OnScreen'
  <2>1. /\ Kept' \subseteq Kept /\ shown' = painting.body /\ painting # None
        /\ painting.step = "apply"
    BY <1>ApplyPreview DEF ApplyPreview, Kept, history, lost
  <2>2. Near' => Near
    <3>1. UNCHANGED <<loaded, save, Tip>>
      BY <1>ApplyPreview DEF ApplyPreview, server, Tip
    <3> QED  BY <3>1 DEF Near, Underway
  <2> QED  BY <2>1, <2>2 DEF OnScreen, SessionInv, Safe, PreviewsSaved
<1>Others. CASE UNCHANGED <<shown>> /\ Kept' \subseteq Kept
  <2>1. CASE Apply
    BY <2>1, <1>Others, <1>Apply
  <2>2. CASE ~Apply
    BY <2>2, <1>Others, NearSteps DEF SessionInv, Safe, OnScreen
  <2> QED  BY <2>1, <2>2
<1> QED
  BY <1>Type, <1>Apply, <1>ApplyPreview, <1>Others, KeptSteps
     DEF Next, vars, server, counts, library, surface, bounds, lost, history, saveUnchanged,
         loadUnchanged, clientUnchanged, AutoSave, SaveVersion, Exported, ExportFails,
         ServeSave, RequestFails, Saved, Refused, Fetch, LoadFails, Retry, AutoRefresh,
         DiscardAndReload, Turn, News, Submit, BeforeAgentSave, StartRun, Attach, EndRun,
         RunEnded, PreviewUpdated, FetchPreview, CheckPreview, BeginPreview, ForeignSave,
         Write, SaveFails, CountFault, Store

LEMMA MarksStep ==
    ASSUME SessionInv, [Next]_vars
    PROVE  Marks'
<1>Type. ASSUME NEW e \in Edits, Type(e) PROVE Marks'
  BY <1>Type, TypeSteps DEF SessionInv, Safe, Marks
<1>AutoSave. ASSUME AutoSave PROVE Marks'
  <2>1. /\ Kept' \subseteq Kept /\ UNCHANGED <<shown, baseline, marked>>
        /\ needsFull' = TRUE \/ needsFull' = needsFull
    BY <1>AutoSave, WriteSteps DEF AutoSave, saveUnchanged, Kept, history, lost
  <2> QED  BY <2>1 DEF SessionInv, Safe, Marks
<1>SaveVersion. ASSUME SaveVersion PROVE Marks'
  <2>1. /\ Kept' \subseteq Kept /\ UNCHANGED <<shown, baseline, marked>>
        /\ needsFull' = TRUE \/ needsFull' = needsFull
    BY <1>SaveVersion, WriteSteps DEF SaveVersion, saveUnchanged, Kept, history, lost
  <2> QED  BY <2>1 DEF SessionInv, Safe, Marks
<1>BeforeAgentSave. ASSUME BeforeAgentSave PROVE Marks'
  <2>1. /\ Kept' \subseteq Kept /\ UNCHANGED <<shown, baseline, marked>>
        /\ needsFull' = TRUE \/ needsFull' = needsFull
    BY <1>BeforeAgentSave, WriteSteps DEF BeforeAgentSave, saveUnchanged, Kept, history, lost
  <2> QED  BY <2>1 DEF SessionInv, Safe, Marks
<1>Exported. ASSUME Exported PROVE Marks'
  <2>1. /\ Exporting /\ Kept' \subseteq Kept /\ shown' = shown /\ baseline' = save.body
        /\ needsFull' = (revision # save.revision)
    BY <1>Exported DEF Exported, Overlapped, Kept, history, lost
  <2> QED  BY <2>1 DEF SessionInv, Safe, Marks, Exports
<1>ExportFails. ASSUME ExportFails PROVE Marks'
  <2>1. /\ Exporting /\ Kept' \subseteq Kept /\ shown' = shown
        /\ \E bytes \in BOOLEAN :
              /\ baseline' = IF bytes THEN save.body ELSE baseline
              /\ needsFull' = (bytes => revision # save.revision)
    BY <1>ExportFails DEF ExportFails, Overlapped, Kept, history, lost
  <2> QED  BY <2>1 DEF SessionInv, Safe, Marks, Exports
<1>Saved. ASSUME Saved PROVE Marks'
  <2>1. /\ Kept' \subseteq Kept /\ UNCHANGED <<shown, baseline, marked>>
        /\ needsFull' = TRUE \/ needsFull' = needsFull
    BY <1>Saved DEF Saved, Kept, history, lost
  <2> QED  BY <2>1 DEF SessionInv, Safe, Marks
<1>Apply. ASSUME Apply PROVE Marks'
  BY <1>Apply DEF Apply, Marks
<1>Retry. ASSUME Retry PROVE Marks'
  <2>1. Kept' = {}
    BY <1>Retry DEF Retry, loadUnchanged, SessionInv, Phases, Opens, Kept
  <2> QED  BY <2>1 DEF Marks
<1>ApplyPreview. ASSUME ApplyPreview PROVE Marks'
  BY <1>ApplyPreview DEF ApplyPreview, Marks
<1>Others. CASE UNCHANGED <<needsFull, shown, baseline, marked>> /\ Kept' \subseteq Kept
  BY <1>Others DEF SessionInv, Safe, Marks
<1> QED
  BY <1>Type, <1>AutoSave, <1>SaveVersion, <1>BeforeAgentSave, <1>Exported, <1>ExportFails,
     <1>Saved, <1>Apply, <1>Retry, <1>ApplyPreview, <1>Others, KeptSteps
     DEF Next, vars, server, counts, library, surface, bounds, lost, history, saveUnchanged,
         loadUnchanged, clientUnchanged, ServeSave, RequestFails, Refused, Fetch, LoadFails,
         AutoRefresh, DiscardAndReload, Turn, News, Submit, StartRun, Attach, EndRun,
         RunEnded, PreviewUpdated, FetchPreview, CheckPreview, BeginPreview, ForeignSave,
         Store, SaveFails, CountFault

LEMMA ExportsStep ==
    ASSUME SessionInv, [Next]_vars
    PROVE  Exports'
<1> SUFFICES ASSUME save' # None, save'.step = "export", save'.revision = revision'
             PROVE  Kept' \cap shown' \subseteq save'.body
  BY DEF Exports, Exporting
<1>1. CASE save' = save
  <2>1. save # None /\ save.step = "export" /\ revision' = revision /\ Kept' \subseteq Kept
    BY <1>1, KeptFacts, SaveFacts DEF SessionInv
  <2>2. Kept \cap shown \subseteq save.body
    BY <1>1, <2>1 DEF SessionInv, Safe, Exports, Exporting
  <2>3. CASE shown' = shown
    BY <1>1, <2>1, <2>2, <2>3
  <2>4. CASE \E e \in Edits : Type(e)
    <3>1. PICK e \in Edits : shown' = shown \cup {e} /\ e \notin typed
      BY <2>4 DEF Type
    <3>2. e \notin Kept
      BY <3>1 DEF Kept
    <3> QED  BY <1>1, <2>1, <2>2, <3>1, <3>2
  <2> QED
    BY <2>1, <2>3, <2>4 DEF Exporting, Next, vars, server, counts, library, surface, bounds, lost, history, saveUnchanged,
        loadUnchanged, clientUnchanged, AutoSave, SaveVersion, Exported, ExportFails,
        ServeSave, RequestFails, Saved, Refused, Fetch, Apply, LoadFails, Retry,
        AutoRefresh, DiscardAndReload, Turn, News, Submit, BeforeAgentSave, StartRun,
        Attach, EndRun, RunEnded, PreviewUpdated, FetchPreview, CheckPreview,
        BeginPreview, ApplyPreview, ForeignSave, SaveFails, CountFault, Write, Store
<1>2. CASE /\ save'.body = IF needsFull THEN shown ELSE baseline \cup marked
           /\ UNCHANGED <<revision, shown>>
  <2>1. Kept' \subseteq Kept
    BY <1>2, KeptFacts
  <2> QED  BY <1>2, <2>1 DEF SessionInv, Safe, Marks
<1> QED  BY <1>1, <1>2, PendingSteps DEF SessionInv

LEMMA LandsStep ==
    ASSUME SessionInv, [Next]_vars
    PROVE  Lands'
<1> SUFFICES ASSUME MayLand'
             PROVE  /\ Kept' \cap Stored' \subseteq save'.body
                    /\ save'.revision = revision' => Kept' \subseteq save'.body
  BY DEF Lands
<1>1. Stored' = Stored
  BY LandSteps
<1>2. CASE /\ Near /\ save'.revision = revision /\ revision' = revision
           /\ save'.body = IF needsFull THEN shown ELSE baseline \cup marked
  <2>1. Kept \subseteq save'.body
    BY <1>2 DEF SessionInv, Safe, OnScreen, Marks
  <2> QED  BY <1>1, <1>2, <2>1, KeptFacts
<1>3. CASE MayLand /\ save'.body = save.body /\ save'.revision = save.revision
  <2>1. /\ Kept \cap Stored \subseteq save.body
        /\ save.revision = revision => Kept \subseteq save.body
    BY <1>3 DEF SessionInv, Safe, Lands
  <2>2. save.revision = revision' => revision' = revision
    BY <1>3, KeptFacts, SaveFacts DEF SessionInv, MayLand
  <2> QED  BY <1>1, <1>3, <2>1, <2>2, KeptFacts
<1> QED  BY <1>2, <1>3, LandSteps

\* A save that was accepted is what is stored.
LEMMA ServedSteps ==
    ASSUME TypeOK, Ordered, ServeSave, save'.result # None
    PROVE  Stored' = save.body
<1>1. save # None /\ save \in Saves /\ save.step = "sent" /\ save.result = None /\ save.body \in Contents
  BY SaveFacts DEF ServeSave
<1>2. Accepts(save.base, save.baseDraft)
  <2>1. ASSUME save' = [save EXCEPT !.step = "answered"]
        PROVE  FALSE
    BY <1>1, <2>1 DEF Saves
  <2> QED  BY <2>1 DEF ServeSave
<1>3. Store(save.mode, save.body)
  BY <1>2 DEF ServeSave
<1> QED  BY <1>1, <1>3, StoreSteps

LEMMA LandedStep ==
    ASSUME SessionInv, [Next]_vars
    PROVE  Landed'
<1> SUFFICES ASSUME save' # None, save'.step = "answered", save'.result # None,
                    save'.revision = revision'
             PROVE  Kept' \subseteq Stored'
  BY DEF Landed
<1>1. Kept \cap Stored \subseteq Stored'
  BY StoredSteps
<1>2. save # None /\ save'.revision = save.revision
  BY PendingSteps DEF SessionInv
<1>3. revision' = revision /\ Kept' \subseteq Kept
  BY <1>2, KeptFacts, SaveFacts DEF SessionInv
<1>4. CASE save' = save
  BY <1>1, <1>3, <1>4 DEF SessionInv, Safe, Landed
<1>5. CASE ServeSave /\ save.step = "sent" /\ save.base = Tip
  <2>1. Kept \subseteq save.body
    BY <1>2, <1>3, <1>5 DEF SessionInv, Safe, Lands, MayLand
  <2>2. Stored' = save.body
    BY <1>5, ServedSteps DEF SessionInv
  <2> QED  BY <1>3, <2>1, <2>2
<1> QED  BY <1>4, <1>5, PendingSteps DEF SessionInv

\* What the server has it keeps.
LEMMA StoredKept ==
    ASSUME SessionInv, [Next]_vars, Kept \subseteq Stored, Kept' \subseteq Kept
    PROVE  Kept' \subseteq Stored'
BY StoredSteps

LEMMA CountedSteps ==
    ASSUME SessionInv, [Next]_vars, savedRevision' = revision, revision' = revision
    PROVE  Kept \subseteq Stored
<1>Saved. ASSUME Saved PROVE Kept \subseteq Stored
  <2>1. /\ save # None /\ save.step = "answered" /\ save.result # None
        /\ save.revision = revision
    BY <1>Saved DEF Saved, SavingRevision
  <2> QED  BY <2>1 DEF SessionInv, Safe, Landed
<1>Fetch. ASSUME Fetch PROVE Kept \subseteq Stored
  BY <1>Fetch DEF Fetch, SessionInv, Safe, ReloadsSaved
<1>Retry. ASSUME Retry PROVE Kept \subseteq Stored
  <2>1. Kept = {}
    BY <1>Retry DEF Retry, SessionInv, Phases, Opens, Kept
  <2> QED  BY <2>1
<1>Others. CASE UNCHANGED <<savedRevision>>
  BY <1>Others DEF SessionInv, Safe, CountsTrue
<1> QED
  BY <1>Saved, <1>Fetch, <1>Retry, <1>Others
     DEF Next, vars, server, counts, library, surface, bounds, lost, history, saveUnchanged,
         loadUnchanged, clientUnchanged, Type, AutoSave, SaveVersion, Exported, ExportFails,
         ServeSave, RequestFails, Refused, Apply, LoadFails, AutoRefresh, DiscardAndReload,
         Turn, News, Submit, BeforeAgentSave, StartRun, Attach, EndRun, RunEnded,
         PreviewUpdated, FetchPreview, CheckPreview, BeginPreview, ApplyPreview, ForeignSave,
         Write, SaveFails, CountFault, Store

LEMMA CleanSteps ==
    ASSUME SessionInv, [Next]_vars, ~dirty', revision' = revision
    PROVE  Kept \subseteq Stored
<1>Type. ASSUME NEW e \in Edits, Type(e) PROVE Kept \subseteq Stored
  <2>1. dirty' = dirty
    BY <1>Type, TypeSteps DEF SessionInv, TypeOK
  <2> QED  BY <2>1 DEF SessionInv, Safe, CountsTrue
<1>AutoSave. ASSUME AutoSave PROVE Kept \subseteq Stored
  <2>1. dirty' = dirty \/ revision = savedRevision
    BY <1>AutoSave, WriteSteps DEF AutoSave
  <2> QED  BY <2>1 DEF SessionInv, Safe, CountsTrue
<1>SaveVersion. ASSUME SaveVersion PROVE Kept \subseteq Stored
  <2>1. dirty' = dirty \/ revision = savedRevision
    BY <1>SaveVersion, WriteSteps DEF SaveVersion
  <2> QED  BY <2>1 DEF SessionInv, Safe, CountsTrue
<1>BeforeAgentSave. ASSUME BeforeAgentSave PROVE Kept \subseteq Stored
  <2>1. dirty' = dirty \/ revision = savedRevision
    BY <1>BeforeAgentSave, WriteSteps DEF BeforeAgentSave
  <2> QED  BY <2>1 DEF SessionInv, Safe, CountsTrue
<1>Exported. ASSUME Exported PROVE Kept \subseteq Stored
  <2>1. dirty' = dirty \/ dirty' = (revision # savedRevision)
    BY <1>Exported DEF Exported, Unsaved, SaveFails
  <2> QED  BY <2>1 DEF SessionInv, Safe, CountsTrue
<1>ExportFails. ASSUME ExportFails PROVE Kept \subseteq Stored
  <2>1. dirty' = dirty \/ dirty' = (revision # savedRevision)
    BY <1>ExportFails DEF ExportFails, Unsaved, SaveFails
  <2> QED  BY <2>1 DEF SessionInv, Safe, CountsTrue
<1>RequestFails. ASSUME RequestFails PROVE Kept \subseteq Stored
  <2>1. dirty' = dirty \/ dirty' = (revision # savedRevision)
    BY <1>RequestFails DEF RequestFails, Unsaved, SaveFails
  <2> QED  BY <2>1 DEF SessionInv, Safe, CountsTrue
<1>Refused. ASSUME Refused PROVE Kept \subseteq Stored
  <2>1. dirty' = dirty \/ dirty' = (revision # savedRevision)
    BY <1>Refused DEF Refused, Unsaved, SaveFails
  <2> QED  BY <2>1 DEF SessionInv, Safe, CountsTrue
<1>Saved. ASSUME Saved PROVE Kept \subseteq Stored
  <2>1. /\ save # None /\ save.step = "answered" /\ save.result # None
        /\ savedRevision' = save.revision /\ dirty' = (revision # savedRevision')
    BY <1>Saved DEF Saved, SavingRevision
  <2>2. save.revision = revision
    BY <2>1
  <2> QED  BY <2>1, <2>2 DEF SessionInv, Safe, Landed
<1>Apply. ASSUME Apply PROVE Kept \subseteq Stored
  BY <1>Apply DEF Apply, SessionInv, Safe, ReloadsSaved
<1>Retry. ASSUME Retry PROVE Kept \subseteq Stored
  <2>1. Kept = {}
    BY <1>Retry DEF Retry, SessionInv, Phases, Opens, Kept
  <2> QED  BY <2>1
<1>ApplyPreview. ASSUME ApplyPreview PROVE Kept \subseteq Stored
  BY <1>ApplyPreview DEF ApplyPreview, SessionInv, Safe, PreviewsSaved
<1>Others. CASE UNCHANGED <<dirty>>
  BY <1>Others DEF SessionInv, Safe, CountsTrue
<1> QED
  BY <1>Type, <1>AutoSave, <1>SaveVersion, <1>BeforeAgentSave, <1>Exported, <1>ExportFails,
     <1>RequestFails, <1>Refused, <1>Saved, <1>Apply, <1>Retry, <1>ApplyPreview, <1>Others
     DEF Next, vars, server, counts, library, surface, bounds, lost, history, saveUnchanged,
         loadUnchanged, clientUnchanged, ServeSave, Fetch, LoadFails, AutoRefresh,
         DiscardAndReload, Turn, News, Submit, StartRun, Attach, EndRun, RunEnded,
         PreviewUpdated, FetchPreview, CheckPreview, BeginPreview, ForeignSave, Store,
         CountFault

LEMMA CountsTrueStep ==
    ASSUME SessionInv, [Next]_vars
    PROVE  CountsTrue'
<1>1. revision \in Nat /\ savedRevision \in Nat /\ savedRevision =< revision
  BY SaveFacts DEF SessionInv
<1>2. ASSUME savedRevision' = revision'
      PROVE  Kept' \subseteq Stored'
  <2>1. savedRevision' = revision /\ revision' = revision /\ Kept' \subseteq Kept
    BY <1>1, <1>2, KeptFacts
  <2> QED  BY <2>1, CountedSteps, StoredKept
<1>3. ASSUME ~dirty'
      PROVE  Kept' \subseteq Stored'
  <2>1. revision' = revision /\ Kept' \subseteq Kept
    BY <1>3, KeptFacts
  <2> QED  BY <1>3, <2>1, CleanSteps, StoredKept
<1> QED  BY <1>2, <1>3 DEF CountsTrue

LEMMA ReloadSteps ==
    ASSUME SessionInv, [Next]_vars, reload' # None
    PROVE  Kept' \subseteq Kept /\ Kept' \subseteq Stored
<1>Fetch. ASSUME Fetch PROVE Kept' \subseteq Kept /\ Kept' \subseteq Stored
  <2>1. reload # None
    BY <1>Fetch DEF Fetch
  <2> QED  BY <2>1, KeptFacts DEF SessionInv, Safe, ReloadsSaved
<1>Apply. ASSUME Apply PROVE Kept' \subseteq Kept /\ Kept' \subseteq Stored
  BY <1>Apply DEF Apply
<1>LoadFails. ASSUME LoadFails PROVE Kept' \subseteq Kept /\ Kept' \subseteq Stored
  BY <1>LoadFails DEF LoadFails
<1>Retry. ASSUME Retry PROVE Kept' \subseteq Kept /\ Kept' \subseteq Stored
  <2>1. Kept' = {}
    BY <1>Retry DEF Retry, loadUnchanged, SessionInv, Phases, Opens, Kept
  <2> QED  BY <2>1
<1>AutoRefresh. ASSUME AutoRefresh PROVE Kept' \subseteq Kept /\ Kept' \subseteq Stored
  <2>1. ~dirty /\ Kept' = Kept
    BY <1>AutoRefresh DEF AutoRefresh, MayRefresh, loadUnchanged, Kept
  <2> QED  BY <2>1 DEF SessionInv, Safe, CountsTrue
<1>DiscardAndReload. ASSUME DiscardAndReload PROVE Kept' \subseteq Kept /\ Kept' \subseteq Stored
  <2>1. /\ typed' = typed /\ exposed' = exposed
        /\ discarded' = discarded \cup ((typed \cap shown) \ IF save = None THEN Stored ELSE {})
    BY <1>DiscardAndReload DEF DiscardAndReload, loadUnchanged
  <2>2. Kept \subseteq shown \cup Stored
    BY DEF SessionInv, Safe, NoEditIsLost
  <2> QED  BY <2>1, <2>2 DEF Kept
<1>Turn. ASSUME Turn PROVE Kept' \subseteq Kept /\ Kept' \subseteq Stored
  <2>1. reload # None
    BY <1>Turn DEF Turn, Waiting
  <2> QED  BY <2>1, KeptFacts DEF SessionInv, Safe, ReloadsSaved
<1>Others. CASE UNCHANGED <<reload>>
  BY <1>Others, KeptFacts DEF SessionInv, Safe, ReloadsSaved
<1> QED
  BY <1>Fetch, <1>Apply, <1>LoadFails, <1>Retry, <1>AutoRefresh, <1>DiscardAndReload,
     <1>Turn, <1>Others
     DEF Next, vars, server, counts, library, surface, bounds, lost, history, saveUnchanged,
         loadUnchanged, clientUnchanged, Type, AutoSave, SaveVersion, Exported, ExportFails,
         ServeSave, RequestFails, Saved, Refused, News, Submit, BeforeAgentSave, StartRun,
         Attach, EndRun, RunEnded, PreviewUpdated, FetchPreview, CheckPreview, BeginPreview,
         ApplyPreview, ForeignSave, Write, SaveFails, CountFault, Store

\* A reload begins where the version on screen is older, or was refused.
LEMMA ReloadBegins ==
    ASSUME SessionInv, [Next]_vars, reload = None, reload' # None
    PROVE  \/ Kept' = {}
           \/ AutoRefresh
           \/ DiscardAndReload
<1>1. CASE Retry
  BY <1>1 DEF Retry, loadUnchanged, SessionInv, Phases, Opens, Kept
<1>Others. CASE UNCHANGED reload
  BY <1>Others
<1> QED
  BY <1>1, <1>Others
     DEF Next, vars, server, counts, library, surface, bounds, lost, history, saveUnchanged,
         loadUnchanged, clientUnchanged, Waiting, Type, AutoSave, SaveVersion, Exported,
         ExportFails, ServeSave, RequestFails, Saved, Refused, Fetch, Apply, LoadFails, Turn,
         News, Submit, BeforeAgentSave, StartRun, Attach, EndRun, RunEnded, PreviewUpdated,
         FetchPreview, CheckPreview, BeginPreview, ApplyPreview, ForeignSave, SaveFails,
         CountFault, Write, Store

LEMMA OlderSteps ==
    ASSUME SessionInv, [Next]_vars, reload' # None, loaded' = latest', ~conflict'
    PROVE  Kept' = {}
<1> USE DEF SessionInv
<1>1. Kept' \subseteq Kept
  BY ReloadSteps
<1>2. CASE reload = None
  <2>1. CASE AutoRefresh
    BY <2>1 DEF AutoRefresh, MayRefresh, loadUnchanged
  <2>2. CASE DiscardAndReload
    BY <2>2 DEF DiscardAndReload, loadUnchanged
  <2> QED  BY <1>2, <2>1, <2>2, ReloadBegins
<1>3. CASE reload # None /\ loaded = latest /\ ~conflict
  BY <1>1, <1>3 DEF Safe, ReloadsSaved
<1>4. CASE reload # None /\ Saved
  <2>1. save # None /\ save.step = "answered" /\ save.result # None /\ ~conflict
    BY <1>4 DEF Saved, Phases, Conflicts
  <2>2. CASE save.mode = "draft"
    <3>1. loaded = latest
      BY <1>4, <2>2 DEF Saved
    <3> QED  BY <1>3, <1>4, <2>1, <3>1
  <2>3. CASE save.mode # "draft"
    <3>1. save.mode = "version" /\ save.result = Tip
      BY <1>4, <2>1, <2>3, SaveFacts DEF Saved
    <3>2. Underway
      BY <2>1, <3>1 DEF Underway
    <3> QED  BY <1>1, <1>4, <3>2 DEF Safe, ReloadsSaved
  <2> QED  BY <2>2, <2>3
<1>5. CASE reload # None /\ loaded' = loaded /\ conflict' = conflict
  <2>1. loaded = latest
    <3>1. latest' \in Nat
      BY TypesStep DEF TypeOK
    <3> QED  BY <1>5, <3>1, SaveFacts, LatestGrows
  <2> QED  BY <1>3, <1>5, <2>1
<1>6. CASE Refused
  BY <1>6 DEF Refused
<1>7. CASE Apply
  BY <1>7 DEF Apply
<1>8. CASE Retry
  BY <1>8 DEF Retry, loadUnchanged, Phases, Opens, Kept
<1>Others. CASE UNCHANGED <<loaded, conflict>>
  BY <1>2, <1>5, <1>Others
<1> QED
  BY <1>2, <1>4, <1>6, <1>7, <1>8, <1>Others
     DEF Next, vars, server, counts, library, surface, bounds, lost, history, saveUnchanged,
         loadUnchanged, clientUnchanged, Type, AutoSave, SaveVersion, Exported, ExportFails,
         ServeSave, RequestFails, Fetch, LoadFails, AutoRefresh, DiscardAndReload, Turn,
         News, Submit, BeforeAgentSave, StartRun, Attach, EndRun, RunEnded, PreviewUpdated,
         FetchPreview, CheckPreview, BeginPreview, ApplyPreview, ForeignSave, SaveFails,
         CountFault, Write, Store

LEMMA CrossingSteps ==
    ASSUME SessionInv, [Next]_vars, reload' # None, Underway'
    PROVE  Kept' = {}
<1> USE DEF SessionInv
<1>1. Kept' \subseteq Kept
  BY ReloadSteps
<1>2. save' # None /\ \/ save'.step = "sent" /\ save'.base = Tip'
                      \/ save'.step = "answered" /\ save'.mode = "version" /\ save'.result = Tip'
  BY DEF Underway
<1>3. Near
  BY NearSteps, <1>2 DEF Near, Apply
<1>4. CASE reload = None
  <2>1. CASE AutoRefresh
    BY <1>2, <2>1 DEF AutoRefresh, MayRefresh, loadUnchanged
  <2>2. CASE DiscardAndReload
    <3>1. /\ typed' = typed /\ exposed' = exposed /\ save' = save
          /\ discarded' = discarded \cup ((typed \cap shown) \ IF save = None THEN Stored ELSE {})
      BY <2>2 DEF DiscardAndReload, loadUnchanged
    <3>2. Kept \subseteq shown
      BY <1>3 DEF Safe, OnScreen
    <3> QED  BY <1>2, <3>1, <3>2 DEF Kept
  <2> QED  BY <1>4, <2>1, <2>2, ReloadBegins
<1>5. CASE reload # None /\ Underway
  BY <1>1, <1>5 DEF Safe, ReloadsSaved
<1>6. CASE reload # None /\ ~Underway
  <2>1. CASE save' = save
    <3>1. Underway
      BY <1>2, <2>1, StoredSteps, SaveFacts, NoneAssumption DEF Underway
    <3> QED  BY <1>6, <3>1
  <2>2. CASE Exported /\ loaded = latest /\ save # None /\ save'.base = loaded /\ save'.step = "sent"
    <3>1. ~conflict
      BY <2>2 DEF Phases, Conflicts
    <3> QED  BY <1>1, <1>6, <2>2, <3>1 DEF Safe, ReloadsSaved
  <2>3. CASE /\ ServeSave /\ save # None /\ save.step = "sent" /\ save'.step = "answered"
             /\ save'.result = None \/ save.base = Tip
    BY <1>2, <1>6, <2>3, StoredSteps, NoneAssumption DEF Underway
  <2> QED  BY <1>2, <2>1, <2>2, <2>3, PendingSteps
<1> QED  BY <1>4, <1>5, <1>6

LEMMA ReloadsSavedStep ==
    ASSUME SessionInv, [Next]_vars
    PROVE  ReloadsSaved'
<1>1. ASSUME reload' # None
      PROVE  Kept' \subseteq Stored'
  <2>1. Kept' \subseteq Kept /\ Kept' \subseteq Stored
    BY <1>1, ReloadSteps
  <2> QED  BY <2>1, StoredSteps
<1> QED  BY <1>1, OlderSteps, CrossingSteps DEF ReloadsSaved

LEMMA ReloadsNewestStep ==
    ASSUME SessionInv, [Next]_vars
    PROVE  ReloadsNewest'
<1> SUFFICES ASSUME reload' # None, reload'.step = "apply", reload'.target = Tip'
             PROVE  Kept' \subseteq reload'.body
  BY DEF ReloadsNewest
<1> USE DEF SessionInv
<1>1. Kept' \subseteq Kept /\ Kept' \subseteq Stored /\ Tip \in Nat
  BY ReloadSteps, SaveFacts
<1>2. CASE reload' = reload
  <2>1. Tip' = Tip
    BY <1>1, <1>2, ReloadFacts, StoredSteps, SaveFacts
  <2> QED  BY <1>1, <1>2, <2>1 DEF Safe, ReloadsNewest
<1>3. CASE Fetch
  <2>1. reload \in Reloads /\ reload # None /\ reload.target \in 1 .. latest /\ Tip' = Tip
    BY <1>3, ReloadFacts DEF Fetch, server, Tip
  <2>2. PICK id : /\ id = IF reload.target = latest THEN DraftId ELSE None
                  /\ reload' = [reload EXCEPT !.step = "apply", !.draftId = id,
                                 !.body = IF id = None THEN bodies[reload.target] ELSE draft.body]
    BY <1>3 DEF Fetch
  <2>3. /\ reload'.target = reload.target
        /\ reload'.body = IF id = None THEN bodies[reload.target] ELSE draft.body
    BY <2>1, <2>2 DEF Reloads
  <2>4. reload.target = latest /\ latest = Tip
    BY <2>1, <2>3, SaveFacts
  <2>5. id = DraftId /\ (draft # None => draft.id # None)
    BY <2>2, <2>4, NoneAssumption DEF TypeOK
  <2>6. reload'.body = Stored
    BY <2>3, <2>4, <2>5 DEF Stored, DraftId
  <2> QED  BY <1>1, <2>6
<1>4. \/ reload' = reload \/ Fetch \/ reload' = None \/ reload'.step # "apply"
  <2>1. CASE Turn
    BY <2>1 DEF Turn, Waiting, TypeOK, Reloads
  <2>2. CASE Retry
    BY <2>2 DEF Retry, Opening
  <2>3. CASE AutoRefresh
    BY <2>3 DEF AutoRefresh, Reloading
  <2>4. CASE DiscardAndReload
    BY <2>4 DEF DiscardAndReload, Reloading
  <2> QED
    BY <2>1, <2>2, <2>3, <2>4 DEF Next, vars, server, counts, library, surface, bounds, lost, history, saveUnchanged,
        loadUnchanged, clientUnchanged, Type, AutoSave, SaveVersion, Exported,
        ExportFails, ServeSave, RequestFails, Saved, Refused, Fetch, Apply, LoadFails,
        News, Submit, BeforeAgentSave, StartRun, Attach, EndRun, RunEnded,
        PreviewUpdated, FetchPreview, CheckPreview, BeginPreview, ApplyPreview,
        ForeignSave, SaveFails, CountFault, Write, Store
<1> QED  BY <1>2, <1>3, <1>4

\* The edits while a run is started.
LEMMA PostingStep ==
    ASSUME SessionInv, [Next]_vars, agent' = "posting"
    PROVE  Kept' \subseteq Stored'
<1>1. CASE agent = "posting"
  <2>1. Kept \subseteq Stored /\ Kept' \subseteq Kept
    BY <1>1, KeptFacts DEF SessionInv, Safe, RunsRead, Starting
  <2> QED  BY <2>1, StoredKept
<1>2. CASE BeforeAgentSave /\ agent # "posting"
  <2>1. savedRevision = revision /\ revision' = revision
    BY <1>2 DEF BeforeAgentSave, Unsaved, saveUnchanged, counts
  <2>2. Kept \subseteq Stored /\ Kept' \subseteq Kept
    BY <2>1, KeptFacts DEF SessionInv, Safe, CountsTrue
  <2> QED  BY <2>2, StoredKept
<1> QED
  BY <1>1, <1>2
     DEF Next, vars, server, counts, library, surface, bounds, lost, history, saveUnchanged,
         loadUnchanged, clientUnchanged, Type, AutoSave, SaveVersion, Exported, ExportFails,
         ServeSave, RequestFails, Saved, Refused, Fetch, Apply, LoadFails, Retry,
         AutoRefresh, DiscardAndReload, Turn, News, Submit, StartRun, Attach, EndRun,
         RunEnded, PreviewUpdated, FetchPreview, CheckPreview, BeginPreview, ApplyPreview,
         ForeignSave, SaveFails, CountFault, Write, Store

LEMMA StartedStep ==
    ASSUME SessionInv, [Next]_vars, run' # None, agent' = "started"
    PROVE  Kept' \subseteq run'.body
<1>1. CASE agent = "started" /\ run' = run
  BY <1>1, KeptFacts DEF SessionInv, Safe, RunsRead, Starting
<1>2. CASE StartRun
  <2>1. CASE run' = [base |-> Tip, draftId |-> DraftId, body |-> Stored]
    BY <1>2, <2>1, KeptFacts DEF StartRun, SessionInv, Safe, RunsRead, Starting
  <2>2. CASE run' = run
    BY <1>2, <2>2 DEF StartRun, SessionInv, Phases, Panel
  <2> QED  BY <1>2, <2>1, <2>2 DEF StartRun
<1>3. CASE EndRun
  BY <1>3 DEF EndRun
<1> QED
  BY <1>1, <1>2, <1>3
     DEF Next, vars, server, counts, library, surface, bounds, lost, history, saveUnchanged,
         loadUnchanged, clientUnchanged, Type, AutoSave, SaveVersion, Exported, ExportFails,
         ServeSave, RequestFails, Saved, Refused, Fetch, Apply, LoadFails, Retry,
         AutoRefresh, DiscardAndReload, Turn, News, Submit, BeforeAgentSave, Attach,
         RunEnded, PreviewUpdated, FetchPreview, CheckPreview, BeginPreview, ApplyPreview,
         ForeignSave, SaveFails, CountFault, Write, Store

\* No draft is begun while the surface knows of a run.
LEMMA DraftSteps ==
    ASSUME SessionInv, [Next]_vars, agent = "running", save' # None, save'.mode = "draft"
    PROVE  save # None /\ save.mode = "draft" /\ save'.body = save.body
<1> USE DEF SessionInv
<1>1. CASE save' = save
  BY <1>1
<1>2. CASE save # None /\ save'.mode = save.mode /\ save'.body = save.body
  BY <1>2
<1>3. CASE save' = Writing("version")
  BY <1>3 DEF Writing
<1>4. CASE AutoSave
  BY <1>4 DEF AutoSave, MaySave, agentRunning
<1>5. CASE BeforeAgentSave
  BY <1>5 DEF BeforeAgentSave
<1>6. CASE Exported \/ ServeSave
  <2>1. save # None
    BY <1>6 DEF Exported, Exporting, ServeSave
  <2>2. save \in Saves
    BY <2>1, SaveFacts
  <2>3. save'.mode = save.mode /\ save'.body = save.body
    BY <1>6, <2>2 DEF Exported, SaveFails, ServeSave, Saves
  <2> QED  BY <2>1, <2>3
<1>7. CASE SaveVersion
  BY <1>1, <1>3, <1>7, WriteSteps DEF SaveVersion
<1>8. CASE Saved
  BY <1>3, <1>8 DEF Saved
<1> QED
  BY <1>1, <1>4, <1>5, <1>6, <1>7, <1>8
     DEF Next, vars, server, counts, library, surface, bounds, lost, history, saveUnchanged,
         loadUnchanged, clientUnchanged, Type, ExportFails, RequestFails, Refused, Fetch,
         Apply, LoadFails, Retry, AutoRefresh, DiscardAndReload, Turn, News, Submit,
         StartRun, Attach, EndRun, RunEnded, PreviewUpdated, FetchPreview, CheckPreview,
         BeginPreview, ApplyPreview, ForeignSave, SaveFails, CountFault, Write, Store

\* What holds of a run holds after the step.
LEMMA HoldsStep ==
    ASSUME SessionInv, [Next]_vars, agent = "running", NEW base \in Nat, NEW body, base =< Tip,
           base = Tip => Kept \cap Stored \subseteq body,
           save # None /\ save.mode = "draft" => Kept \cap save.body \subseteq body
    PROVE  /\ base = Tip' => Kept' \cap Stored' \subseteq body
           /\ save' # None /\ save'.mode = "draft" => Kept' \cap save'.body \subseteq body
<1>1. ASSUME save' # None, save'.mode = "draft"
      PROVE  Kept' \cap save'.body \subseteq body
  BY <1>1, DraftSteps, KeptFacts
<1>2. ASSUME base = Tip'
      PROVE  Kept' \cap Stored' \subseteq body
  <2>1. Tip \in Nat /\ Tip' = Tip
    BY <1>2, StoredSteps
  <2>2. CASE ServeSave /\ Stored' = save.body /\ save.mode = "draft"
    <3>1. save # None
      BY <2>2 DEF ServeSave
    <3> QED  BY <2>2, <3>1, KeptFacts
  <2>3. CASE Stored' = Stored
    BY <1>2, <2>1, <2>3, KeptFacts
  <2> QED  BY <2>1, <2>2, <2>3, StoredSteps
<1> QED  BY <1>1, <1>2

LEMMA RunningStep ==
    ASSUME SessionInv, [Next]_vars, run' # None, agent' = "running"
    PROVE  Holds(run.base, run.body)'
<1> USE DEF SessionInv
<1>1. CASE agent = "running" /\ run' = run
  <2>1. run.base \in Nat /\ run.base =< Tip /\ Holds(run.base, run.body)
    BY <1>1 DEF TypeOK, Ordered, RunBases, Safe, RunsRead
  <2> QED  BY <1>1, <2>1, HoldsStep DEF Holds
<1>2. CASE Attach
  <2>1. run' = run /\ Kept \subseteq run.body /\ Kept' \subseteq Kept
    BY <1>2, KeptFacts DEF Attach, Safe, RunsRead, Starting
  <2> QED  BY <2>1 DEF Holds
<1>3. CASE EndRun
  BY <1>3 DEF EndRun
<1>4. CASE StartRun
  BY <1>4 DEF StartRun
<1> QED
  BY <1>1, <1>2, <1>3, <1>4
     DEF Next, vars, server, counts, library, surface, bounds, lost, history, saveUnchanged,
         loadUnchanged, clientUnchanged, Type, AutoSave, SaveVersion, Exported, ExportFails,
         ServeSave, RequestFails, Saved, Refused, Fetch, Apply, LoadFails, Retry,
         AutoRefresh, DiscardAndReload, Turn, News, Submit, BeforeAgentSave, RunEnded,
         PreviewUpdated, FetchPreview, CheckPreview, BeginPreview, ApplyPreview, ForeignSave,
         SaveFails, CountFault, Write, Store

LEMMA RunsReadStep ==
    ASSUME SessionInv, [Next]_vars
    PROVE  RunsRead'
BY PostingStep, StartedStep, RunningStep DEF RunsRead

\* What becomes of a preview.
LEMMA PaintingSteps ==
    ASSUME SessionInv, [Next]_vars, painting' # None
    PROVE  \/ painting' = painting
           \/ FetchPreview
           \/ /\ CheckPreview /\ painting # None /\ painting.step = "fetched"
              /\ CanApplyWorkingPreview(painting.base) /\ painting.run = runs
              /\ painting'.step = IF reloading THEN "waiting" ELSE "apply"
              /\ painting'.run = painting.run /\ painting'.base = painting.base
              /\ painting'.body = painting.body
           \/ /\ BeginPreview /\ painting # None /\ painting.step = "waiting"
              /\ painting'.step = "apply"
              /\ painting'.run = painting.run /\ painting'.base = painting.base
              /\ painting'.body = painting.body
<1>1. painting # None => painting \in [step : {"fetched", "waiting", "apply"}, run : Nat,
                                       base : Nat, body : Contents]
  BY DEF SessionInv, TypeOK
<1>2. CASE CheckPreview
  BY <1>1, <1>2 DEF CheckPreview
<1>3. CASE BeginPreview
  BY <1>1, <1>3 DEF BeginPreview, PreviewPolls
<1>4. CASE \E e \in Edits : Type(e)
  BY <1>4 DEF Type
<1>5. CASE ApplyPreview
  BY <1>5 DEF ApplyPreview
<1> QED
  BY <1>2, <1>3, <1>4, <1>5
     DEF Next, vars, server, counts, library, surface, bounds, lost, history, saveUnchanged,
         loadUnchanged, clientUnchanged, AutoSave, SaveVersion, Exported, ExportFails,
         ServeSave, RequestFails, Saved, Refused, Fetch, Apply, LoadFails, Retry,
         AutoRefresh, DiscardAndReload, Turn, News, Submit, BeforeAgentSave, StartRun,
         Attach, EndRun, RunEnded, PreviewUpdated, ForeignSave, SaveFails, CountFault, Write,
         Store

LEMMA PreviewsReadStep ==
    ASSUME SessionInv, [Next]_vars
    PROVE  PreviewsRead'
<1> USE DEF SessionInv
<1> SUFFICES ASSUME painting' # None, painting'.run = runs', agent' = "running"
             PROVE  Holds(painting.base, painting.body)'
  BY DEF PreviewsRead
<1>1. runs \in Nat /\ (runs' = runs \/ (runs' = runs + 1 /\ painting' = painting))
  <2>1. runs \in Nat
    BY DEF TypeOK
  <2>2. CASE Submit
    BY <2>1, <2>2 DEF Submit
  <2> QED
    BY <2>1, <2>2 DEF Next, vars, server, counts, library, surface, bounds, lost, history, saveUnchanged,
        loadUnchanged, clientUnchanged, Type, AutoSave, SaveVersion, Exported,
        ExportFails, ServeSave, RequestFails, Saved, Refused, Fetch, Apply, LoadFails,
        Retry, AutoRefresh, DiscardAndReload, Turn, News, BeforeAgentSave, StartRun,
        Attach, EndRun, RunEnded, PreviewUpdated, FetchPreview, CheckPreview,
        BeginPreview, ApplyPreview, ForeignSave, SaveFails, CountFault, Write, Store
<1>2. CASE FetchPreview
  <2>1. /\ painting' = [step |-> "fetched", run |-> runs, base |-> run.base,
                        body |-> run.body \cup {Work}]
        /\ run # None /\ preview
        /\ UNCHANGED <<Kept, Stored, Tip, save>>
    BY <1>2 DEF FetchPreview, CanApplyWorkingPreview, clientUnchanged, Kept, Stored, Tip, server,
                history, lost
  <2>2. Holds(run.base, run.body)
    BY <2>1 DEF Phases, Panel, Safe, RunsRead
  <2> QED  BY <2>1, <2>2 DEF Holds
<1>3. ASSUME painting # None, painting'.run = painting.run, painting'.base = painting.base,
             painting'.body = painting.body
      PROVE  Holds(painting.base, painting.body)'
  <2>1. painting.run \in Nat /\ painting.run =< runs /\ painting.base \in Nat /\ painting.base =< Tip
    BY <1>3 DEF TypeOK, Ordered, Numbers, PaintingBases
  <2>2. painting.run = runs
    BY <1>1, <1>3, <2>1
  <2>3. agent = "running"
    <3>1. agent \in {"running", "idle"}
      BY <1>3, <2>2 DEF Phases, Panel
    <3> QED  BY <3>1 DEF Next, vars, server, counts, library, surface, bounds, lost, history, saveUnchanged,
              loadUnchanged, clientUnchanged, Type, AutoSave, SaveVersion, Exported,
              ExportFails, ServeSave, RequestFails, Saved, Refused, Fetch, Apply,
              LoadFails, Retry, AutoRefresh, DiscardAndReload, Turn, News, Submit,
              BeforeAgentSave, StartRun, Attach, EndRun, RunEnded, PreviewUpdated,
              FetchPreview, CheckPreview, BeginPreview, ApplyPreview, ForeignSave,
              SaveFails, CountFault, Write, Store
  <2>4. Holds(painting.base, painting.body)
    BY <1>3, <2>2, <2>3 DEF Safe, PreviewsRead
  <2> QED  BY <1>3, <2>1, <2>3, <2>4, HoldsStep DEF Holds
<1> QED  BY <1>2, <1>3, PaintingSteps

LEMMA PreviewsSavedStep ==
    ASSUME SessionInv, [Next]_vars
    PROVE  PreviewsSaved'
<1> USE DEF SessionInv
<1>1. ASSUME painting' # None, painting'.step = "waiting"
      PROVE  Kept' = {}
  <2>1. CASE painting' = painting
    <3>1. Kept = {}
      BY <1>1, <2>1 DEF Safe, PreviewsSaved
    <3>2. Kept' \subseteq Kept
      <4>1. CASE \E e \in Edits : Type(e)
        <5>1. ~PreviewPolls
          BY <1>1, <4>1, TypeSteps
        <5>2. reloading
          BY <1>1, <2>1, <5>1 DEF PreviewPolls
        <5> QED  BY <5>2, KeptFacts
      <4> QED  BY <4>1, KeptSteps
    <3> QED  BY <3>1, <3>2
  <2>2. CASE /\ CheckPreview /\ painting # None /\ painting.step = "fetched"
             /\ CanApplyWorkingPreview(painting.base)
             /\ painting'.step = IF reloading THEN "waiting" ELSE "apply"
    <3>1. reload # None /\ loaded = latest /\ ~conflict
      BY <1>1, <2>2 DEF CanApplyWorkingPreview, reloading
    <3> QED  BY <3>1, KeptFacts DEF Safe, ReloadsSaved
  <2>3. CASE FetchPreview
    BY <1>1, <2>3 DEF FetchPreview
  <2> QED  BY <1>1, <2>1, <2>2, <2>3, PaintingSteps
<1>2. ASSUME painting' # None, painting'.step = "apply"
      PROVE  Kept' \subseteq Stored' /\ (Near' => Kept' \subseteq painting'.body)
  <2>1. CASE painting' = painting
    <3>1. /\ Kept \subseteq Stored /\ (Near => Kept \subseteq painting.body)
          /\ reload = None \/ reload.step = "wait"
      BY <1>2, <2>1 DEF Safe, PreviewsSaved, Phases, Turns
    <3>2. Kept' \subseteq Kept
      BY <1>2, <2>1, KeptFacts DEF reloading
    <3>3. ~Apply
      BY <3>1 DEF Apply
    <3> QED  BY <2>1, <3>1, <3>2, <3>3, NearSteps, StoredKept
  <2>2. CASE /\ CheckPreview /\ painting # None /\ painting.step = "fetched"
             /\ CanApplyWorkingPreview(painting.base) /\ painting.run = runs
             /\ painting'.body = painting.body
    <3>1. /\ ~dirty /\ save = None /\ painting.base = loaded /\ agent = "running"
      BY <2>2 DEF CanApplyWorkingPreview, Phases, Panel
    <3>2. /\ UNCHANGED <<Kept, Stored, Tip, loaded, save>>
      BY <2>2 DEF CheckPreview, clientUnchanged, Kept, Stored, Tip, server, history, lost, surface
    <3>3. Kept \subseteq Stored
      BY <3>1 DEF Safe, CountsTrue
    <3>4. ASSUME Near'
          PROVE  Kept \subseteq painting.body
      <4>1. painting.base = Tip
        BY <3>1, <3>2, <3>4 DEF Near, Underway
      <4> QED  BY <2>2, <3>1, <3>3, <4>1 DEF Safe, PreviewsRead, Holds
    <3> QED  BY <2>2, <3>2, <3>3, <3>4
  <2>3. CASE BeginPreview /\ painting # None /\ painting.step = "waiting"
    <3>1. Kept = {}
      BY <2>3 DEF Safe, PreviewsSaved
    <3>2. Kept' = Kept
      BY <2>3 DEF BeginPreview, Kept, history, lost
    <3> QED  BY <3>1, <3>2
  <2>4. CASE FetchPreview
    BY <1>2, <2>4 DEF FetchPreview
  <2> QED  BY <1>2, <2>1, <2>2, <2>3, <2>4, PaintingSteps
<1> QED  BY <1>1, <1>2 DEF PreviewsSaved

LEMMA RunReadsStep ==
    ASSUME SessionInv, [Next]_vars
    PROVE  RunReadsTheEdits'
<1> USE DEF SessionInv
<1> SUFFICES ASSUME run' # None
             PROVE  asked' \ discarded' \subseteq run'.body
  BY DEF RunReadsTheEdits
<1>1. CASE StartRun
  <2>1. /\ UNCHANGED <<asked, discarded>> /\ agent = "posting"
        /\ run' = run \/ run' = [base |-> Tip, draftId |-> DraftId, body |-> Stored]
    BY <1>1 DEF StartRun, history, lost
  <2>2. run' # run
    BY <2>1 DEF Phases, Panel
  <2>3. asked \ discarded \subseteq Kept
    BY DEF Seen, SeenAsked, Kept
  <2>4. Kept \subseteq Stored
    BY <2>1 DEF Safe, RunsRead
  <2> QED  BY <2>1, <2>2, <2>3, <2>4
<1>2. CASE Submit
  BY <1>2 DEF Submit, Phases, Panel
<1>3. CASE EndRun
  BY <1>3 DEF EndRun
<1>4. CASE run' = run /\ asked' = asked /\ discarded \subseteq discarded'
  BY <1>4 DEF Safe, RunReadsTheEdits
<1>5. CASE DiscardAndReload
  BY <1>4, <1>5 DEF DiscardAndReload, loadUnchanged
<1>6. CASE \E e \in Edits : Type(e)
  BY <1>4, <1>6 DEF Type
<1> QED
  BY <1>1, <1>2, <1>3, <1>4, <1>5, <1>6
     DEF Next, vars, server, counts, library, surface, bounds, lost, history, saveUnchanged,
         loadUnchanged, clientUnchanged, AutoSave, SaveVersion, Exported, ExportFails,
         ServeSave, RequestFails, Saved, Refused, Fetch, Apply, LoadFails, Retry,
         AutoRefresh, Turn, News, BeforeAgentSave, Attach, RunEnded, PreviewUpdated,
         FetchPreview, CheckPreview, BeginPreview, ApplyPreview, ForeignSave, SaveFails,
         CountFault, Write, Store

\* No step loses an edit.
LEMMA SafeStep ==
    ASSUME SessionInv, [Next]_vars
    PROVE  Safe'
BY LostStep, OnScreenStep, MarksStep, ExportsStep, LandsStep, LandedStep, CountsTrueStep,
   ReloadsSavedStep, ReloadsNewestStep, RunsReadStep, PreviewsReadStep, PreviewsSavedStep,
   RunReadsStep
   DEF Safe

LEMMA NextSessionInv ==
    ASSUME SessionInv, [Next]_vars
    PROVE  SessionInv'
BY TypesStep, OrderedStep, SeenStep, PhasesStep, SafeStep DEF SessionInv

LEMMA InitSessionInv == Init => SessionInv
<1> SUFFICES ASSUME Init PROVE SessionInv
  OBVIOUS
<1>1. /\ bodies = <<{}>> /\ draft = None /\ drafts = 0 /\ run = None
      /\ phase = "loading" /\ loaded = 0 /\ latest = 1 /\ draftId = None
      /\ dirty = FALSE /\ conflict = FALSE /\ tried = -1 /\ preview = FALSE
      /\ revision = 0 /\ savedRevision = 0 /\ versionRevision = 0 /\ save = None
      /\ queued = FALSE /\ shown = {} /\ baseline = {} /\ marked = {} /\ needsFull = FALSE
      /\ reload = Opening(1) /\ painting = None /\ agent = "idle"
      /\ foreign = 0 /\ runs = 0 /\ faults = 0
      /\ typed = {} /\ exposed = {} /\ discarded = {} /\ asked = {}
  BY DEF Init
<1>2. /\ bodies \in Seq(Contents) /\ Len(bodies) = 1 /\ bodies[1] = {}
  BY <1>1 DEF Contents
<1>3. /\ reload \in Reloads /\ reload.kind = "open" /\ reload.target = 1
      /\ reload.step = "fetch" /\ reload.body = {}
  <2>1. reload = [kind |-> "open", step |-> "fetch", target |-> 1, body |-> {}, draftId |-> None]
    BY <1>1 DEF Opening
  <2>2. reload \in Reloads
    BY <2>1 DEF Reloads, Contents
  <2> QED  BY <2>1, <2>2
<1>4. TypeOK
  <2>1. ServerTypes
    BY <1>1, <1>2 DEF ServerTypes
  <2>2. SurfaceTypes
    <3>1. {dirty, conflict, preview, queued, needsFull} \subseteq BOOLEAN
      BY ONLY <1>1
    <3>2. {tried, versionRevision} \subseteq Int
      BY ONLY <1>1
    <3>3. /\ phase \in {"loading", "ready", "error"} /\ loaded \in Nat /\ latest \in Nat
          /\ draftId \in Nat \cup {None} /\ revision \in Nat /\ savedRevision \in Nat
      BY ONLY <1>1
    <3> QED  BY <3>1, <3>2, <3>3 DEF SurfaceTypes
  <2>3. SaveTypes /\ PaintingTypes /\ ReloadTypes
    BY <1>1, <1>3 DEF SaveTypes, PaintingTypes, ReloadTypes
  <2>4. ScreenTypes
    BY <1>1 DEF ScreenTypes, Contents
  <2>5. AgentTypes
    BY <1>1 DEF AgentTypes
  <2> QED  BY <2>1, <2>2, <2>3, <2>4, <2>5, TypesApart
<1>5. Tip = 1 /\ Kept = {}
  BY <1>1, <1>2 DEF Tip, Kept
<1>6. Ordered
  BY <1>1, <1>3, <1>5 DEF Ordered, Versions, SaveBases, Targets, RunBases, PaintingBases,
     Revisions, Numbers
<1>7. Seen
  BY <1>1, <1>2, <1>3, <1>5 DEF Seen, SeenServer, SeenRun, SeenSave, SeenReload, SeenPainting,
     SeenScreen, SeenAsked
<1>8. Phases
  BY <1>1 DEF Phases, Opens, Turns, Conflicts, Panel, RunIsStored
<1>9. Safe
  BY <1>1, <1>5 DEF Safe, NoEditIsLost, OnScreen, Marks, Exports, Lands, Landed, CountsTrue,
     ReloadsSaved, ReloadsNewest, RunsRead, PreviewsRead, PreviewsSaved, RunReadsTheEdits
<1> QED  BY <1>4, <1>6, <1>7, <1>8, <1>9 DEF SessionInv

-----------------------------------------------------------------------------
(* Results.                                                                *)

\* The inductive invariant of the editor, the server and the run: no step of a user, a
\* save, a refresh, a preview or another tab breaks it (docx-surface.tsx, editor-save.ts).
THEOREM SessionInvariant == Spec => []SessionInv
BY InitSessionInv, NextSessionInv, PTL DEF Spec

\* The variables keep their types.
THEOREM TypesHold == Spec => []TypeOK
<1>1. SessionInv => TypeOK
  BY DEF SessionInv
<1> QED  BY <1>1, SessionInvariant, PTL

\* An edit the user has not given up is on screen or on the server, whatever
\* saves, reloads, refreshes, previews, runs and other tabs overlap.
THEOREM EditsSurvive == Spec => []NoEditIsLost
<1>1. SessionInv => NoEditIsLost
  BY DEF SessionInv, Safe
<1> QED  BY <1>1, SessionInvariant, PTL

\* An editor that shows no unsaved changes has none the server lacks.
THEOREM SavedMeansStored == Spec => []CleanIsSaved
<1>1. SessionInv => CleanIsSaved
  BY DEF SessionInv, Safe, CountsTrue, CleanIsSaved
<1> QED  BY <1>1, SessionInvariant, PTL

\* A run reads every edit that was on screen when the user asked for it.
THEOREM RunsReadAll == Spec => []RunReadsTheEdits
<1>1. SessionInv => RunReadsTheEdits
  BY DEF SessionInv, Safe
<1> QED  BY <1>1, SessionInvariant, PTL
=============================================================================
