---------------------------- MODULE WorkingCopy -----------------------------
(***************************************************************************)
(* The working copy of a DOCX that a run edits                             *)
(* (createActiveDocxSession of apps/api/src/agent/docx-tools.ts), with     *)
(* what the model is shown of it: the handles of its reads, the reads it   *)
(* may reuse (guardRepeatedReads) and the complete view in its prompt      *)
(* (projectMessages of agent/execution.ts).                                *)
(*                                                                         *)
(* Content is the sequence of the changes made to a document.  A handle    *)
(* is a position in the content it was read from, and is that content      *)
(* here.  Users save and autosave the same documents from their tabs.      *)
(*                                                                         *)
(* A run makes its calls one after the other (TurnLoop); in between only   *)
(* the tabs act, so a call is one action but for the selection, which      *)
(* reads the document twice.  A turn may make its calls in any order here. *)
(***************************************************************************)
EXTENDS Integers, Sequences, FiniteSets

CONSTANTS
    Existing,    \* documents that exist when the run starts
    Created,     \* documents it may create
    None,
    MaxTurns, MaxEdits, MaxTyped, MaxFaults   \* bounds, for TLC

Docs == Existing \cup Created

Change == {"moves", "keeps", "fields", "typed"}
Content == Seq(Change)
Selections == [doc : Docs, version : Nat]

ASSUME DocsAssumption == Existing \cap Created = {}
ASSUME NoneAssumption == None \notin Docs \cup ((Docs \cup {None}) \X Nat) \cup Selections \cup Content
ASSUME BoundsAssumption == {MaxTurns, MaxEdits, MaxTyped, MaxFaults} \subseteq Nat

VARIABLES
    versions,    \* versions[d] : the contents of the versions of d
    draft,       \* draft[d] : content of the document_draft row of d, or None
    phase,
    locked,      \* editableDocumentId, or None
    s,           \* the session's fields
    handles,     \* currentHandles: the contents they were read from
    changed,     \* documentChangedThisTurn
    selecting,   \* the selection between its two reads, or None
    turn,
    mixed,       \* the response of this turn has calls other than guarded reads
    observed,    \* guarded reads since the last response with other calls
    view,        \* directVersionId, directMessage and directAttemptedRevision
    failed,      \* persistenceFailure
    made, typed, faults   \* changes of the run and of the tabs; failed calls

store   == <<versions, draft>>
reads   == <<handles, changed, observed>>
history == <<made, typed, faults>>
vars == <<store, phase, locked, s, reads, selecting, turn, mixed, view, failed, history>>

\* A mutation that is not in HANDLE_PRESERVING_MUTATIONS moves positions.
Edits == {"moves", "keeps"}

\* Where a content has changes of these kinds, and how many.
Places(c, kinds) == {i \in DOMAIN c : c[i] \in kinds}
Count(c, kinds) == Cardinality(Places(c, kinds))

Tip(d) == Len(versions[d])
Exists(d) == Tip(d) > 0
Working(d) == IF draft[d] = None THEN versions[d][Tip(d)] ELSE draft[d]

\* readVersionForEditing: the draft, if it continues this version.
DraftOf(d, v) == IF v = Tip(d) THEN draft[d] ELSE None
Editing(d, v) == IF DraftOf(d, v) = None THEN versions[d][v] ELSE draft[d]

Session == [doc : Docs \cup {None}, version : Nat, draft : Content \cup {None},
            host : Content, dirty : BOOLEAN, revision : Nat, count : Nat]
Key == <<s.doc, s.version, s.revision>>

TypeOK ==
    /\ versions \in [Docs -> Seq(Content)]
    /\ draft \in [Docs -> Content \cup {None}]
    /\ phase \in {"opening", "retrieving", "running", "finishing", "ended"}
    /\ locked \in Docs \cup {None}
    /\ s \in Session
    /\ handles \subseteq Content
    /\ {changed, mixed, failed} \subseteq BOOLEAN
    /\ selecting \in Selections \cup {None}
    /\ {turn, faults} \subseteq Nat
    /\ observed \subseteq [key : (Docs \cup {None}) \X Nat \X Nat, body : Content, turn : Nat]
    /\ view \in [of : (Docs \X Nat) \cup {None}, message : BOOLEAN, revision : Nat,
                 body : [Docs -> Content \cup {None}]]
    /\ made \in [Docs -> Nat] /\ typed \in [Docs -> Nat]

NoView == [of |-> None, message |-> FALSE, revision |-> 0, body |-> [d \in Docs |-> None]]

\* The run's target, if it has one; a continuation is locked to it.
Init ==
    /\ versions = [d \in Docs |-> IF d \in Existing THEN << <<>> >> ELSE <<>>]
    /\ draft = [d \in Docs |-> None]
    /\ phase = "opening"
    /\ \E target \in Existing \cup {None} :
         /\ locked \in {None, target}
         /\ s = [doc |-> target, version |-> IF target = None THEN 0 ELSE 1, draft |-> None,
                 host |-> <<>>, dirty |-> FALSE, revision |-> 0, count |-> 0]
    /\ handles = {} /\ changed = FALSE /\ selecting = None
    /\ turn = 0 /\ mixed = FALSE /\ observed = {} /\ view = NoView
    /\ failed = FALSE
    /\ made = [d \in Docs |-> 0] /\ typed = [d \in Docs |-> 0] /\ faults = 0

CountFault == faults < MaxFaults /\ faults' = faults + 1
Ready == phase = "running" /\ selecting = None
InTurn == Ready /\ turn > 0 /\ mixed

-----------------------------------------------------------------------------
(* The tabs of the user.                                                   *)

Types(d) ==
    /\ Exists(d) /\ typed[d] < MaxTyped
    /\ typed' = [typed EXCEPT ![d] = @ + 1]
    /\ UNCHANGED <<phase, locked, s, reads, selecting, turn, mixed, view, failed, made, faults>>

Autosaved(d) ==
    /\ Types(d)
    /\ draft' = [draft EXCEPT ![d] = Append(Working(d), "typed")]
    /\ UNCHANGED versions

SavedElsewhere(d) ==
    /\ Types(d)
    /\ versions' = [versions EXCEPT ![d] = Append(@, Append(Working(d), "typed"))]
    /\ draft' = [draft EXCEPT ![d] = None]

-----------------------------------------------------------------------------
(* The session.                                                            *)

Rebind(d, v, body, draftId) ==
    [s EXCEPT !.doc = d, !.version = v, !.draft = draftId, !.host = body,
              !.dirty = FALSE, !.revision = 0]

Advance(change, applied) ==
    [s EXCEPT !.host = @ \o [i \in 1 .. applied |-> change], !.dirty = TRUE,
              !.revision = @ + 1, !.count = @ + applied]

\* A read registers its handles; the content identifies them.
Inspect ==
    /\ Ready /\ turn > 0 /\ s.doc # None
    /\ handles' = handles \cup {s.host}
    /\ observed' = IF mixed THEN observed
                   ELSE observed \cup {[key |-> Key, body |-> s.host, turn |-> turn]}
    /\ UNCHANGED <<store, phase, locked, s, changed, selecting, turn, mixed, view, failed, history>>

\* guardRepeatedReads: an earlier turn read the same state.
Reusable(o) == ~mixed /\ o.turn < turn /\ o.key = Key

\* advanceWorkingState
Changes(change, applied) ==
    /\ s.doc # None /\ s.count + applied <= MaxEdits
    /\ s' = Advance(change, applied)
    /\ made' = [made EXCEPT ![s.doc] = @ + applied]
    /\ changed' = TRUE
    /\ handles' = IF change = "keeps" THEN handles ELSE {}
    /\ UNCHANGED <<store, locked, observed, selecting, turn, mixed, view, failed, typed, faults>>

\* mutate, and mutateBatch whose first operations were applied: whether the
\* batch then failed makes no difference to the session.  A style profile
\* and the workspace's brand replace the bytes; the profile keeps to the lock.
Edit(change, applied) == InTurn /\ Changes(change, applied) /\ UNCHANGED phase
Restyle(profile) ==
    /\ profile => locked \in {None, s.doc}
    /\ Edit("moves", 1)

\* After the last turn of a run that succeeded.
ApplyAppearance == Ready /\ turn > 0 /\ phase' = "finishing" /\ Changes("moves", 1)

-----------------------------------------------------------------------------
(* Saving.                                                                 *)

\* appendDocumentVersion: it continues the latest version and its draft.
UpToDate == s.version = Tip(s.doc) /\ s.draft = draft[s.doc]

\* The bytes after a field refresh, accepted or not; one per document.
Refreshes == {s.host} \cup (IF Count(s.host, {"fields"}) = 0 THEN {Append(s.host, "fields")} ELSE {})

Appended(body) == [versions |-> [versions EXCEPT ![s.doc] = Append(@, body)],
                   draft |-> [draft EXCEPT ![s.doc] = None]]
Saved(h) == [s EXCEPT !.host = h, !.dirty = FALSE, !.draft = None, !.version = @ + 1]
ThrownClean(h) == [s EXCEPT !.host = h, !.dirty = FALSE]                     \* mutant
Thrown(h) == [s EXCEPT !.host = h]
Stored == [versions |-> versions, draft |-> draft]

\* What flush may do: the session after it, the rows, and whether it threw.
\* A fault is a call that fails, or a commit whose reply is lost.
Flushes ==
    IF ~s.dirty THEN {[ok |-> TRUE, session |-> s, store |-> Stored, fault |-> FALSE]}
    ELSE {[ok |-> TRUE, session |-> Saved(h), store |-> Appended(h), fault |-> FALSE] :
             h \in {x \in Refreshes : UpToDate}}
         \cup {[ok |-> FALSE, session |-> Thrown(h), store |-> Stored, fault |-> UpToDate] :
             h \in Refreshes}
         \cup {[ok |-> FALSE, session |-> Thrown(h), store |-> Appended(h), fault |-> TRUE] :
             h \in {x \in Refreshes : UpToDate}}

Faulty(fault) == IF fault THEN CountFault ELSE UNCHANGED faults

\* The document is created but not made active: the flush threw, or the
\* creation did, or a blank document could not be read back.
CreateFails(f, orphan) ==
    /\ InTurn /\ (f.ok \/ ~orphan)
    /\ s' = f.session /\ draft' = f.store.draft
    /\ Faulty(f.fault \/ f.ok)
    /\ \E d \in Created :
         /\ ~Exists(d)
         /\ versions' = IF orphan THEN [f.store.versions EXCEPT ![d] = << <<>> >>]
                        ELSE f.store.versions
    /\ UNCHANGED <<phase, locked, reads, selecting, turn, mixed, view, failed, made, typed>>

\* A duplicate of an unchanged document has the view of its source.
ViewOfCreated(d, duplicated) ==
    IF duplicated /\ view.of # None /\ s.count = 0
    THEN [view EXCEPT !.of = <<d, 1>>, !.revision = 0, !.body[d] = view.body[s.doc]]
    ELSE [view EXCEPT !.of = None]

\* createBlank and copyAttachment, or duplicateCurrent: activateCreated.
Create(f, d, duplicated) ==
    LET body == IF duplicated THEN f.session.host ELSE <<>>
    IN  /\ InTurn /\ f.ok /\ ~Exists(d)
        /\ duplicated => s.doc # None
        /\ versions' = [f.store.versions EXCEPT ![d] = <<body>>]
        /\ draft' = f.store.draft
        /\ s' = Rebind(d, 1, body, None)
        /\ handles' = {}
        /\ view' = ViewOfCreated(d, duplicated)
        /\ made' = [made EXCEPT ![d] = Count(body, Edits)]
        /\ typed' = [typed EXCEPT ![d] = Count(body, {"typed"})]
        /\ UNCHANGED <<phase, locked, changed, observed, selecting, turn, mixed, failed, faults>>

\* selectDocument: the latest version, then its bytes.
Select(d) ==
    /\ InTurn /\ Exists(d)
    /\ locked \in {None, d} /\ d # s.doc
    /\ s.count = 0 /\ ~s.dirty
    /\ selecting' = [doc |-> d, version |-> Tip(d)]
    /\ UNCHANGED <<store, phase, locked, s, reads, turn, mixed, view, failed, history>>

\* The listing the view was made from was read when the run started.
ViewOfSelected(d, v) == IF view.message /\ d \in Existing /\ v = 1 THEN <<d, v>> ELSE None

Selected ==
    LET d == selecting.doc
        v == selecting.version
    IN  /\ selecting # None
        /\ s' = Rebind(d, v, Editing(d, v), DraftOf(d, v))
        /\ handles' = {}
        /\ view' = [view EXCEPT !.of = ViewOfSelected(d, v)]
        /\ selecting' = None
        /\ UNCHANGED <<store, phase, locked, changed, observed, turn, mixed, failed, history>>

SelectFails ==
    /\ selecting # None /\ selecting' = None
    /\ CountFault
    /\ UNCHANGED <<store, phase, locked, s, reads, turn, mixed, view, failed, made, typed>>

-----------------------------------------------------------------------------
(* The run.                                                                *)

\* createPrimaryDocxTools opens the document the run was started on.
Open ==
    /\ phase = "opening" /\ phase' = "retrieving"
    /\ s' = IF s.doc = None THEN s
            ELSE Rebind(s.doc, s.version, Editing(s.doc, s.version), DraftOf(s.doc, s.version))
    /\ UNCHANGED <<store, locked, reads, selecting, turn, mixed, view, failed, history>>

\* The context is read anew; a complete view is made of small documents only.
Retrieve(direct) ==
    /\ phase = "retrieving" /\ phase' = "running"
    /\ view' = IF ~direct THEN NoView
               ELSE [NoView EXCEPT
                       !.of = IF s.doc = None THEN None ELSE <<s.doc, s.version>>,
                       !.message = TRUE,
                       !.body = [d \in Docs |-> IF d \in Existing THEN Editing(d, 1) ELSE None]]
    /\ UNCHANGED <<store, locked, s, reads, selecting, turn, mixed, failed, history>>

ProjectedUncleared(ok) ==                                                    \* mutant
    IF view.of = None \/ s.revision = view.revision THEN view
    ELSE [view EXCEPT !.revision = s.revision,
                      !.body = IF ok /\ s.dirty THEN [@ EXCEPT ![s.doc] = s.host] ELSE @]
\* projectMessages makes the view of a changed document anew, if it can.
Projected(ok) ==
    IF view.of = None \/ s.revision = view.revision THEN view
    ELSE [view EXCEPT !.revision = s.revision, !.message = ok /\ s.dirty,
                      !.body = IF ok /\ s.dirty THEN [@ EXCEPT ![s.doc] = s.host] ELSE @]

AtBoundaryKept == handles                                                    \* mutant
\* setModelTurn
AtBoundary == IF changed THEN {} ELSE handles
ObservedKept(others) == observed                                             \* mutant
\* The barrier of guardRepeatedReads.
Observed(others) == IF others THEN {} ELSE observed

BeginTurn(others, ok) ==
    /\ Ready /\ turn < MaxTurns
    /\ turn' = turn + 1 /\ mixed' = others
    /\ view' = Projected(ok)
    /\ handles' = AtBoundary
    /\ changed' = FALSE
    /\ observed' = Observed(others)
    /\ UNCHANGED <<store, phase, locked, s, selecting, failed, history>>

\* flushWorking, once, however the run ended.
EndRun(f) ==
    /\ phase \in {"running", "finishing"} /\ selecting = None
    /\ phase' = "ended"
    /\ handles' = AtBoundary
    /\ changed' = FALSE
    /\ s' = f.session /\ versions' = f.store.versions /\ draft' = f.store.draft
    /\ failed' = ~f.ok
    /\ Faulty(f.fault)
    /\ UNCHANGED <<locked, observed, selecting, turn, mixed, view, made, typed>>

Call ==
    \/ Inspect \/ Selected \/ SelectFails
    \/ \E change \in Edits, applied \in 1 .. 2 : Edit(change, applied)
    \/ \E profile \in BOOLEAN : Restyle(profile)
    \/ \E d \in Docs : Select(d)
    \/ \E f \in Flushes, orphan \in BOOLEAN : CreateFails(f, orphan)
    \/ \E f \in Flushes, d \in Created, duplicated \in BOOLEAN :
         Faulty(f.fault) /\ Create(f, d, duplicated)

Run ==
    \/ Open
    \/ \E direct \in BOOLEAN : Retrieve(direct)
    \/ \E others, ok \in BOOLEAN : BeginTurn(others, ok)
    \/ ApplyAppearance
    \/ \E f \in Flushes : EndRun(f)

Tabs == \E d \in Docs : Autosaved(d) \/ SavedElsewhere(d)

Next == Run \/ Call \/ Tabs

Spec == Init /\ [][Next]_vars

-----------------------------------------------------------------------------
(* Properties.                                                             *)

\* c goes on from h by changes of these kinds.
GoesOn(c, h, kinds) ==
    /\ Len(h) =< Len(c)
    /\ \A i \in DOMAIN c : IF i =< Len(h) THEN c[i] = h[i] ELSE c[i] \in kinds

HandlesAllow(kinds) == \A h \in handles : GoesOn(s.host, h, kinds)

\* A handle the model holds was read from the document that is active, and
\* nothing moved the positions since; in a turn that has not edited, what it
\* points to is as it was read.  A field refresh is excepted.
HandlesAreCurrent ==
    phase = "running" => HandlesAllow(IF changed THEN {"keeps", "fields"} ELSE {"fields"})

\* A read that is answered by an earlier one would have returned the same,
\* and the handles the earlier one returned are still accepted.
ReuseIsCurrent ==
    phase = "running" => \A o \in observed : Reusable(o) => o.body = s.host /\ o.body \in handles

\* When the model is asked, the view in its prompt holds the changes the run
\* has made to the active document, all of them and no others.
Shown == IF view.message /\ view.of = <<s.doc, s.version>> THEN view.body[s.doc] ELSE None

\* The run's changes in a content, numbered in their order.
OwnChanges(c) == {<<Count(SubSeq(c, 1, i), Edits), c[i]>> : i \in Places(c, Edits)}
ViewIsCurrent ==
    [][turn' > turn => (Shown = None \/ OwnChanges(Shown) = OwnChanges(s.host))']_vars

OwnAreKept ==
    \A d \in {x \in Docs : Exists(x)} :
      \/ Count(versions[d][Tip(d)], Edits) = made[d]
      \/ /\ d = s.doc /\ s.dirty
         /\ Count(s.host, Edits) = made[d]
         /\ phase = "ended" => failed
OthersAreKept ==
    \A d \in {x \in Docs : Exists(x)} : Count(Working(d), {"typed"}) = typed[d]

\* What the run changed is in the latest version of its document, or in the
\* working copy that is still to be saved, and a run that ends without saving
\* says so; what the tabs saved and autosaved is not lost to a save of the
\* run.  This is through creations, duplicates, conflicts and failures.
NoEditIsLost == OwnAreKept /\ OthersAreKept
=============================================================================
