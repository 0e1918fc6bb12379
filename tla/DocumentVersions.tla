-------------------------- MODULE DocumentVersions --------------------------
(***************************************************************************)
(* One document: its versions, its autosave draft, the stored objects they *)
(* point to and the bytes its owner is charged for                         *)
(* (apps/api/src/documents/service.ts, storage-accounting/service.ts).     *)
(*                                                                         *)
(* A save puts its object first, then commits one transaction, then        *)
(* deletes the object it replaced or, after any error, its own.  The       *)
(* transactions that touch objects from the inside (restoreVersion, purge) *)
(* hold the lock of the document's row for several steps; the others are   *)
(* one step that waits for that lock.  Each operation draws one fresh id,  *)
(* which names it, its row and its object.                                 *)
(*                                                                         *)
(* edits[i] is what the bytes of i contain: the saves its author had read, *)
(* and his own.                                                            *)
(***************************************************************************)
EXTENDS Integers, Sequences, FiniteSets, FiniteSetsExt

CONSTANTS
    Ops,          \* operations of the owner, his tabs and his agent
    None,
    Size,         \* bytes of what each operation stores
    Quota,        \* STORAGE_QUOTA_BYTES
    MaxFailures   \* bound of the failing calls and restarts, for TLC

ASSUME SizesAssumption == Size \in [Ops -> Nat \ {0}] /\ Quota \in Nat
ASSUME NoneAssumption == None \notin Ops
ASSUME BoundsAssumption == MaxFailures \in Nat

VARIABLES
    (* the database *)
    doc,        \* the row of the document
    versions,   \* document_version by version_number, which starts at 1
    draft,      \* document_draft
    draftBase,  \* its baseVersionId
    used,       \* user_storage_account.used_bytes
    lock,       \* the transaction that holds the row's lock between its steps
    (* the object store *)
    objects,
    edits,
    (* operations in flight *)
    pc, kind,
    base, baseDraft,  \* what a save was based on
    seen,             \* the edits its author had read
    doomed,           \* objects an operation is about to delete
    keep,             \* the version number a restore goes back to
    (* bounds and history *)
    faults, crashes,
    torn              \* objects deleted before the transaction that drops their rows

db      == <<doc, versions, draft, draftBase, used>>
store   == <<objects, edits>>
request == <<kind, base, baseDraft, seen, keep>>
bounds  == <<faults, crashes>>
vars == <<db, lock, store, pc, request, doomed, bounds, torn>>

Tip == IF versions = <<>> THEN None ELSE versions[Len(versions)]
VersionSet == {versions[i] : i \in 1 .. Len(versions)}
Rows == VersionSet \cup ({draft} \ {None})

\* The bytes of S, counted one by one: the sum of their sizes.
Cells(S) == UNION {{i} \X (1 .. Size[i]) : i \in S}
Bytes(S) == Cardinality(Cells(S))


Kinds == {"none", "create", "append", "autosave", "restore", "purge"}
Pcs == {"idle", "reading", "editing", "stored", "sweepOld", "sweepOwn",
        "deleting", "saved", "failed"}

TypeOK ==
    /\ doc \in {"absent", "active", "trashed", "purged"}
    /\ versions \in Seq(Ops)
    /\ draft \in Ops \cup {None} /\ draftBase \in Ops \cup {None}
    /\ used \in 0 .. Quota
    /\ lock \in Ops \cup {None}
    /\ objects \in SUBSET Ops
    /\ edits \in [Ops -> SUBSET Ops]
    /\ pc \in [Ops -> Pcs] /\ kind \in [Ops -> Kinds]
    /\ base \in [Ops -> Ops \cup {None}] /\ baseDraft \in [Ops -> Ops \cup {None}]
    /\ seen \in [Ops -> SUBSET Ops]
    /\ doomed \in [Ops -> SUBSET Ops]
    /\ keep \in [Ops -> Nat]
    /\ faults \in Nat /\ crashes \in Nat
    /\ torn \in SUBSET Ops

Init ==
    /\ doc = "absent" /\ versions = <<>>
    /\ draft = None /\ draftBase = None
    /\ used = 0
    /\ lock = None
    /\ objects = {} /\ edits = [o \in Ops |-> {}]
    /\ pc = [o \in Ops |-> "idle"] /\ kind = [o \in Ops |-> "none"]
    /\ base = [o \in Ops |-> None] /\ baseDraft = [o \in Ops |-> None]
    /\ seen = [o \in Ops |-> {}]
    /\ doomed = [o \in Ops |-> {}]
    /\ keep = [o \in Ops |-> 0]
    /\ faults = 0 /\ crashes = 0
    /\ torn = {}

Go(o, p) == pc' = [pc EXCEPT ![o] = p]
MayFail == faults + crashes < MaxFailures
Fault == MayFail /\ faults' = faults + 1
Unlocked == lock = None
-----------------------------------------------------------------------------
(* Reading a document to edit it.                                          *)

\* A new document, from an upload, a blank one or a copy.
BeginCreate(o) ==
    /\ pc[o] = "idle" /\ doc = "absent"
    /\ kind' = [kind EXCEPT ![o] = "create"]
    /\ Go(o, "editing")
    /\ UNCHANGED <<db, lock, store, base, baseDraft, seen, keep, doomed, bounds, torn>>

\* getOwnedDocument: the editor, or the agent, learns the latest version.
ReadTip(o) ==
    /\ pc[o] = "idle" /\ doc = "active"
    /\ base' = [base EXCEPT ![o] = Tip]
    /\ Go(o, "reading")
    /\ UNCHANGED <<db, lock, store, kind, baseDraft, seen, keep, doomed, bounds, torn>>

\* readVersionForEditing: the draft, if it continues that version while that is
\* still the latest, else the version itself.
Working(v) == IF draft # None /\ draftBase = v /\ Tip = v THEN draft ELSE v

ReadForEditing(o) ==
    /\ pc[o] = "reading" /\ doc = "active"
    /\ LET w == Working(base[o])
       IN  /\ w \in Rows \cap objects
           /\ baseDraft' = [baseDraft EXCEPT ![o] = IF w = base[o] THEN None ELSE w]
           /\ seen' = [seen EXCEPT ![o] = edits[w]]
    /\ kind' \in {[kind EXCEPT ![o] = k] : k \in {"append", "autosave"}}
    /\ Go(o, "editing")
    /\ UNCHANGED <<db, lock, store, base, keep, doomed, bounds, torn>>

\* Trashed, discarded by a restore, or its object is missing.
ReadFails(o) ==
    /\ pc[o] = "reading"
    /\ doc = "active" => Working(base[o]) \notin Rows \cap objects
    /\ Go(o, "failed")
    /\ UNCHANGED <<db, lock, store, request, doomed, bounds, torn>>
-----------------------------------------------------------------------------
(* Saving: createOfficeDocumentFromBytes, appendDocumentVersion, saveDraft *)

PutObject(o) ==
    /\ pc[o] = "editing"
    /\ objects' = objects \cup {o}
    /\ edits' = [edits EXCEPT ![o] = seen[o] \cup {o}]
    /\ Go(o, "stored")
    /\ UNCHANGED <<db, lock, request, doomed, bounds, torn>>

\* putObject is outside the try block: if it fails, or the document was trashed
\* before it, nothing is cleaned up.
PutFails(o) ==
    /\ pc[o] = "editing"
    /\ \/ kind[o] # "create" /\ doc # "active" /\ UNCHANGED <<faults, objects>>
       \/ Fault /\ objects' \in {objects, objects \cup {o}}
    /\ Go(o, "failed")
    /\ UNCHANGED <<db, lock, edits, request, doomed, crashes, torn>>

DraftSet == {draft} \ {None}
Newer(k) == {versions[i] : i \in k + 1 .. Len(versions)}

\* release(), floored at zero, then the conditional update of reserve().
Released(freed) == Max({0, used - Bytes(freed)})
Fits(freed, added) == Released(freed) + Bytes(added) =< Quota
Charge(freed, added) == used' = Released(freed) + Bytes(added)

\* What both saves check under the lock: else the document changed elsewhere.
UpToDateTipOnly(o) == Tip = base[o]                                \* mutant
UpToDate(o) == Tip = base[o] /\ draft = baseDraft[o]

Accepted(o) ==
    /\ IF kind[o] = "create" THEN doc = "absent" ELSE doc = "active" /\ UpToDate(o)
    /\ Fits(DraftSet, {o})

ApplySave(o) ==
    /\ Accepted(o)
    /\ Charge(DraftSet, {o})
    /\ doc' = "active"
    /\ IF kind[o] = "autosave"
       THEN draft' = o /\ draftBase' = base[o] /\ UNCHANGED versions
       ELSE draft' = None /\ draftBase' = None /\ versions' = Append(versions, o)

\* The draft a save replaces is deleted once the save is durable.
CommitSaveSweepsNew(o) ==                                          \* mutant
    /\ pc[o] = "stored" /\ Unlocked
    /\ ApplySave(o)
    /\ doomed' = [doomed EXCEPT ![o] = {draft'} \ {None}]
    /\ Go(o, "sweepOld")
    /\ UNCHANGED <<lock, store, request, bounds, torn>>
CommitSaveNoSweep(o) ==                                            \* mutant
    /\ pc[o] = "stored" /\ Unlocked
    /\ ApplySave(o)
    /\ Go(o, "saved")
    /\ UNCHANGED <<lock, store, request, doomed, bounds, torn>>
CommitSave(o) ==
    /\ pc[o] = "stored" /\ Unlocked
    /\ ApplySave(o)
    /\ doomed' = [doomed EXCEPT ![o] = DraftSet]
    /\ Go(o, "sweepOld")
    /\ UNCHANGED <<lock, store, request, bounds, torn>>

\* VERSION_CONFLICT, not found, STORAGE_QUOTA_EXCEEDED, or a failing query.
SaveRejected(o) ==
    /\ pc[o] = "stored" /\ Unlocked
    /\ (~ Accepted(o) /\ UNCHANGED faults) \/ Fault
    /\ Go(o, "sweepOwn")
    /\ UNCHANGED <<db, lock, store, request, doomed, crashes, torn>>

\* The transaction commits and its reply is lost: the catch block cannot tell.
CommitAmbiguous(o) ==
    /\ pc[o] = "stored" /\ Unlocked
    /\ Fault
    /\ ApplySave(o)
    /\ torn' = torn \cup {o}
    /\ Go(o, "sweepOwn")
    /\ UNCHANGED <<lock, store, request, doomed, crashes>>

\* cleanupStorageKey reports a failure and goes on.
SweepOld(o) ==
    /\ pc[o] = "sweepOld"
    /\ \/ objects' = objects \ doomed[o] /\ UNCHANGED faults
       \/ Fault /\ UNCHANGED objects
    /\ Go(o, "saved")
    /\ UNCHANGED <<db, lock, edits, request, doomed, crashes, torn>>

SweepOwn(o) ==
    /\ pc[o] = "sweepOwn"
    /\ \/ objects' = objects \ {o} /\ UNCHANGED faults
       \/ Fault /\ UNCHANGED objects
    /\ Go(o, "failed")
    /\ UNCHANGED <<db, lock, edits, request, doomed, crashes, torn>>
-----------------------------------------------------------------------------
(* restoreVersion, purge                                                   *)

BeginRestore(o, k) ==
    /\ pc[o] = "idle" /\ Unlocked /\ doc = "active"
    /\ k \in 1 .. Len(versions)
    /\ lock' = o
    /\ kind' = [kind EXCEPT ![o] = "restore"]
    /\ keep' = [keep EXCEPT ![o] = k]
    /\ doomed' = [doomed EXCEPT ![o] = Newer(k) \cup DraftSet]
    /\ Go(o, "deleting")
    /\ UNCHANGED <<db, store, base, baseDraft, seen, bounds, torn>>

BeginPurge(o) ==
    /\ pc[o] = "idle" /\ Unlocked /\ doc = "trashed"
    /\ lock' = o
    /\ kind' = [kind EXCEPT ![o] = "purge"]
    /\ doomed' = [doomed EXCEPT ![o] = Rows]
    /\ Go(o, "deleting")
    /\ UNCHANGED <<db, store, base, baseDraft, seen, keep, bounds, torn>>

\* A missing object is not an error: an earlier attempt may have deleted it.
DeleteObject(o, i) ==
    /\ pc[o] = "deleting" /\ i \in doomed[o]
    /\ objects' = objects \ {i}
    /\ torn' = torn \cup {i}
    /\ doomed' = [doomed EXCEPT ![o] = @ \ {i}]
    /\ UNCHANGED <<db, lock, edits, pc, request, bounds>>

ApplyRestoreKeepsDraft(o) ==                                       \* mutant
    /\ kind[o] = "restore"
    /\ Charge(Newer(keep[o]), {})
    /\ versions' = SubSeq(versions, 1, keep[o])
    /\ UNCHANGED <<doc, draft, draftBase>>
ApplyRestoreKeepsCharge(o) ==                                      \* mutant
    /\ kind[o] = "restore"
    /\ Charge(Newer(keep[o]), {})
    /\ versions' = SubSeq(versions, 1, keep[o])
    /\ draft' = None /\ draftBase' = None
    /\ UNCHANGED doc
ApplyRestore(o) ==
    /\ kind[o] = "restore"
    /\ Charge(Newer(keep[o]) \cup DraftSet, {})
    /\ versions' = SubSeq(versions, 1, keep[o])
    /\ draft' = None /\ draftBase' = None
    /\ UNCHANGED doc

ApplyPurge(o) ==
    /\ kind[o] = "purge"
    /\ Charge(Rows, {})
    /\ versions' = <<>>
    /\ draft' = None /\ draftBase' = None
    /\ doc' = "purged"

CommitDelete(o) ==
    /\ pc[o] = "deleting" /\ doomed[o] = {}
    /\ ApplyRestore(o) \/ ApplyPurge(o)
    /\ \/ Go(o, "saved") /\ UNCHANGED faults
       \/ Fault /\ Go(o, "failed")              \* committed, its reply lost
    /\ lock' = None
    /\ UNCHANGED <<store, request, doomed, crashes, torn>>

\* A deletion or a query fails: the transaction rolls back, the objects that
\* were already deleted do not come back (RESTORE_FAILED, PURGE_FAILED).
RollBack(o) ==
    /\ pc[o] = "deleting"
    /\ Fault
    /\ Go(o, "failed")
    /\ lock' = None
    /\ doomed' = [doomed EXCEPT ![o] = {}]
    /\ UNCHANGED <<db, store, request, crashes, torn>>
-----------------------------------------------------------------------------
(* softDelete, restore; the process                                        *)

Trash ==
    /\ Unlocked /\ doc = "active"
    /\ doc' = "trashed"
    /\ UNCHANGED <<versions, draft, draftBase, used, lock, store, pc, request, doomed,
                   bounds, torn>>

Untrash ==
    /\ Unlocked /\ doc = "trashed"
    /\ doc' = "active"
    /\ UNCHANGED <<versions, draft, draftBase, used, lock, store, pc, request, doomed,
                   bounds, torn>>

\* What is being edited is in the browser and survives; requests in flight do
\* not, and their transactions roll back.
Restart ==
    /\ MayFail
    /\ crashes' = crashes + 1
    /\ pc' = [o \in Ops |->
                IF pc[o] \in {"idle", "reading", "editing", "saved"} THEN pc[o] ELSE "failed"]
    /\ lock' = None
    /\ doomed' = [o \in Ops |-> {}]
    /\ UNCHANGED <<db, store, request, faults, torn>>

Step(o) ==
    \/ BeginCreate(o) \/ ReadTip(o) \/ ReadForEditing(o) \/ ReadFails(o)
    \/ PutObject(o) \/ PutFails(o) \/ CommitSave(o) \/ SaveRejected(o) \/ CommitAmbiguous(o)
    \/ SweepOld(o) \/ SweepOwn(o)
    \/ (\E k \in 1 .. Len(versions) : BeginRestore(o, k)) \/ BeginPurge(o)
    \/ (\E i \in Ops : DeleteObject(o, i)) \/ CommitDelete(o) \/ RollBack(o)

Next == (\E o \in Ops : Step(o)) \/ Trash \/ Untrash \/ Restart

Spec == Init /\ [][Next]_vars
-----------------------------------------------------------------------------
(* Every row points to an object that is there, whatever fails between the *)
(* put, the transaction and the clean-up; excepted are the objects that    *)
(* restoreVersion and purge delete before they commit, and those of a save *)
(* whose commit was not acknowledged.                                      *)
RowsHaveObjects == Rows \ torn \subseteq objects

\* A draft is an autosave of the latest version, so openDraft finds it and a
\* save based on it is not refused for ever.
DraftContinuesTip == draft # None => draftBase = Tip /\ edits[Tip] \subseteq edits[draft]

\* A version contains what the versions before it did.
HistoryIsCumulative ==
    \A i, j \in 1 .. Len(versions) : i < j => edits[versions[i]] \subseteq edits[versions[j]]

\* The ledger agrees with the rows (reconcile, storage-accounting:70-76), and
\* no sequence of saves, restores and purges gets past the quota.
LedgerMatchesRows == used = Bytes(Rows)

\* What the next editor of the document will see.
Content == IF doc = "absent" \/ Tip = None THEN {} ELSE edits[Working(Tip)]

\* No save, autosave or failure loses what another one had saved: content goes
\* away only when restoreVersion or purge commits ("optimistic concurrency",
\* service.ts:623-627; "Your local edits are still here.", service.ts:580).
NoSaveIsLost ==
    [][(\A o \in Ops : pc[o] = "deleting" => pc'[o] = "deleting" \/ UNCHANGED db)
        => Content \subseteq Content']_vars

\* When nothing fails and nothing is in flight, the store holds the objects of
\* the rows and no others: every replaced draft, refused save, discarded
\* version and purged document was cleaned up.
AtRest == \A o \in Ops : pc[o] \in {"idle", "reading", "editing", "saved", "failed"}
StoreMatchesRows == AtRest /\ faults = 0 /\ crashes = 0 => objects = Rows
=============================================================================
