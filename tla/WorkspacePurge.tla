--------------------------- MODULE WorkspacePurge ---------------------------
(***************************************************************************)
(* A workspace in the trash is deleted for good                            *)
(* (apps/api/src/workspaces/service.ts, purge) while others still work on  *)
(* it: an upload that checked the workspace before it was trashed, a       *)
(* version being appended, a document being purged on its own.             *)
(*                                                                         *)
(* Each is one transaction with an object of the store written before it   *)
(* or deleted inside it; the store does not roll back.  They take their    *)
(* row locks in different orders -- workspace, documents, ledger; ledger,  *)
(* workspace; document, ledger, workspace; document, workspace, ledger --  *)
(* so they can wait for each other in a circle, and Postgres aborts one.   *)
(***************************************************************************)
EXTENDS Naturals, FiniteSets, FiniteSetsExt

CONSTANTS
    Purges,      \* purges of the workspace: a later one is a retry
    Creates,     \* uploads of a new document; each is its version's name
    Appends,     \* appends to the first document
    DocPurges,   \* purges of the first document
    First,       \* the version the first document has to begin with
    None,
    MaxToggles,  \* bound: moves of the workspace to the trash and back
    MaxFaults    \* bound: failed statements, store calls and crashes

Writers == Creates \cup Appends
Deleters == Purges \cup DocPurges
Ops == Writers \cup Deleters
Versions == Writers \cup {First}
Rows == {"workspace", "document", "ledger"}

ASSUME NamesAssumption ==
    /\ IsFiniteSet(Writers)
    /\ Creates \cap Appends = {} /\ Purges \cap DocPurges = {}
    /\ Writers \cap Deleters = {}
    /\ First \notin Writers
    /\ None \notin Rows

ASSUME BoundsAssumption == MaxToggles \in Nat /\ MaxFaults \in Nat

VARIABLES
    workspace,  \* "active", "trashed" or "gone"
    document,   \* the first document's row: the same
    versions,   \* version rows; one byte each
    used,       \* usedBytes of the owner
    objects,    \* stored objects
    held,       \* the row locks of each operation
    pc,
    doomed,     \* the rows a purge has read: what it releases the bytes of
    todo,       \* those whose objects it has yet to delete
    excused,    \* ghost: operations that met a fault or lost a deadlock
    torn,       \* ghost: rows whose objects an aborted delete took
    toggles,
    faults

vars == <<workspace, document, versions, used, objects, held, pc, doomed,
          todo, excused, torn, toggles, faults>>

Pcs == {"idle", "checked", "stored", "locking", "reading", "deleting",
        "charging", "touching", "committing", "sweeping", "done", "failed"}

TypeOK ==
    /\ workspace \in {"active", "trashed", "gone"}
    /\ document \in {"active", "trashed", "gone"}
    /\ versions \in SUBSET Versions
    /\ used \in Nat
    /\ objects \in SUBSET Versions
    /\ held \in [Ops -> SUBSET Rows]
    /\ pc \in [Ops -> Pcs]
    /\ doomed \in [Deleters -> SUBSET Versions]
    /\ todo \in [Deleters -> SUBSET Versions]
    /\ excused \in SUBSET Ops
    /\ torn \in SUBSET Versions
    /\ toggles \in 0..MaxToggles
    /\ faults \in 0..MaxFaults

Init ==
    /\ workspace = "active"
    /\ document \in {"active", "trashed"}
    /\ versions = {First}
    /\ used = 1
    /\ objects = {First}
    /\ held = [o \in Ops |-> {}]
    /\ pc = [o \in Ops |-> "idle"]
    /\ doomed = [o \in Deleters |-> {}]
    /\ todo = [o \in Deleters |-> {}]
    /\ excused = {}
    /\ torn = {}
    /\ toggles = 0
    /\ faults = 0

data == <<workspace, document, versions, used>>
plan == <<doomed, todo>>
ghosts == <<excused, torn, toggles, faults>>

-----------------------------------------------------------------------------
(* Row locks *)

Free(o, row) == \A p \in Ops \ {o} : row \notin held[p]

\* The row each operation's next statement has to lock, if any.
Wanted(o) ==
    IF \/ pc[o] = "locking" /\ o \in Purges
       \/ pc[o] = "reading" /\ o \in DocPurges
       \/ pc[o] = "touching"
    THEN "workspace"
    ELSE IF \/ pc[o] = "locking" /\ o \in DocPurges \cup Appends
            \/ pc[o] = "reading" /\ o \in Purges
    THEN "document"
    ELSE IF pc[o] = "charging" THEN "ledger" ELSE None

WaitsFor(o, p) == o # p /\ Wanted(o) \in held[p]

Deadlocked(o) ==
    \E S \in SUBSET Ops :
        /\ o \in S
        /\ \A p \in S : /\ \E q \in S : WaitsFor(p, q)
                        /\ \E q \in S : WaitsFor(q, p)

Go(o, place) == pc' = [pc EXCEPT ![o] = place]

\* The lock is granted and the operation is at its next statement.
Lock(o, row, place) ==
    /\ Free(o, row)
    /\ held' = [held EXCEPT ![o] = @ \cup {row}]
    /\ Go(o, place)

Unlock(o) == held' = [held EXCEPT ![o] = {}]

AfterAbortNothing(o) == "failed"  \* mutant

AfterAbort(o) == IF o \in Writers THEN "sweeping" ELSE "failed"

\* The transaction is rolled back.  A writer then deletes what it stored; the
\* objects a purge has taken stay gone.
Abort(o) ==
    /\ Unlock(o)
    /\ Go(o, AfterAbort(o))
    /\ torn' = IF o \in Deleters THEN torn \cup (doomed[o] \ objects) ELSE torn
    /\ UNCHANGED <<data, objects, plan>>

InTransaction(o) ==
    pc[o] \in {"reading", "deleting", "charging", "touching", "committing"}

\* A statement, a delete in the store or the process fails; or a run of the
\* workspace wrote a row that the purge's own deletes run into.
Fault(o) ==
    /\ InTransaction(o)
    /\ faults < MaxFaults
    /\ faults' = faults + 1
    /\ excused' = excused \cup {o}
    /\ Abort(o)
    /\ UNCHANGED toggles

\* Postgres picks the victim.
Victim(o) ==
    /\ Deadlocked(o)
    /\ excused' = excused \cup {o}
    /\ Abort(o)
    /\ UNCHANGED <<toggles, faults>>

-----------------------------------------------------------------------------
(* The trash *)

\* softDelete and restore of the workspace: one UPDATE each, which waits for
\* the row's lock.
Toggle ==
    /\ toggles < MaxToggles
    /\ toggles' = toggles + 1
    /\ workspace # "gone"
    /\ \A o \in Ops : "workspace" \notin held[o]
    /\ workspace' = IF workspace = "active" THEN "trashed" ELSE "active"
    /\ UNCHANGED <<document, versions, used, objects, held, pc, plan,
                   excused, torn, faults>>

-----------------------------------------------------------------------------
(* Uploads and appends *)

\* The request's own check, in no transaction.
Check(o) ==
    /\ o \in Writers
    /\ pc[o] = "idle"
    /\ workspace = "active"
    /\ o \in Appends => document = "active"
    /\ Go(o, "checked")
    /\ UNCHANGED <<data, objects, held, plan, ghosts>>

PutObject(o) ==
    /\ pc[o] = "checked"
    /\ objects' = objects \cup {o}
    /\ Go(o, IF o \in Appends THEN "locking" ELSE "charging")
    /\ UNCHANGED <<data, held, plan, ghosts>>

\* An append locks its document and looks again; the workspace it does not
\* look at again.
LockDocument(a) ==
    /\ a \in Appends
    /\ pc[a] = "locking"
    /\ IF document = "active"
       THEN /\ Lock(a, "document", "charging")
            /\ UNCHANGED <<data, objects, plan, ghosts>>
       ELSE /\ Free(a, "document")
            /\ Abort(a)
            /\ UNCHANGED <<excused, toggles, faults>>

\* reserve(): the ledger is locked by the update that charges it.
Reserve(o) ==
    /\ o \in Writers
    /\ pc[o] = "charging"
    /\ Lock(o, "ledger", "touching")
    /\ UNCHANGED <<data, objects, plan, ghosts>>

\* The insert's foreign key and the update of updatedAt both need the
\* workspace row: the one waits for a purge, and fails if it went through.
TouchWorkspace(o) ==
    /\ pc[o] = "touching"
    /\ IF workspace # "gone"
       THEN /\ Lock(o, "workspace", "committing")
            /\ UNCHANGED <<data, objects, plan, ghosts>>
       ELSE /\ Abort(o)
            /\ UNCHANGED <<excused, toggles, faults>>

CommitWrite(o) ==
    /\ o \in Writers
    /\ pc[o] = "committing"
    /\ versions' = versions \cup {o}
    /\ used' = used + 1
    /\ Unlock(o)
    /\ Go(o, "done")
    /\ UNCHANGED <<workspace, document, objects, plan, ghosts>>

\* cleanupStorageKey: an error here is reported and forgotten.
Sweep(o) ==
    /\ pc[o] = "sweeping"
    /\ Go(o, "failed")
    /\ \/ objects' = objects \ {o} /\ UNCHANGED <<excused, faults>>
       \/ /\ faults < MaxFaults
          /\ faults' = faults + 1
          /\ excused' = excused \cup {o}
          /\ UNCHANGED objects
    /\ UNCHANGED <<data, held, plan, torn, toggles>>

-----------------------------------------------------------------------------
(* The two purges *)

Begin(o) ==
    /\ o \in Deleters
    /\ pc[o] = "idle"
    /\ Go(o, "locking")
    /\ UNCHANGED <<data, objects, held, plan, ghosts>>

\* The row is locked, then looked at: 404 when it is gone, 409 unless it is
\* in the trash.
LockTarget(o, row, state) ==
    /\ pc[o] = "locking"
    /\ Free(o, row)
    /\ IF state = "trashed"
       THEN Lock(o, row, "reading")
       ELSE Go(o, "failed") /\ UNCHANGED held
    /\ excused' = IF state = "trashed" THEN excused ELSE excused \cup {o}
    /\ UNCHANGED <<data, objects, plan, torn, toggles, faults>>

LockWorkspaceUnlocked(p) ==  \* mutant
    /\ pc[p] = "locking"
    /\ Go(p, IF workspace = "trashed" THEN "reading" ELSE "failed")
    /\ excused' = IF workspace = "trashed" THEN excused ELSE excused \cup {p}
    /\ UNCHANGED <<data, objects, held, plan, torn, toggles, faults>>

LockWorkspace(p) == LockTarget(p, "workspace", workspace)

LockPurgedDocument(q) == LockTarget(q, "document", document)

\* The second lock -- a purge takes every document of the workspace, the
\* join of a document's purge takes the workspace -- and then the byte set.
ReadRows(o, row) ==
    /\ pc[o] = "reading"
    /\ Lock(o, row, "deleting")
    /\ doomed' = [doomed EXCEPT ![o] =
                    IF o \in Purges THEN versions ELSE versions \ Creates]
    /\ todo' = [todo EXCEPT ![o] = doomed'[o]]
    /\ UNCHANGED <<data, objects, ghosts>>

ReadDocuments(p) == p \in Purges /\ ReadRows(p, "document")

ReadDocument(q) == q \in DocPurges /\ ReadRows(q, "workspace")

DeletablePresent(o, v) == v \in todo[o] \cap objects  \* mutant

\* An object that is missing is skipped: it went with an earlier attempt.
Deletable(o, v) == v \in todo[o]

DeleteObject(o) ==
    /\ pc[o] = "deleting"
    /\ \E v \in Versions :
         /\ Deletable(o, v)
         /\ objects' = objects \ {v}
         /\ todo' = [todo EXCEPT ![o] = @ \ {v}]
    /\ UNCHANGED <<data, held, pc, doomed, ghosts>>

\* The rows are deleted, which nobody sees yet.
DeleteRows(o) ==
    /\ pc[o] = "deleting"
    /\ todo[o] = {}
    /\ Go(o, "charging")
    /\ UNCHANGED <<data, objects, held, plan, ghosts>>

\* release() floors at zero; an empty byte set never reaches the ledger.
Release(o) ==
    /\ o \in Deleters
    /\ pc[o] = "charging"
    /\ Lock(o, "ledger", "committing")
    /\ UNCHANGED <<data, objects, plan, ghosts>>

CommitPurge(o) ==
    /\ o \in Deleters
    /\ pc[o] = "committing"
    /\ versions' = IF o \in Purges THEN {} ELSE versions \cap Creates
    /\ document' = "gone"
    /\ workspace' = IF o \in Purges THEN "gone" ELSE workspace
    /\ used' = Max({0, used - Cardinality(doomed[o])})
    /\ Unlock(o)
    /\ Go(o, "done")
    /\ UNCHANGED <<objects, plan, ghosts>>

-----------------------------------------------------------------------------

Step(o) ==
    \/ Check(o) \/ PutObject(o) \/ LockDocument(o) \/ Reserve(o)
    \/ TouchWorkspace(o) \/ CommitWrite(o) \/ Sweep(o)
    \/ o \in Purges /\ LockWorkspace(o)
    \/ o \in DocPurges /\ LockPurgedDocument(o)
    \/ ReadDocuments(o) \/ ReadDocument(o)
    \/ DeleteObject(o) \/ DeleteRows(o) \/ Release(o) \/ CommitPurge(o)

Next ==
    \/ Toggle
    \/ \E o \in Ops : Begin(o) \/ Step(o) \/ Fault(o) \/ Victim(o)

\* A transaction that can go on does, and Postgres finds every deadlock.
Fairness ==
    /\ \A o \in Ops : WF_vars(Step(o))
    /\ WF_vars(\E o \in Ops : Victim(o))

Spec == Init /\ [][Next]_vars /\ Fairness

-----------------------------------------------------------------------------
(* Properties *)

\* What is not in the trash can be opened: its rows have their objects.  A
\* purge deletes the objects long before its transaction says so, and only
\* the lock on the workspace keeps a restore from bringing back rows whose
\* objects are being deleted.  (Rows an aborted purge tore are excepted.)
ActiveKeepsItsBytes ==
    workspace = "active" =>
        versions \ torn \subseteq
            objects \cup (IF document = "active" THEN {}
                         ELSE versions \ Creates)

\* When a purge went through and every writer has ended, no object of the
\* workspace is stored and nothing is charged for it -- not for an upload
\* that was under way in the trashed workspace either -- unless the clean-up
\* of a writer failed.
PurgeLeavesNothing ==
    /\ workspace = "gone"
    /\ \A o \in Writers : pc[o] \in {"idle", "done", "failed"}
    => used = 0 /\ objects \subseteq excused

\* A purge that finds its target in the trash ends, and not by an error of
\* its own: it is not kept waiting for good, and one that repeats a purge
\* that was aborted half-way gets through ("Missing objects are a safe retry
\* after a previous partial purge", service.ts:305).
PurgesEnd ==
    \A o \in Deleters :
        pc[o] = "reading" ~> (pc[o] = "done" \/ o \in excused)

=============================================================================
