----------------------- MODULE DocumentVersions_proofs ------------------------
(***************************************************************************)
(* What the optimistic checks and the row lock of DocumentVersions protect, *)
(* for any number of operations, sizes, failures and restarts: rows have   *)
(* their objects, a draft continues the latest version, a version contains *)
(* those before it, and no save is lost.                                   *)
(***************************************************************************)
EXTENDS DocumentVersions, FiniteSetTheorems, SequenceTheorems, TLAPS

\* What has not been saved is in nobody's hands but its author's.
Early == {"idle", "reading", "editing", "stored"}
Past(i) == i \in Ops /\ pc[i] \notin Early

Placed ==
    /\ \A i \in Rows : Past(i)
    /\ \A p \in Ops : \A i \in doomed[p] : Past(i)

\* A draft is no version; a document that was created has a version, and
\* without one there is no draft.
Shape ==
    /\ draft \notin VersionSet
    /\ doc \in {"active", "trashed"} <=> versions # <<>>
    /\ versions = <<>> => draft = None

\* A restore or purge has the lock, and what it read still holds.
Holds(o) ==
    pc[o] = "deleting" =>
        /\ lock = o
        /\ \/ kind[o] = "restore" /\ doc = "active" /\ keep[o] \in 1 .. Len(versions)
           \/ kind[o] = "purge" /\ doc = "trashed"
Locked == \A o \in Ops : Holds(o)

\* A save contains what it is based on, and its object is stored.
Continues(o) ==
    /\ kind[o] \in {"append", "autosave"}
    /\ Past(base[o]) /\ edits[base[o]] \subseteq seen[o]
    /\ baseDraft[o] # None => Past(baseDraft[o]) /\ edits[baseDraft[o]] \subseteq seen[o]
Based(o) ==
    /\ pc[o] = "reading" => Past(base[o])
    /\ pc[o] \in {"editing", "stored"} => kind[o] = "create" \/ Continues(o)
    /\ pc[o] = "stored" => edits[o] = seen[o] \cup {o} /\ o \in objects
Bases == \A o \in Ops : Based(o)

\* What a save is about to clean up is not a row, or its commit was not
\* acknowledged.
SweepsClean(o) ==
    /\ pc[o] = "sweepOld" => doomed[o] \cap Rows = {}
    /\ pc[o] = "sweepOwn" => o \notin Rows \ torn
Sweeps == \A o \in Ops : SweepsClean(o)

Types ==
    /\ doc \in {"absent", "active", "trashed", "purged"}
    /\ versions \in Seq(Ops)
    /\ draft \in Ops \cup {None} /\ draftBase \in Ops \cup {None}
    /\ lock \in Ops \cup {None}
    /\ objects \in SUBSET Ops
    /\ edits \in [Ops -> SUBSET Ops]
    /\ pc \in [Ops -> Pcs] /\ kind \in [Ops -> Kinds]
    /\ base \in [Ops -> Ops \cup {None}] /\ baseDraft \in [Ops -> Ops \cup {None}]
    /\ seen \in [Ops -> SUBSET Ops]
    /\ doomed \in [Ops -> SUBSET Ops]
    /\ keep \in [Ops -> Nat]
    /\ torn \in SUBSET Ops

IInv ==
    /\ Types /\ Placed /\ Shape /\ Locked /\ Bases /\ Sweeps
    /\ RowsHaveObjects /\ DraftContinuesTip /\ HistoryIsCumulative

-----------------------------------------------------------------------------
(* What a step does to the rows.                                           *)

\* Nothing, but for the trash.
KeepsRows ==
    /\ UNCHANGED <<versions, draft, draftBase, used>>
    /\ \/ doc' = doc
       \/ lock = None /\ doc \in {"active", "trashed"} /\ doc' \in {"active", "trashed"}

\* A save is committed, acknowledged or not.
Saves(o) ==
    /\ pc[o] = "stored" /\ lock = None
    /\ IF kind[o] = "create" THEN doc = "absent" ELSE doc = "active" /\ UpToDate(o)
    /\ Fits(DraftSet, {o}) /\ Charge(DraftSet, {o})
    /\ doc' = "active"
    /\ IF kind[o] = "autosave"
       THEN draft' = o /\ draftBase' = base[o] /\ UNCHANGED versions
       ELSE draft' = None /\ draftBase' = None /\ versions' = Append(versions, o)
    /\ \/ /\ pc' = [pc EXCEPT ![o] = "sweepOld"] /\ torn' = torn
          /\ doomed' = [doomed EXCEPT ![o] = DraftSet]
       \/ /\ pc' = [pc EXCEPT ![o] = "sweepOwn"] /\ torn' = torn \cup {o}
          /\ doomed' = doomed
    /\ UNCHANGED <<lock, store, request>>

\* A restore or purge is committed.
Drops(o) ==
    /\ pc[o] = "deleting" /\ doomed[o] = {}
    /\ draft' = None /\ draftBase' = None
    /\ \/ /\ kind[o] = "restore" /\ versions' = SubSeq(versions, 1, keep[o]) /\ doc' = doc
          /\ Charge(Newer(keep[o]) \cup DraftSet, {})
       \/ kind[o] = "purge" /\ versions' = <<>> /\ doc' = "purged" /\ Charge(Rows, {})
    /\ pc' = [pc EXCEPT ![o] = "saved"] \/ pc' = [pc EXCEPT ![o] = "failed"]
    /\ lock' = None
    /\ UNCHANGED <<store, request, doomed, torn>>

\* The latest version is one of them.
LEMMA TipIsVersion ==
    ASSUME Types
    PROVE  /\ Tip \in Ops \cup {None}
           /\ versions # <<>> => Tip \in Ops /\ Tip \in VersionSet
           /\ versions = <<>> => Tip = None /\ VersionSet = {}
           /\ Rows \subseteq Ops /\ VersionSet \subseteq Ops /\ Len(versions) \in Nat
<1>1. /\ Len(versions) \in Nat /\ \A i \in 1 .. Len(versions) : versions[i] \in Ops
      /\ versions # <<>> => Len(versions) \in 1 .. Len(versions)
      /\ versions = <<>> => Len(versions) = 0
  BY LenProperties, EmptySeq DEF Types
<1> QED
  BY <1>1 DEF Types, Tip, Rows, VersionSet

\* Types are kept.
LEMMA TypesStep ==
    ASSUME Types, Locked, [Next]_vars
    PROVE  Types'
<1> USE DEF Types, Pcs, Kinds, Go, Fault, Unlocked, vars, db, store, request,
        bounds
<1>BeginCreate. ASSUME NEW o \in Ops, BeginCreate(o) PROVE Types'
  BY <1>BeginCreate DEF BeginCreate
<1>ReadTip. ASSUME NEW o \in Ops, ReadTip(o) PROVE Types'
  BY <1>ReadTip, TipIsVersion DEF ReadTip
<1>ReadForEditing. ASSUME NEW o \in Ops, ReadForEditing(o) PROVE Types'
  BY <1>ReadForEditing DEF ReadForEditing
<1>ReadFails. ASSUME NEW o \in Ops, ReadFails(o) PROVE Types'
  BY <1>ReadFails DEF ReadFails
<1>PutObject. ASSUME NEW o \in Ops, PutObject(o) PROVE Types'
  BY <1>PutObject DEF PutObject
<1>PutFails. ASSUME NEW o \in Ops, PutFails(o) PROVE Types'
  BY <1>PutFails DEF PutFails
<1>CommitSave. ASSUME NEW o \in Ops, CommitSave(o) PROVE Types'
  <2>1. o \in Ops /\ Append(versions, o) \in Seq(Ops)
    BY <1>CommitSave, AppendProperties DEF Types
  <2>2. /\ versions' \in Seq(Ops) /\ doc' = "active"
        /\ draft' \in Ops \cup {None} /\ draftBase' \in Ops \cup {None}
    BY <1>CommitSave, <2>1 DEF CommitSave, ApplySave, Types
  <2> QED  BY <1>CommitSave, <2>2 DEF CommitSave, DraftSet
<1>SaveRejected. ASSUME NEW o \in Ops, SaveRejected(o) PROVE Types'
  BY <1>SaveRejected DEF SaveRejected
<1>CommitAmbiguous. ASSUME NEW o \in Ops, CommitAmbiguous(o) PROVE Types'
  <2>1. o \in Ops /\ Append(versions, o) \in Seq(Ops)
    BY <1>CommitAmbiguous, AppendProperties DEF Types
  <2>2. /\ versions' \in Seq(Ops) /\ doc' = "active"
        /\ draft' \in Ops \cup {None} /\ draftBase' \in Ops \cup {None}
    BY <1>CommitAmbiguous, <2>1 DEF CommitAmbiguous, ApplySave, Types
  <2> QED  BY <1>CommitAmbiguous, <2>2 DEF CommitAmbiguous, DraftSet
<1>SweepOld. ASSUME NEW o \in Ops, SweepOld(o) PROVE Types'
  BY <1>SweepOld DEF SweepOld
<1>SweepOwn. ASSUME NEW o \in Ops, SweepOwn(o) PROVE Types'
  BY <1>SweepOwn DEF SweepOwn
<1>BeginRestore. ASSUME NEW o \in Ops, NEW k \in 1 .. Len(versions), BeginRestore(o, k)
                 PROVE Types'
  <2>1. Newer(k) \cup DraftSet \subseteq Ops
    BY <1>BeginRestore, LenProperties DEF Types, Newer, DraftSet
  <2> QED  BY <1>BeginRestore, <2>1, LenProperties DEF BeginRestore
<1>BeginPurge. ASSUME NEW o \in Ops, BeginPurge(o) PROVE Types'
  BY <1>BeginPurge, TipIsVersion DEF BeginPurge
<1>DeleteObject. ASSUME NEW o \in Ops, NEW i \in Ops, DeleteObject(o, i)
                 PROVE Types'
  BY <1>DeleteObject DEF DeleteObject
<1>CommitDelete. ASSUME NEW o \in Ops, CommitDelete(o) PROVE Types'
  <2>1. kind[o] = "restore" => SubSeq(versions, 1, keep[o]) \in Seq(Ops)
    BY <1>CommitDelete, SubSeqProperties, LenProperties DEF CommitDelete,
       Locked, Holds, Types
  <2>2. <<>> \in Seq(Ops)
    OBVIOUS
  <2>3. CASE ApplyRestore(o)
    BY <1>CommitDelete, <2>1, <2>3 DEF CommitDelete, ApplyRestore
  <2>4. CASE ApplyPurge(o)
    BY <1>CommitDelete, <2>2, <2>4 DEF CommitDelete, ApplyPurge
  <2> QED  BY <1>CommitDelete, <2>3, <2>4 DEF CommitDelete
<1>RollBack. ASSUME NEW o \in Ops, RollBack(o) PROVE Types'
  BY <1>RollBack DEF RollBack
<1>Trash. ASSUME Trash PROVE Types'
  BY <1>Trash DEF Trash
<1>Untrash. ASSUME Untrash PROVE Types'
  BY <1>Untrash DEF Untrash
<1>Restart. ASSUME Restart PROVE Types'
  BY <1>Restart DEF Restart
<1>S. CASE UNCHANGED vars
  BY <1>S
<1> QED
  BY <1>BeginCreate, <1>ReadTip, <1>ReadForEditing, <1>ReadFails,
     <1>PutObject, <1>PutFails, <1>CommitSave, <1>SaveRejected,
     <1>CommitAmbiguous, <1>SweepOld, <1>SweepOwn, <1>BeginRestore,
     <1>BeginPurge, <1>DeleteObject, <1>CommitDelete, <1>RollBack, <1>Trash,
     <1>Untrash, <1>Restart, <1>S DEF Next, Step

\* A step keeps the rows, or commits a save, a restore or a purge.
LEMMA RowSteps ==
    ASSUME Types, Locked, [Next]_vars
    PROVE  KeepsRows \/ (\E q \in Ops : Saves(q) \/ Drops(q))
<1> USE DEF Go, Fault, Unlocked, vars, db, store, request, bounds
<1>BeginCreate. ASSUME NEW o \in Ops, BeginCreate(o)
                PROVE KeepsRows \/ (\E q \in Ops : Saves(q) \/ Drops(q))
  <2>1. KeepsRows
    BY <1>BeginCreate DEF BeginCreate, KeepsRows
  <2> QED  BY <2>1
<1>ReadTip. ASSUME NEW o \in Ops, ReadTip(o)
            PROVE KeepsRows \/ (\E q \in Ops : Saves(q) \/ Drops(q))
  <2>1. KeepsRows
    BY <1>ReadTip DEF ReadTip, KeepsRows
  <2> QED  BY <2>1
<1>ReadForEditing. ASSUME NEW o \in Ops, ReadForEditing(o)
                   PROVE KeepsRows \/ (\E q \in Ops : Saves(q) \/ Drops(q))
  <2>1. KeepsRows
    BY <1>ReadForEditing DEF ReadForEditing, KeepsRows
  <2> QED  BY <2>1
<1>ReadFails. ASSUME NEW o \in Ops, ReadFails(o)
              PROVE KeepsRows \/ (\E q \in Ops : Saves(q) \/ Drops(q))
  <2>1. KeepsRows
    BY <1>ReadFails DEF ReadFails, KeepsRows
  <2> QED  BY <2>1
<1>PutObject. ASSUME NEW o \in Ops, PutObject(o)
              PROVE KeepsRows \/ (\E q \in Ops : Saves(q) \/ Drops(q))
  <2>1. KeepsRows
    BY <1>PutObject DEF PutObject, KeepsRows
  <2> QED  BY <2>1
<1>PutFails. ASSUME NEW o \in Ops, PutFails(o)
             PROVE KeepsRows \/ (\E q \in Ops : Saves(q) \/ Drops(q))
  <2>1. KeepsRows
    BY <1>PutFails DEF PutFails, KeepsRows
  <2> QED  BY <2>1
<1>CommitSave. ASSUME NEW o \in Ops, CommitSave(o)
               PROVE KeepsRows \/ (\E q \in Ops : Saves(q) \/ Drops(q))
  <2>1. Saves(o)
    BY <1>CommitSave DEF CommitSave, ApplySave, Accepted, Saves
  <2> QED  BY <2>1
<1>SaveRejected. ASSUME NEW o \in Ops, SaveRejected(o)
                 PROVE KeepsRows \/ (\E q \in Ops : Saves(q) \/ Drops(q))
  <2>1. KeepsRows
    BY <1>SaveRejected DEF SaveRejected, KeepsRows
  <2> QED  BY <2>1
<1>CommitAmbiguous. ASSUME NEW o \in Ops, CommitAmbiguous(o)
                    PROVE KeepsRows \/ (\E q \in Ops : Saves(q) \/ Drops(q))
  <2>1. Saves(o)
    BY <1>CommitAmbiguous DEF CommitAmbiguous, ApplySave, Accepted, Saves
  <2> QED  BY <2>1
<1>SweepOld. ASSUME NEW o \in Ops, SweepOld(o)
             PROVE KeepsRows \/ (\E q \in Ops : Saves(q) \/ Drops(q))
  <2>1. KeepsRows
    BY <1>SweepOld DEF SweepOld, KeepsRows
  <2> QED  BY <2>1
<1>SweepOwn. ASSUME NEW o \in Ops, SweepOwn(o)
             PROVE KeepsRows \/ (\E q \in Ops : Saves(q) \/ Drops(q))
  <2>1. KeepsRows
    BY <1>SweepOwn DEF SweepOwn, KeepsRows
  <2> QED  BY <2>1
<1>BeginRestore. ASSUME NEW o \in Ops, NEW k \in 1 .. Len(versions), BeginRestore(o, k)
                 PROVE KeepsRows \/ (\E q \in Ops : Saves(q) \/ Drops(q))
  <2>1. KeepsRows
    BY <1>BeginRestore DEF BeginRestore, KeepsRows
  <2> QED  BY <2>1
<1>BeginPurge. ASSUME NEW o \in Ops, BeginPurge(o)
               PROVE KeepsRows \/ (\E q \in Ops : Saves(q) \/ Drops(q))
  <2>1. KeepsRows
    BY <1>BeginPurge DEF BeginPurge, KeepsRows
  <2> QED  BY <2>1
<1>DeleteObject. ASSUME NEW o \in Ops, NEW i \in Ops, DeleteObject(o, i)
                 PROVE KeepsRows \/ (\E q \in Ops : Saves(q) \/ Drops(q))
  <2>1. KeepsRows
    BY <1>DeleteObject DEF DeleteObject, KeepsRows
  <2> QED  BY <2>1
<1>CommitDelete. ASSUME NEW o \in Ops, CommitDelete(o)
                 PROVE KeepsRows \/ (\E q \in Ops : Saves(q) \/ Drops(q))
  <2>1. CASE ApplyRestore(o)
    BY <1>CommitDelete, <2>1 DEF CommitDelete, ApplyRestore, Drops
  <2>2. CASE ApplyPurge(o)
    BY <1>CommitDelete, <2>2 DEF CommitDelete, ApplyPurge, Drops
  <2> QED  BY <1>CommitDelete, <2>1, <2>2 DEF CommitDelete
<1>RollBack. ASSUME NEW o \in Ops, RollBack(o)
             PROVE KeepsRows \/ (\E q \in Ops : Saves(q) \/ Drops(q))
  <2>1. KeepsRows
    BY <1>RollBack DEF RollBack, KeepsRows
  <2> QED  BY <2>1
<1>Trash. ASSUME Trash PROVE KeepsRows \/ (\E q \in Ops : Saves(q) \/ Drops(q))
  <2>1. KeepsRows
    BY <1>Trash DEF Trash, KeepsRows
  <2> QED  BY <2>1
<1>Untrash. ASSUME Untrash
            PROVE KeepsRows \/ (\E q \in Ops : Saves(q) \/ Drops(q))
  <2>1. KeepsRows
    BY <1>Untrash DEF Untrash, KeepsRows
  <2> QED  BY <2>1
<1>Restart. ASSUME Restart
            PROVE KeepsRows \/ (\E q \in Ops : Saves(q) \/ Drops(q))
  <2>1. KeepsRows
    BY <1>Restart DEF Restart, KeepsRows
  <2> QED  BY <2>1
<1>S. CASE UNCHANGED vars
  <2>1. KeepsRows
    BY <1>S DEF KeepsRows
  <2> QED  BY <2>1
<1> QED
  BY <1>BeginCreate, <1>ReadTip, <1>ReadForEditing, <1>ReadFails,
     <1>PutObject, <1>PutFails, <1>CommitSave, <1>SaveRejected,
     <1>CommitAmbiguous, <1>SweepOld, <1>SweepOwn, <1>BeginRestore,
     <1>BeginPurge, <1>DeleteObject, <1>CommitDelete, <1>RollBack, <1>Trash,
     <1>Untrash, <1>Restart, <1>S DEF Next, Step

\* What has been saved once is over, and its content is fixed.
Lasts(q) ==
    /\ Past(q) => Past(q)' /\ edits'[q] = edits[q]
    /\ pc[q] = "stored" => edits'[q] = edits[q]

LEMMA PastStays ==
    ASSUME Types, NEW q \in Ops, [Next]_vars
    PROVE  Lasts(q)
<1> USE DEF Lasts, Past, Early, Types, Pcs, Go, Fault, Unlocked, vars, db,
        store, request, bounds
<1>BeginCreate. ASSUME NEW o \in Ops, BeginCreate(o) PROVE Lasts(q)
  BY <1>BeginCreate DEF BeginCreate
<1>ReadTip. ASSUME NEW o \in Ops, ReadTip(o) PROVE Lasts(q)
  BY <1>ReadTip DEF ReadTip
<1>ReadForEditing. ASSUME NEW o \in Ops, ReadForEditing(o) PROVE Lasts(q)
  BY <1>ReadForEditing DEF ReadForEditing
<1>ReadFails. ASSUME NEW o \in Ops, ReadFails(o) PROVE Lasts(q)
  BY <1>ReadFails DEF ReadFails
<1>PutObject. ASSUME NEW o \in Ops, PutObject(o) PROVE Lasts(q)
  BY <1>PutObject DEF PutObject
<1>PutFails. ASSUME NEW o \in Ops, PutFails(o) PROVE Lasts(q)
  BY <1>PutFails DEF PutFails
<1>CommitSave. ASSUME NEW o \in Ops, CommitSave(o) PROVE Lasts(q)
  BY <1>CommitSave DEF CommitSave
<1>SaveRejected. ASSUME NEW o \in Ops, SaveRejected(o) PROVE Lasts(q)
  BY <1>SaveRejected DEF SaveRejected
<1>CommitAmbiguous. ASSUME NEW o \in Ops, CommitAmbiguous(o) PROVE Lasts(q)
  BY <1>CommitAmbiguous DEF CommitAmbiguous
<1>SweepOld. ASSUME NEW o \in Ops, SweepOld(o) PROVE Lasts(q)
  BY <1>SweepOld DEF SweepOld
<1>SweepOwn. ASSUME NEW o \in Ops, SweepOwn(o) PROVE Lasts(q)
  BY <1>SweepOwn DEF SweepOwn
<1>BeginRestore. ASSUME NEW o \in Ops, NEW k \in 1 .. Len(versions), BeginRestore(o, k)
                 PROVE Lasts(q)
  BY <1>BeginRestore DEF BeginRestore
<1>BeginPurge. ASSUME NEW o \in Ops, BeginPurge(o) PROVE Lasts(q)
  BY <1>BeginPurge DEF BeginPurge
<1>DeleteObject. ASSUME NEW o \in Ops, NEW i \in Ops, DeleteObject(o, i)
                 PROVE Lasts(q)
  BY <1>DeleteObject DEF DeleteObject
<1>CommitDelete. ASSUME NEW o \in Ops, CommitDelete(o) PROVE Lasts(q)
  BY <1>CommitDelete DEF CommitDelete
<1>RollBack. ASSUME NEW o \in Ops, RollBack(o) PROVE Lasts(q)
  BY <1>RollBack DEF RollBack
<1>Trash. ASSUME Trash PROVE Lasts(q)
  BY <1>Trash DEF Trash
<1>Untrash. ASSUME Untrash PROVE Lasts(q)
  BY <1>Untrash DEF Untrash
<1>Restart. ASSUME Restart PROVE Lasts(q)
  BY <1>Restart DEF Restart
<1>S. CASE UNCHANGED vars
  BY <1>S
<1> QED
  BY <1>BeginCreate, <1>ReadTip, <1>ReadForEditing, <1>ReadFails,
     <1>PutObject, <1>PutFails, <1>CommitSave, <1>SaveRejected,
     <1>CommitAmbiguous, <1>SweepOld, <1>SweepOwn, <1>BeginRestore,
     <1>BeginPurge, <1>DeleteObject, <1>CommitDelete, <1>RollBack, <1>Trash,
     <1>Untrash, <1>Restart, <1>S DEF Next, Step

\* The rows a save leaves.
LEMMA SavedRows ==
    ASSUME Types, NEW o \in Ops, Saves(o)
    PROVE  /\ kind[o] = "autosave" =>
                  VersionSet' = VersionSet /\ Tip' = Tip /\ Rows' = VersionSet \cup {o}
           /\ kind[o] # "autosave" =>
                  /\ VersionSet' = VersionSet \cup {o} /\ Tip' = o
                  /\ Rows' = VersionSet \cup {o} /\ versions' # <<>>
                  /\ Len(versions') = Len(versions) + 1 /\ versions'[Len(versions) + 1] = o
                  /\ \A i \in 1 .. Len(versions) : versions'[i] = versions[i]
<1> USE NoneAssumption
<1>1. CASE kind[o] = "autosave"
  <2>1. versions' = versions /\ draft' = o
    BY <1>1 DEF Saves
  <2>2. VersionSet' = VersionSet /\ Tip' = Tip
    BY <2>1 DEF VersionSet, Tip
  <2> QED  BY <1>1, <2>1, <2>2 DEF Rows
<1>2. CASE kind[o] # "autosave"
  <2>1. versions' = Append(versions, o) /\ draft' = None
    BY <1>2 DEF Saves
  <2>2. /\ Len(versions) \in Nat /\ Len(versions') = Len(versions) + 1
        /\ versions'[Len(versions) + 1] = o
        /\ \A i \in 1 .. Len(versions) : versions'[i] = versions[i]
    BY <2>1, AppendProperties, LenProperties DEF Types
  <2>3. versions' # <<>>
    BY <2>2, EmptySeq
  <2>4. Tip' = o
    BY <2>2, <2>3 DEF Tip
  <2>5. VersionSet' = VersionSet \cup {o}
    <3>1. 1 .. Len(versions') = (1 .. Len(versions)) \cup {Len(versions) + 1}
      BY <2>2
    <3> QED  BY <3>1, <2>2 DEF VersionSet
  <2>6. Rows' = VersionSet \cup {o}
    BY <2>1, <2>5 DEF Rows
  <2> QED  BY <1>2, <2>2, <2>3, <2>4, <2>5, <2>6
<1> QED  BY <1>1, <1>2

\* The rows a restore or purge leaves.
LEMMA DroppedRows ==
    ASSUME Types, Locked, NEW o \in Ops, Drops(o)
    PROVE  /\ VersionSet' \subseteq VersionSet /\ Rows' = VersionSet'
           /\ draft' = None
           /\ Len(versions') \in Nat /\ Len(versions') <= Len(versions)
           /\ \A i \in 1 .. Len(versions') : versions'[i] = versions[i]
           /\ versions' # <<>> <=> doc' \in {"active", "trashed"}
<1>1. CASE kind[o] = "restore"
  <2>1. keep[o] \in 1 .. Len(versions) /\ Len(versions) \in Nat /\ doc = "active"
    BY <1>1, LenProperties DEF Locked, Holds, Drops, Types
  <2>2. versions' = SubSeq(versions, 1, keep[o]) /\ doc' = "active" /\ draft' = None
    BY <1>1, <2>1 DEF Drops
  <2>3. /\ Len(versions') = keep[o]
        /\ \A i \in 1 .. keep[o] : versions'[i] = versions[i]
    BY <2>1, <2>2, SubSeqProperties, LenProperties DEF Types
  <2>4. versions' # <<>>
    BY <2>1, <2>3, EmptySeq
  <2>5. VersionSet' \subseteq VersionSet
    BY <2>1, <2>3 DEF VersionSet
  <2>6. Rows' = VersionSet'
    BY <2>2 DEF Rows
  <2> QED  BY <2>1, <2>2, <2>3, <2>4, <2>5, <2>6
<1>2. CASE kind[o] = "purge"
  <2>1. versions' = <<>> /\ doc' = "purged" /\ draft' = None
    BY <1>2 DEF Drops
  <2>2. Len(versions') = 0
    BY <2>1, EmptySeq
  <2> QED  BY <2>1, <2>2, LenProperties DEF VersionSet, Rows, Types
<1> QED  BY <1>1, <1>2 DEF Drops

\* Without either the rows stay.
LEMMA KeptRows ==
    ASSUME KeepsRows
    PROVE  Rows' = Rows /\ VersionSet' = VersionSet /\ Tip' = Tip
BY DEF KeepsRows, Rows, VersionSet, Tip

-----------------------------------------------------------------------------
(* The parts of the invariant.                                             *)

\* Only rows are doomed.
LEMMA DoomedWereRows ==
    ASSUME Types, NEW q \in Ops, [Next]_vars
    PROVE  doomed'[q] \subseteq doomed[q] \cup Rows
<1> USE DEF Types, Go, Fault, Unlocked, vars, db, store, request, bounds
<1>BeginCreate. ASSUME NEW o \in Ops, BeginCreate(o)
                PROVE doomed'[q] \subseteq doomed[q] \cup Rows
  BY <1>BeginCreate DEF BeginCreate
<1>ReadTip. ASSUME NEW o \in Ops, ReadTip(o)
            PROVE doomed'[q] \subseteq doomed[q] \cup Rows
  BY <1>ReadTip DEF ReadTip
<1>ReadForEditing. ASSUME NEW o \in Ops, ReadForEditing(o)
                   PROVE doomed'[q] \subseteq doomed[q] \cup Rows
  BY <1>ReadForEditing DEF ReadForEditing
<1>ReadFails. ASSUME NEW o \in Ops, ReadFails(o)
              PROVE doomed'[q] \subseteq doomed[q] \cup Rows
  BY <1>ReadFails DEF ReadFails
<1>PutObject. ASSUME NEW o \in Ops, PutObject(o)
              PROVE doomed'[q] \subseteq doomed[q] \cup Rows
  BY <1>PutObject DEF PutObject
<1>PutFails. ASSUME NEW o \in Ops, PutFails(o)
             PROVE doomed'[q] \subseteq doomed[q] \cup Rows
  BY <1>PutFails DEF PutFails
<1>CommitSave. ASSUME NEW o \in Ops, CommitSave(o)
               PROVE doomed'[q] \subseteq doomed[q] \cup Rows
  BY <1>CommitSave DEF CommitSave, Rows, DraftSet
<1>SaveRejected. ASSUME NEW o \in Ops, SaveRejected(o)
                 PROVE doomed'[q] \subseteq doomed[q] \cup Rows
  BY <1>SaveRejected DEF SaveRejected
<1>CommitAmbiguous. ASSUME NEW o \in Ops, CommitAmbiguous(o)
                    PROVE doomed'[q] \subseteq doomed[q] \cup Rows
  BY <1>CommitAmbiguous DEF CommitAmbiguous
<1>SweepOld. ASSUME NEW o \in Ops, SweepOld(o)
             PROVE doomed'[q] \subseteq doomed[q] \cup Rows
  BY <1>SweepOld DEF SweepOld
<1>SweepOwn. ASSUME NEW o \in Ops, SweepOwn(o)
             PROVE doomed'[q] \subseteq doomed[q] \cup Rows
  BY <1>SweepOwn DEF SweepOwn
<1>BeginRestore. ASSUME NEW o \in Ops, NEW k \in 1 .. Len(versions), BeginRestore(o, k)
                 PROVE doomed'[q] \subseteq doomed[q] \cup Rows
  <2>1. Newer(k) \cup DraftSet \subseteq Rows
    BY <1>BeginRestore, LenProperties DEF Newer, DraftSet, Rows, VersionSet, Types
  <2> QED  BY <1>BeginRestore, <2>1 DEF BeginRestore
<1>BeginPurge. ASSUME NEW o \in Ops, BeginPurge(o)
               PROVE doomed'[q] \subseteq doomed[q] \cup Rows
  BY <1>BeginPurge DEF BeginPurge
<1>DeleteObject. ASSUME NEW o \in Ops, NEW i \in Ops, DeleteObject(o, i)
                 PROVE doomed'[q] \subseteq doomed[q] \cup Rows
  BY <1>DeleteObject DEF DeleteObject
<1>CommitDelete. ASSUME NEW o \in Ops, CommitDelete(o)
                 PROVE doomed'[q] \subseteq doomed[q] \cup Rows
  BY <1>CommitDelete DEF CommitDelete
<1>RollBack. ASSUME NEW o \in Ops, RollBack(o)
             PROVE doomed'[q] \subseteq doomed[q] \cup Rows
  BY <1>RollBack DEF RollBack
<1>Trash. ASSUME Trash PROVE doomed'[q] \subseteq doomed[q] \cup Rows
  BY <1>Trash DEF Trash
<1>Untrash. ASSUME Untrash PROVE doomed'[q] \subseteq doomed[q] \cup Rows
  BY <1>Untrash DEF Untrash
<1>Restart. ASSUME Restart PROVE doomed'[q] \subseteq doomed[q] \cup Rows
  BY <1>Restart DEF Restart
<1>S. CASE UNCHANGED vars
  BY <1>S
<1> QED
  BY <1>BeginCreate, <1>ReadTip, <1>ReadForEditing, <1>ReadFails,
     <1>PutObject, <1>PutFails, <1>CommitSave, <1>SaveRejected,
     <1>CommitAmbiguous, <1>SweepOld, <1>SweepOwn, <1>BeginRestore,
     <1>BeginPurge, <1>DeleteObject, <1>CommitDelete, <1>RollBack, <1>Trash,
     <1>Untrash, <1>Restart, <1>S DEF Next, Step

\* What is common to the proofs below.
LEMMA StepFacts ==
    ASSUME IInv, [Next]_vars
    PROVE  /\ Types /\ Locked /\ Types'
           /\ \A i \in Ops : Lasts(i)
           /\ KeepsRows \/ (\E o \in Ops : Saves(o) \/ Drops(o))
           /\ VersionSet \subseteq Rows /\ Rows \subseteq Ops
           /\ versions # <<>> => Tip \in VersionSet /\ Tip \in Ops
           /\ versions = <<>> => Tip = None /\ VersionSet = {}
           /\ draft # None => draft \in Rows
<1>1. Types /\ Locked
  BY DEF IInv
<1> QED
  BY <1>1, TypesStep, PastStays, RowSteps, TipIsVersion DEF Rows

\* Who is in a row has been saved, and who is doomed has been a row.
LEMMA PlacedStep ==
    ASSUME IInv, [Next]_vars
    PROVE  Placed'
<1>1. Placed /\ Types
  BY DEF IInv
<1>2. ASSUME NEW i \in Rows' PROVE Past(i)'
  <2>1. CASE KeepsRows
    BY <1>1, <1>2, <2>1, KeptRows, StepFacts DEF Placed, Lasts
  <2>2. ASSUME NEW o \in Ops, Saves(o) PROVE Past(i)'
    <3>1. Past(o)'
      BY <1>1, <2>2 DEF Saves, Past, Early, Types
    <3>2. Rows' = VersionSet \cup {o}
      BY <1>1, <2>2, SavedRows
    <3> QED  BY <1>1, <1>2, <3>1, <3>2, StepFacts DEF Placed, Lasts
  <2>3. ASSUME NEW o \in Ops, Drops(o) PROVE Past(i)'
    <3>1. i \in VersionSet
      BY <1>1, <1>2, <2>3, DroppedRows DEF IInv
    <3> QED  BY <1>1, <3>1, StepFacts DEF Placed, Lasts
  <2> QED  BY <2>1, <2>2, <2>3, StepFacts
<1>3. ASSUME NEW p \in Ops, NEW i \in doomed'[p] PROVE Past(i)'
  <2>1. Past(i) /\ i \in Ops
    BY <1>1, <1>3, DoomedWereRows DEF Placed, Past
  <2> QED  BY <2>1, StepFacts DEF Lasts
<1> QED  BY <1>2, <1>3 DEF Placed

\* The document, its versions and its draft fit together.
LEMMA ShapeStep ==
    ASSUME IInv, [Next]_vars
    PROVE  Shape'
<1>1. Shape /\ Placed /\ Types /\ Locked
  BY DEF IInv
<1>2. CASE KeepsRows
  BY <1>1, <1>2, KeptRows DEF Shape, KeepsRows
<1>3. ASSUME NEW o \in Ops, Saves(o) PROVE Shape'
  <2>1. o \notin Rows
    BY <1>1, <1>3 DEF Placed, Past, Early, Saves
  <2>2. doc' = "active" /\ versions' # <<>>
    BY <1>1, <1>3, SavedRows DEF Saves, Shape
  <2>3. draft' \notin VersionSet'
    BY <1>1, <1>3, <2>1, SavedRows, StepFacts, NoneAssumption DEF Saves
  <2> QED  BY <2>2, <2>3 DEF Shape
<1>4. ASSUME NEW o \in Ops, Drops(o) PROVE Shape'
  BY <1>1, <1>4, DroppedRows, StepFacts, NoneAssumption DEF Shape
<1> QED  BY <1>2, <1>3, <1>4, StepFacts

\* Who deletes has the lock.
LEMMA LockedStep ==
    ASSUME Types, Locked, NEW q \in Ops, [Next]_vars
    PROVE  Holds(q)'
<1> USE DEF Locked, Holds, Types, Go, Fault, Unlocked, vars, db, store,
        request, bounds
<1>BeginCreate. ASSUME NEW o \in Ops, BeginCreate(o) PROVE Holds(q)'
  BY <1>BeginCreate, NoneAssumption DEF BeginCreate
<1>ReadTip. ASSUME NEW o \in Ops, ReadTip(o) PROVE Holds(q)'
  BY <1>ReadTip, NoneAssumption DEF ReadTip
<1>ReadForEditing. ASSUME NEW o \in Ops, ReadForEditing(o) PROVE Holds(q)'
  BY <1>ReadForEditing, NoneAssumption DEF ReadForEditing
<1>ReadFails. ASSUME NEW o \in Ops, ReadFails(o) PROVE Holds(q)'
  BY <1>ReadFails, NoneAssumption DEF ReadFails
<1>PutObject. ASSUME NEW o \in Ops, PutObject(o) PROVE Holds(q)'
  BY <1>PutObject, NoneAssumption DEF PutObject
<1>PutFails. ASSUME NEW o \in Ops, PutFails(o) PROVE Holds(q)'
  BY <1>PutFails, NoneAssumption DEF PutFails
<1>CommitSave. ASSUME NEW o \in Ops, CommitSave(o) PROVE Holds(q)'
  BY <1>CommitSave, NoneAssumption DEF CommitSave
<1>SaveRejected. ASSUME NEW o \in Ops, SaveRejected(o) PROVE Holds(q)'
  BY <1>SaveRejected, NoneAssumption DEF SaveRejected
<1>CommitAmbiguous. ASSUME NEW o \in Ops, CommitAmbiguous(o) PROVE Holds(q)'
  BY <1>CommitAmbiguous, NoneAssumption DEF CommitAmbiguous
<1>SweepOld. ASSUME NEW o \in Ops, SweepOld(o) PROVE Holds(q)'
  BY <1>SweepOld, NoneAssumption DEF SweepOld
<1>SweepOwn. ASSUME NEW o \in Ops, SweepOwn(o) PROVE Holds(q)'
  BY <1>SweepOwn, NoneAssumption DEF SweepOwn
<1>BeginRestore. ASSUME NEW o \in Ops, NEW k \in 1 .. Len(versions), BeginRestore(o, k)
                 PROVE Holds(q)'
  BY <1>BeginRestore, NoneAssumption DEF BeginRestore
<1>BeginPurge. ASSUME NEW o \in Ops, BeginPurge(o) PROVE Holds(q)'
  BY <1>BeginPurge, NoneAssumption DEF BeginPurge
<1>DeleteObject. ASSUME NEW o \in Ops, NEW i \in Ops, DeleteObject(o, i)
                 PROVE Holds(q)'
  BY <1>DeleteObject, NoneAssumption DEF DeleteObject
<1>CommitDelete. ASSUME NEW o \in Ops, CommitDelete(o) PROVE Holds(q)'
  BY <1>CommitDelete, NoneAssumption DEF CommitDelete
<1>RollBack. ASSUME NEW o \in Ops, RollBack(o) PROVE Holds(q)'
  BY <1>RollBack, NoneAssumption DEF RollBack
<1>Trash. ASSUME Trash PROVE Holds(q)'
  BY <1>Trash, NoneAssumption DEF Trash
<1>Untrash. ASSUME Untrash PROVE Holds(q)'
  BY <1>Untrash, NoneAssumption DEF Untrash
<1>Restart. ASSUME Restart PROVE Holds(q)'
  BY <1>Restart, NoneAssumption DEF Restart
<1>S. CASE UNCHANGED vars
  BY <1>S, NoneAssumption
<1> QED
  BY <1>BeginCreate, <1>ReadTip, <1>ReadForEditing, <1>ReadFails,
     <1>PutObject, <1>PutFails, <1>CommitSave, <1>SaveRejected,
     <1>CommitAmbiguous, <1>SweepOld, <1>SweepOwn, <1>BeginRestore,
     <1>BeginPurge, <1>DeleteObject, <1>CommitDelete, <1>RollBack, <1>Trash,
     <1>Untrash, <1>Restart, <1>S DEF Next, Step

\* A save contains what it was read from.
LEMMA BasesStep ==
    ASSUME IInv, NEW q \in Ops, [Next]_vars
    PROVE  Based(q)'
<1>0. Types /\ Based(q) /\ Placed /\ \A i \in Ops : Lasts(i)
  BY StepFacts DEF IInv, Bases
<1> USE DEF Based, Continues, Lasts, Past, Early, Types, Go, Fault, Unlocked,
        vars, db, store, request, bounds
<1>BeginCreate. ASSUME NEW o \in Ops, BeginCreate(o) PROVE Based(q)'
  BY <1>BeginCreate, NoneAssumption, <1>0 DEF BeginCreate
<1>ReadTip. ASSUME NEW o \in Ops, ReadTip(o) PROVE Based(q)'
  <2>1. Tip \in Ops /\ Past(Tip)
    BY <1>ReadTip, StepFacts DEF ReadTip, IInv, Shape, Placed
  <2> QED  BY <1>ReadTip, <1>0, <2>1 DEF ReadTip
<1>ReadForEditing. ASSUME NEW o \in Ops, ReadForEditing(o) PROVE Based(q)'
  <2> DEFINE w == Working(base[o])
  <2>1. /\ w \in Rows /\ pc[o] = "reading" /\ Past(base[o]) /\ Past(w)
        /\ baseDraft' = [baseDraft EXCEPT ![o] = IF w = base[o] THEN None ELSE w]
        /\ seen' = [seen EXCEPT ![o] = edits[w]]
    BY <1>ReadForEditing, <1>0 DEF ReadForEditing, IInv, Bases, Based, Placed
  <2>2. edits[base[o]] \subseteq edits[w]
    BY <2>1 DEF IInv, DraftContinuesTip, Working
  <2> HIDE DEF w
  <2>3. /\ pc' = [pc EXCEPT ![o] = "editing"] /\ base' = base /\ edits' = edits
        /\ kind'[o] \in {"append", "autosave"} /\ \A i \in Ops \ {o} : kind'[i] = kind[i]
        /\ objects' = objects
    BY <1>ReadForEditing, <1>0 DEF ReadForEditing
  <2>4. CASE q = o
    <3>1. Continues(o)'
      BY <1>0, <2>1, <2>2, <2>3 DEF Continues, Past, Early, Types
    <3> QED  BY <1>0, <2>1, <2>3, <2>4, <3>1 DEF Based, Types
  <2>5. CASE q # o
    BY <1>0, <2>1, <2>3, <2>5 DEF Based, Continues, Past, Early, Types
  <2> QED  BY <2>4, <2>5
<1>ReadFails. ASSUME NEW o \in Ops, ReadFails(o) PROVE Based(q)'
  BY <1>ReadFails, NoneAssumption, <1>0 DEF ReadFails
<1>PutObject. ASSUME NEW o \in Ops, PutObject(o) PROVE Based(q)'
  BY <1>PutObject, NoneAssumption, <1>0 DEF PutObject
<1>PutFails. ASSUME NEW o \in Ops, PutFails(o) PROVE Based(q)'
  BY <1>PutFails, NoneAssumption, <1>0 DEF PutFails
<1>CommitSave. ASSUME NEW o \in Ops, CommitSave(o) PROVE Based(q)'
  BY <1>CommitSave, NoneAssumption, <1>0 DEF CommitSave
<1>SaveRejected. ASSUME NEW o \in Ops, SaveRejected(o) PROVE Based(q)'
  BY <1>SaveRejected, NoneAssumption, <1>0 DEF SaveRejected
<1>CommitAmbiguous. ASSUME NEW o \in Ops, CommitAmbiguous(o) PROVE Based(q)'
  BY <1>CommitAmbiguous, NoneAssumption, <1>0 DEF CommitAmbiguous
<1>SweepOld. ASSUME NEW o \in Ops, SweepOld(o) PROVE Based(q)'
  <2>1. \A i \in doomed[o] : pc[i] # "stored"
    BY <1>SweepOld, <1>0 DEF Placed, Past, Early
  <2> QED  BY <1>SweepOld, <1>0, <2>1 DEF SweepOld
<1>SweepOwn. ASSUME NEW o \in Ops, SweepOwn(o) PROVE Based(q)'
  BY <1>SweepOwn, NoneAssumption, <1>0 DEF SweepOwn
<1>BeginRestore. ASSUME NEW o \in Ops, NEW k \in 1 .. Len(versions), BeginRestore(o, k)
                 PROVE Based(q)'
  BY <1>BeginRestore, NoneAssumption, <1>0 DEF BeginRestore
<1>BeginPurge. ASSUME NEW o \in Ops, BeginPurge(o) PROVE Based(q)'
  BY <1>BeginPurge, NoneAssumption, <1>0 DEF BeginPurge
<1>DeleteObject. ASSUME NEW o \in Ops, NEW i \in Ops, DeleteObject(o, i)
                 PROVE Based(q)'
  <2>1. pc[i] # "stored"
    BY <1>DeleteObject, <1>0 DEF DeleteObject, Placed, Past, Early
  <2> QED  BY <1>DeleteObject, <1>0, <2>1 DEF DeleteObject
<1>CommitDelete. ASSUME NEW o \in Ops, CommitDelete(o) PROVE Based(q)'
  BY <1>CommitDelete, NoneAssumption, <1>0 DEF CommitDelete
<1>RollBack. ASSUME NEW o \in Ops, RollBack(o) PROVE Based(q)'
  BY <1>RollBack, NoneAssumption, <1>0 DEF RollBack
<1>Trash. ASSUME Trash PROVE Based(q)'
  BY <1>Trash, NoneAssumption, <1>0 DEF Trash
<1>Untrash. ASSUME Untrash PROVE Based(q)'
  BY <1>Untrash, NoneAssumption, <1>0 DEF Untrash
<1>Restart. ASSUME Restart PROVE Based(q)'
  BY <1>Restart, NoneAssumption, <1>0 DEF Restart
<1>S. CASE UNCHANGED vars
  BY <1>S, NoneAssumption, <1>0
<1> QED
  BY <1>BeginCreate, <1>ReadTip, <1>ReadForEditing, <1>ReadFails,
     <1>PutObject, <1>PutFails, <1>CommitSave, <1>SaveRejected,
     <1>CommitAmbiguous, <1>SweepOld, <1>SweepOwn, <1>BeginRestore,
     <1>BeginPurge, <1>DeleteObject, <1>CommitDelete, <1>RollBack, <1>Trash,
     <1>Untrash, <1>Restart, <1>S DEF Next, Step

\* The clean-up, while the rows stay.
LEMMA SweepsKept ==
    ASSUME IInv, NEW q \in Ops, [Next]_vars
    PROVE  KeepsRows => SweepsClean(q)'
<1>0. Types /\ SweepsClean(q) /\ (KeepsRows => Rows' = Rows)
  BY KeptRows DEF IInv, Sweeps
<1> USE DEF SweepsClean, DraftSet, Types, Go, Fault, Unlocked, vars, db,
        store, request, bounds
<1>BeginCreate. ASSUME NEW o \in Ops, BeginCreate(o)
                PROVE KeepsRows => SweepsClean(q)'
  BY <1>BeginCreate, <1>0 DEF BeginCreate
<1>ReadTip. ASSUME NEW o \in Ops, ReadTip(o) PROVE KeepsRows => SweepsClean(q)'
  BY <1>ReadTip, <1>0 DEF ReadTip
<1>ReadForEditing. ASSUME NEW o \in Ops, ReadForEditing(o)
                   PROVE KeepsRows => SweepsClean(q)'
  BY <1>ReadForEditing, <1>0 DEF ReadForEditing
<1>ReadFails. ASSUME NEW o \in Ops, ReadFails(o)
              PROVE KeepsRows => SweepsClean(q)'
  BY <1>ReadFails, <1>0 DEF ReadFails
<1>PutObject. ASSUME NEW o \in Ops, PutObject(o)
              PROVE KeepsRows => SweepsClean(q)'
  BY <1>PutObject, <1>0 DEF PutObject
<1>PutFails. ASSUME NEW o \in Ops, PutFails(o) PROVE KeepsRows => SweepsClean(q)'
  BY <1>PutFails, <1>0 DEF PutFails
<1>CommitSave. ASSUME NEW o \in Ops, CommitSave(o)
               PROVE KeepsRows => SweepsClean(q)'
  <2>1. pc[o] = "stored" /\ o \notin Rows
    BY <1>CommitSave DEF CommitSave, IInv, Placed, Past, Early
  <2>2. kind[o] = "autosave" => draft' = o
    BY <1>CommitSave DEF CommitSave, ApplySave
  <2>3. kind[o] # "autosave" => versions' = Append(versions, o)
    BY <1>CommitSave DEF CommitSave, ApplySave
  <2>4. Append(versions, o) # versions
    BY <1>0, AppendProperties, LenProperties DEF Types
  <2>5. draft # o
    BY <2>1, NoneAssumption DEF Rows
  <2> QED  BY <2>2, <2>3, <2>4, <2>5 DEF KeepsRows
<1>SaveRejected. ASSUME NEW o \in Ops, SaveRejected(o)
                 PROVE KeepsRows => SweepsClean(q)'
  <2>1. o \notin Rows
    BY <1>SaveRejected DEF SaveRejected, IInv, Placed, Past, Early
  <2> QED  BY <1>SaveRejected, <1>0, <2>1 DEF SaveRejected
<1>CommitAmbiguous. ASSUME NEW o \in Ops, CommitAmbiguous(o)
                    PROVE KeepsRows => SweepsClean(q)'
  BY <1>CommitAmbiguous, <1>0 DEF CommitAmbiguous
<1>SweepOld. ASSUME NEW o \in Ops, SweepOld(o) PROVE KeepsRows => SweepsClean(q)'
  BY <1>SweepOld, <1>0 DEF SweepOld
<1>SweepOwn. ASSUME NEW o \in Ops, SweepOwn(o) PROVE KeepsRows => SweepsClean(q)'
  BY <1>SweepOwn, <1>0 DEF SweepOwn
<1>BeginRestore. ASSUME NEW o \in Ops, NEW k \in 1 .. Len(versions), BeginRestore(o, k)
                 PROVE KeepsRows => SweepsClean(q)'
  BY <1>BeginRestore, <1>0 DEF BeginRestore
<1>BeginPurge. ASSUME NEW o \in Ops, BeginPurge(o)
               PROVE KeepsRows => SweepsClean(q)'
  BY <1>BeginPurge, <1>0 DEF BeginPurge
<1>DeleteObject. ASSUME NEW o \in Ops, NEW i \in Ops, DeleteObject(o, i)
                 PROVE KeepsRows => SweepsClean(q)'
  BY <1>DeleteObject, <1>0 DEF DeleteObject
<1>CommitDelete. ASSUME NEW o \in Ops, CommitDelete(o)
                 PROVE KeepsRows => SweepsClean(q)'
  BY <1>CommitDelete, <1>0 DEF CommitDelete
<1>RollBack. ASSUME NEW o \in Ops, RollBack(o) PROVE KeepsRows => SweepsClean(q)'
  BY <1>RollBack, <1>0 DEF RollBack
<1>Trash. ASSUME Trash PROVE KeepsRows => SweepsClean(q)'
  BY <1>Trash, <1>0 DEF Trash
<1>Untrash. ASSUME Untrash PROVE KeepsRows => SweepsClean(q)'
  BY <1>Untrash, <1>0 DEF Untrash
<1>Restart. ASSUME Restart PROVE KeepsRows => SweepsClean(q)'
  BY <1>Restart, <1>0 DEF Restart
<1>S. CASE UNCHANGED vars
  BY <1>S, <1>0
<1> QED
  BY <1>BeginCreate, <1>ReadTip, <1>ReadForEditing, <1>ReadFails,
     <1>PutObject, <1>PutFails, <1>CommitSave, <1>SaveRejected,
     <1>CommitAmbiguous, <1>SweepOld, <1>SweepOwn, <1>BeginRestore,
     <1>BeginPurge, <1>DeleteObject, <1>CommitDelete, <1>RollBack, <1>Trash,
     <1>Untrash, <1>Restart, <1>S DEF Next, Step

\* A clean-up deletes no row.
LEMMA SweepsStep ==
    ASSUME IInv, [Next]_vars, NEW q \in Ops
    PROVE  SweepsClean(q)'
<1>1. SweepsClean(q) /\ Types /\ Shape /\ Placed
  BY DEF IInv, Sweeps
<1>2. ASSUME NEW o \in Ops, Saves(o) PROVE SweepsClean(q)'
  <2>1. o \notin Rows /\ o \notin doomed[q] /\ Rows' \subseteq VersionSet \cup {o}
    BY <1>1, <1>2, SavedRows DEF Placed, Past, Early, Saves
  <2>2. CASE q = o
    <3>1. DraftSet \cap Rows' = {}
      BY <1>1, <2>1 DEF DraftSet, Shape, Rows
    <3> QED  BY <1>1, <1>2, <2>2, <3>1 DEF SweepsClean, Saves, Types
  <2>3. CASE q # o
    <3>1. pc'[q] = pc[q] /\ doomed'[q] = doomed[q] /\ torn \subseteq torn'
      BY <1>1, <1>2, <2>3 DEF Saves, Types
    <3>2. Rows' \subseteq Rows \cup {o}
      BY <2>1, StepFacts
    <3> QED  BY <1>1, <2>1, <2>3, <3>1, <3>2 DEF SweepsClean
  <2> QED  BY <2>2, <2>3
<1>3. ASSUME NEW o \in Ops, Drops(o) PROVE SweepsClean(q)'
  <2>1. Rows' \subseteq Rows
    BY <1>3, DroppedRows, StepFacts
  <2> QED  BY <1>1, <1>3, <2>1 DEF SweepsClean, Drops, Types
<1> QED  BY <1>2, <1>3, SweepsKept, StepFacts

\* An object goes away after its row, or is counted as torn.
LEMMA ObjectsKept ==
    ASSUME IInv, [Next]_vars
    PROVE  Rows' \subseteq Rows => RowsHaveObjects'
<1>0. Types /\ RowsHaveObjects /\ Sweeps
  BY DEF IInv
<1> USE DEF RowsHaveObjects, Types, Go, Fault, Unlocked, vars, db, store,
        request, bounds
<1>BeginCreate. ASSUME NEW o \in Ops, BeginCreate(o)
                PROVE Rows' \subseteq Rows => RowsHaveObjects'
  BY <1>BeginCreate, <1>0 DEF BeginCreate
<1>ReadTip. ASSUME NEW o \in Ops, ReadTip(o)
            PROVE Rows' \subseteq Rows => RowsHaveObjects'
  BY <1>ReadTip, <1>0 DEF ReadTip
<1>ReadForEditing. ASSUME NEW o \in Ops, ReadForEditing(o)
                   PROVE Rows' \subseteq Rows => RowsHaveObjects'
  BY <1>ReadForEditing, <1>0 DEF ReadForEditing
<1>ReadFails. ASSUME NEW o \in Ops, ReadFails(o)
              PROVE Rows' \subseteq Rows => RowsHaveObjects'
  BY <1>ReadFails, <1>0 DEF ReadFails
<1>PutObject. ASSUME NEW o \in Ops, PutObject(o)
              PROVE Rows' \subseteq Rows => RowsHaveObjects'
  BY <1>PutObject, <1>0 DEF PutObject
<1>PutFails. ASSUME NEW o \in Ops, PutFails(o)
             PROVE Rows' \subseteq Rows => RowsHaveObjects'
  BY <1>PutFails, <1>0 DEF PutFails
<1>CommitSave. ASSUME NEW o \in Ops, CommitSave(o)
               PROVE Rows' \subseteq Rows => RowsHaveObjects'
  BY <1>CommitSave, <1>0 DEF CommitSave
<1>SaveRejected. ASSUME NEW o \in Ops, SaveRejected(o)
                 PROVE Rows' \subseteq Rows => RowsHaveObjects'
  BY <1>SaveRejected, <1>0 DEF SaveRejected
<1>CommitAmbiguous. ASSUME NEW o \in Ops, CommitAmbiguous(o)
                    PROVE Rows' \subseteq Rows => RowsHaveObjects'
  BY <1>CommitAmbiguous, <1>0 DEF CommitAmbiguous
<1>SweepOld. ASSUME NEW o \in Ops, SweepOld(o)
             PROVE Rows' \subseteq Rows => RowsHaveObjects'
  BY <1>SweepOld, <1>0 DEF SweepOld, Sweeps, SweepsClean
<1>SweepOwn. ASSUME NEW o \in Ops, SweepOwn(o)
             PROVE Rows' \subseteq Rows => RowsHaveObjects'
  BY <1>SweepOwn, <1>0 DEF SweepOwn, Sweeps, SweepsClean
<1>BeginRestore. ASSUME NEW o \in Ops, NEW k \in 1 .. Len(versions), BeginRestore(o, k)
                 PROVE Rows' \subseteq Rows => RowsHaveObjects'
  BY <1>BeginRestore, <1>0 DEF BeginRestore
<1>BeginPurge. ASSUME NEW o \in Ops, BeginPurge(o)
               PROVE Rows' \subseteq Rows => RowsHaveObjects'
  BY <1>BeginPurge, <1>0 DEF BeginPurge
<1>DeleteObject. ASSUME NEW o \in Ops, NEW i \in Ops, DeleteObject(o, i)
                 PROVE Rows' \subseteq Rows => RowsHaveObjects'
  BY <1>DeleteObject, <1>0 DEF DeleteObject
<1>CommitDelete. ASSUME NEW o \in Ops, CommitDelete(o)
                 PROVE Rows' \subseteq Rows => RowsHaveObjects'
  BY <1>CommitDelete, <1>0 DEF CommitDelete
<1>RollBack. ASSUME NEW o \in Ops, RollBack(o)
             PROVE Rows' \subseteq Rows => RowsHaveObjects'
  BY <1>RollBack, <1>0 DEF RollBack
<1>Trash. ASSUME Trash PROVE Rows' \subseteq Rows => RowsHaveObjects'
  BY <1>Trash, <1>0 DEF Trash
<1>Untrash. ASSUME Untrash PROVE Rows' \subseteq Rows => RowsHaveObjects'
  BY <1>Untrash, <1>0 DEF Untrash
<1>Restart. ASSUME Restart PROVE Rows' \subseteq Rows => RowsHaveObjects'
  BY <1>Restart, <1>0 DEF Restart
<1>S. CASE UNCHANGED vars
  BY <1>S, <1>0
<1> QED
  BY <1>BeginCreate, <1>ReadTip, <1>ReadForEditing, <1>ReadFails,
     <1>PutObject, <1>PutFails, <1>CommitSave, <1>SaveRejected,
     <1>CommitAmbiguous, <1>SweepOld, <1>SweepOwn, <1>BeginRestore,
     <1>BeginPurge, <1>DeleteObject, <1>CommitDelete, <1>RollBack, <1>Trash,
     <1>Untrash, <1>Restart, <1>S DEF Next, Step

\* Every row has its object.
LEMMA ObjectsStep ==
    ASSUME IInv, [Next]_vars
    PROVE  RowsHaveObjects'
<1>1. ASSUME NEW o \in Ops, Saves(o) PROVE RowsHaveObjects'
  <2>1. o \in objects /\ objects' = objects /\ torn \subseteq torn'
    BY <1>1 DEF IInv, Bases, Based, Saves, store
  <2>2. Rows' \subseteq Rows \cup {o}
    BY <1>1, SavedRows, StepFacts
  <2> QED  BY <2>1, <2>2 DEF RowsHaveObjects, IInv
<1>2. ASSUME NEW o \in Ops, Drops(o) PROVE RowsHaveObjects'
  BY <1>2, DroppedRows, StepFacts, ObjectsKept
<1>3. CASE KeepsRows
  BY <1>3, KeptRows, ObjectsKept
<1> QED  BY <1>1, <1>2, <1>3, StepFacts

\* The content of rows is fixed.
LEMMA RowsLast ==
    ASSUME IInv, [Next]_vars, NEW i \in Rows
    PROVE  i \in Ops /\ edits'[i] = edits[i]
BY StepFacts DEF IInv, Placed, Lasts

\* What a save is checked against is what it contains.
LEMMA SaveContinues ==
    ASSUME IInv, [Next]_vars, NEW o \in Ops, Saves(o)
    PROVE  /\ edits' = edits /\ o \in edits[o]
           /\ kind[o] = "create" => versions = <<>> /\ draft = None
           /\ kind[o] # "create" =>
                 /\ base[o] = Tip /\ Tip \in VersionSet /\ versions # <<>>
                 /\ edits[Tip] \subseteq edits[o]
                 /\ draft # None => edits[draft] \subseteq edits[o]
<1>1. edits' = edits /\ edits[o] = seen[o] \cup {o}
  BY DEF Saves, store, IInv, Bases, Based
<1>2. CASE kind[o] = "create"
  BY <1>1, <1>2 DEF Saves, IInv, Shape
<1>3. CASE kind[o] # "create"
  <2>1. Continues(o) /\ doc = "active" /\ UpToDate(o)
    BY <1>3 DEF Saves, IInv, Bases, Based
  <2>2. Tip = base[o] /\ draft = baseDraft[o] /\ versions # <<>>
    BY <2>1 DEF UpToDate, IInv, Shape
  <2> QED  BY <1>1, <1>3, <2>1, <2>2, StepFacts DEF Continues
<1> QED  BY <1>2, <1>3

\* The draft continues the latest version.
LEMMA DraftStep ==
    ASSUME IInv, [Next]_vars
    PROVE  DraftContinuesTip'
<1>1. DraftContinuesTip /\ Types
  BY DEF IInv
<1>2. CASE KeepsRows
  <2> SUFFICES ASSUME draft # None
               PROVE  draftBase = Tip /\ edits'[Tip] \subseteq edits'[draft]
    BY <1>2, KeptRows DEF DraftContinuesTip, KeepsRows
  <2>1. draft \in Rows /\ Tip \in Rows
    BY StepFacts DEF IInv, Shape
  <2> QED  BY <1>1, <2>1, RowsLast DEF DraftContinuesTip
<1>3. ASSUME NEW o \in Ops, Saves(o) PROVE DraftContinuesTip'
  <2>1. CASE kind[o] = "autosave"
    <3>1. /\ draft' = o /\ draftBase' = base[o] /\ Tip' = Tip /\ edits' = edits
          /\ base[o] = Tip /\ edits[Tip] \subseteq edits[o]
      BY <1>1, <1>3, <2>1, SavedRows, SaveContinues DEF Saves
    <3> QED  BY <3>1 DEF DraftContinuesTip
  <2>2. CASE kind[o] # "autosave"
    BY <1>3, <2>2 DEF Saves, DraftContinuesTip
  <2> QED  BY <2>1, <2>2
<1>4. ASSUME NEW o \in Ops, Drops(o) PROVE DraftContinuesTip'
  BY <1>4 DEF Drops, DraftContinuesTip
<1> QED  BY <1>2, <1>3, <1>4, StepFacts

\* A version contains those before it.
LEMMA HistoryStep ==
    ASSUME IInv, [Next]_vars
    PROVE  HistoryIsCumulative'
<1>1. HistoryIsCumulative /\ Types /\ Locked
  BY DEF IInv
<1>2. \A i \in 1 .. Len(versions) : versions[i] \in Ops /\ edits'[versions[i]] = edits[versions[i]]
  BY RowsLast, StepFacts DEF VersionSet
<1>3. CASE versions' = versions
  BY <1>1, <1>2, <1>3 DEF HistoryIsCumulative
<1>4. ASSUME NEW o \in Ops, Saves(o), kind[o] # "autosave"
      PROVE HistoryIsCumulative'
  <2>1. /\ Len(versions) \in Nat /\ Len(versions') = Len(versions) + 1
        /\ versions'[Len(versions) + 1] = o
        /\ \A i \in 1 .. Len(versions) : versions'[i] = versions[i]
    BY <1>1, <1>4, SavedRows, LenProperties DEF Types
  <2>2. \A i \in 1 .. Len(versions) : edits[versions[i]] \subseteq edits[o]
    <3>1. CASE kind[o] = "create"
      BY <1>4, <2>1, <3>1, SaveContinues, EmptySeq
    <3>2. CASE kind[o] # "create"
      <4>1. Tip = versions[Len(versions)] /\ edits[Tip] \subseteq edits[o]
        BY <1>4, <3>2, SaveContinues DEF Tip
      <4>2. \A i \in 1 .. Len(versions) :
               i < Len(versions) => edits[versions[i]] \subseteq edits[Tip]
        BY <1>1, <2>1, <4>1 DEF HistoryIsCumulative
      <4> QED  BY <2>1, <4>1, <4>2
    <3> QED  BY <3>1, <3>2
  <2>3. edits' = edits
    BY <1>4, SaveContinues
  <2> SUFFICES ASSUME NEW i \in 1 .. Len(versions'), NEW j \in 1 .. Len(versions'), i < j
               PROVE  edits'[versions'[i]] \subseteq edits'[versions'[j]]
    BY DEF HistoryIsCumulative
  <2>4. i \in 1 .. Len(versions)
    BY <2>1
  <2>5. CASE j = Len(versions) + 1
    BY <2>1, <2>2, <2>3, <2>4, <2>5
  <2>6. CASE j \in 1 .. Len(versions)
    BY <1>1, <2>1, <2>3, <2>4, <2>6 DEF HistoryIsCumulative
  <2> QED  BY <2>1, <2>5, <2>6
<1>5. ASSUME NEW o \in Ops, Drops(o) PROVE HistoryIsCumulative'
  <2>1. /\ Len(versions') \in Nat /\ Len(versions') <= Len(versions) /\ Len(versions) \in Nat
        /\ \A i \in 1 .. Len(versions') : versions'[i] = versions[i]
    BY <1>1, <1>5, DroppedRows, LenProperties DEF Types
  <2> SUFFICES ASSUME NEW i \in 1 .. Len(versions'), NEW j \in 1 .. Len(versions'), i < j
               PROVE  edits'[versions'[i]] \subseteq edits'[versions'[j]]
    BY DEF HistoryIsCumulative
  <2>2. i \in 1 .. Len(versions) /\ j \in 1 .. Len(versions)
    BY <2>1
  <2>3. edits[versions[i]] \subseteq edits[versions[j]]
    BY <1>1, <2>2 DEF HistoryIsCumulative
  <2> QED  BY <1>2, <2>1, <2>2, <2>3
<1> QED  BY <1>3, <1>4, <1>5, StepFacts DEF KeepsRows, Saves

-----------------------------------------------------------------------------
(* The theorems.                                                           *)

\* The invariant holds initially.
LEMMA InitInvariant == Init => IInv
<1> SUFFICES ASSUME Init PROVE IInv
  OBVIOUS
<1>1. Types
  BY EmptySeq DEF Init, Types, Pcs, Kinds
<1>2. versions = <<>> /\ VersionSet = {} /\ Rows = {} /\ Len(versions) = 0
  BY EmptySeq DEF Init, VersionSet, Rows
<1>3. Placed /\ Shape /\ Locked /\ Bases /\ Sweeps
  BY <1>2 DEF Init, Placed, Shape, Locked, Holds, Bases, Based, Sweeps,
     SweepsClean
<1>4. RowsHaveObjects /\ DraftContinuesTip /\ HistoryIsCumulative
  BY <1>2 DEF Init, RowsHaveObjects, DraftContinuesTip, HistoryIsCumulative
<1> QED  BY <1>1, <1>3, <1>4 DEF IInv

\* Every step preserves the invariant.
LEMMA StepInvariant == IInv /\ [Next]_vars => IInv'
<1> SUFFICES ASSUME IInv, [Next]_vars PROVE IInv'
  OBVIOUS
<1>1. Types' /\ Locked'
  BY StepFacts, LockedStep DEF Locked
<1>2. Bases' /\ Sweeps'
  BY BasesStep, SweepsStep DEF Bases, Sweeps
<1> QED
  BY <1>1, <1>2, PlacedStep, ShapeStep, ObjectsStep, DraftStep, HistoryStep DEF
     IInv

\* The rows, the draft and what operations in flight know of them fit together,
\* for any operations, sizes and failures.
THEOREM DocumentInvariant == Spec => []IInv
<1> QED  BY InitInvariant, StepInvariant, PTL DEF Spec

\* Every row has its object, but for those deleted before the commit that drops
\* them or after one that was not acknowledged.
THEOREM RowsKeepObjects == Spec => []RowsHaveObjects
<1>1. IInv => RowsHaveObjects
  BY DEF IInv
<1> QED  BY <1>1, DocumentInvariant, PTL

\* An autosaved draft continues the latest version.
THEOREM DraftIsCurrent == Spec => []DraftContinuesTip
<1>1. IInv => DraftContinuesTip
  BY DEF IInv
<1> QED  BY <1>1, DocumentInvariant, PTL

\* A version contains what the versions before it did.
THEOREM HistoryGrows == Spec => []HistoryIsCumulative
<1>1. IInv => HistoryIsCumulative
  BY DEF IInv
<1> QED  BY <1>1, DocumentInvariant, PTL

\* What the next editor sees.
LEMMA ContentIs ==
    ASSUME IInv
    PROVE  /\ Tip = None => Content = {}
           /\ Tip # None => Content = edits[IF draft # None THEN draft ELSE Tip]
BY TipIsVersion DEF IInv, Shape, DraftContinuesTip, Content, Working

\* What the next editor sees only grows, unless a deletion commits.
LEMMA ContentGrows ==
    ASSUME IInv, [Next]_vars,
           \A o \in Ops : pc[o] = "deleting" => pc'[o] = "deleting" \/ UNCHANGED db
    PROVE  Content \subseteq Content'
<1>1. CASE KeepsRows
  <2> DEFINE w == IF draft # None THEN draft ELSE Tip
  <2>1. Tip' = Tip /\ draft' = draft /\ draftBase' = draftBase
    BY <1>1, KeptRows DEF KeepsRows
  <2>2. doc' = "absent" <=> doc = "absent"
    BY <1>1 DEF KeepsRows
  <2>3. CASE Tip = None
    BY <2>3, ContentIs
  <2>4. CASE Tip # None
    <3>1. w \in Rows /\ Working(Tip) = w /\ Content = edits[w]
      BY <2>4, ContentIs, StepFacts DEF Working, IInv, DraftContinuesTip
    <3>2. Working(Tip)' = w /\ doc # "absent"
      BY <2>1, <2>4, <3>1, StepFacts DEF Working, IInv, Shape
    <3>3. Content' = edits'[w]
      BY <2>1, <2>2, <2>4, <3>2 DEF Content
    <3> QED  BY <3>1, <3>3, RowsLast
  <2> QED  BY <2>3, <2>4
<1>2. ASSUME NEW o \in Ops, Saves(o) PROVE Content \subseteq Content'
  <2>1. Content \subseteq edits[o]
    BY <1>2, SaveContinues, ContentIs, StepFacts
  <2>2. Tip' # None /\ Working(Tip)' = o
    <3>1. CASE kind[o] = "autosave"
      <4>1. Tip' = Tip /\ Tip # None /\ draft' = o /\ draftBase' = Tip /\ o # None
        BY <1>2, <3>1, SavedRows, SaveContinues, StepFacts, NoneAssumption DEF
           Saves
      <4> QED  BY <4>1 DEF Working
    <3>2. CASE kind[o] # "autosave"
      <4>1. Tip' = o /\ draft' = None /\ o # None
        BY <1>2, <3>2, SavedRows, StepFacts, NoneAssumption DEF Saves
      <4> QED  BY <4>1 DEF Working
    <3> QED  BY <3>1, <3>2
  <2>3. Content' = edits'[o]
    BY <1>2, <2>2 DEF Content, Saves
  <2> QED  BY <1>2, <2>1, <2>3, SaveContinues
<1>3. ASSUME NEW o \in Ops, Drops(o) PROVE Content \subseteq Content'
  <2>1. UNCHANGED db /\ edits' = edits
    BY <1>3, StepFacts DEF Drops, Types, store
  <2> QED  BY <2>1 DEF db, Content, Working, Tip
<1> QED  BY <1>1, <1>2, <1>3, StepFacts

\* No save, autosave, failure or restart loses what had been saved.
THEOREM SavesAreKept == Spec => NoSaveIsLost
<1>1. IInv /\ [Next]_vars =>
        [(\A o \in Ops : pc[o] = "deleting" => pc'[o] = "deleting" \/ UNCHANGED db)
          => Content \subseteq Content']_vars
  BY ContentGrows
<1> QED  BY <1>1, DocumentInvariant, PTL DEF Spec, NoSaveIsLost

-----------------------------------------------------------------------------
(* The ledger.                                                             *)

\* The cells of a finite set of operations are finite, those of disjoint sets
\* are disjoint: bytes add up.
LEMMA CellsFinite ==
    ASSUME NEW S \in SUBSET Ops, IsFiniteSet(S)
    PROVE  IsFiniteSet(Cells(S))
<1> DEFINE F == {{i} \X (1 .. Size[i]) : i \in S}
           f == [i \in S |-> {i} \X (1 .. Size[i])]
<1>1. f \in Surjection(S, F)
  BY DEF Surjection
<1>2. IsFiniteSet(F)
  BY <1>1, FS_Surjection
<1>3. \A T \in F : IsFiniteSet(T)
  <2>1. ASSUME NEW i \in S PROVE IsFiniteSet({i} \X (1 .. Size[i]))
    <3>1. IsFiniteSet({i})
      BY FS_Singleton
    <3>2. Size[i] \in Int
      BY SizesAssumption
    <3>3. IsFiniteSet(1 .. Size[i])
      BY <3>2, FS_Interval
    <3> QED  BY <3>1, <3>3, FS_Product
  <2> QED  BY <2>1
<1>4. IsFiniteSet(UNION F)
  BY <1>2, <1>3, FS_UNION
<1> QED  BY <1>4 DEF Cells

LEMMA BytesNone == Bytes({}) = 0
<1>1. Cells({}) = {}
  BY DEF Cells
<1> QED  BY <1>1, FS_EmptySet DEF Bytes

LEMMA BytesAdd ==
    ASSUME NEW S \in SUBSET Ops, NEW T \in SUBSET Ops, IsFiniteSet(S), IsFiniteSet(T),
           S \cap T = {}
    PROVE  /\ Bytes(S) \in Nat /\ Bytes(T) \in Nat
           /\ Bytes(S \cup T) = Bytes(S) + Bytes(T)
<1>1. IsFiniteSet(Cells(S)) /\ IsFiniteSet(Cells(T))
  BY CellsFinite
<1>2. Bytes(S) \in Nat /\ Bytes(T) \in Nat
  BY <1>1, FS_CardinalityType DEF Bytes
<1>3. Cells(S \cup T) = Cells(S) \cup Cells(T)
  BY DEF Cells
<1>4. Cells(S) \cap Cells(T) = {}
  <2>1. SUFFICES ASSUME NEW c \in Cells(S), c \in Cells(T) PROVE FALSE
    OBVIOUS
  <2>2. PICK i \in S : c \in {i} \X (1 .. Size[i])
    BY DEF Cells
  <2>3. PICK j \in T : c \in {j} \X (1 .. Size[j])
    BY <2>1 DEF Cells
  <2> QED  BY <2>2, <2>3
<1>5. Cardinality(Cells(S) \cap Cells(T)) = 0
  BY <1>4, FS_EmptySet
<1>6. Cardinality(Cells(S) \cup Cells(T))
        = Cardinality(Cells(S)) + Cardinality(Cells(T)) - Cardinality(Cells(S) \cap Cells(T))
  BY <1>1, FS_Union
<1>7. Bytes(S \cup T) = Cardinality(Cells(S) \cup Cells(T))
  BY <1>3 DEF Bytes
<1>8. Bytes(S \cup T) = Bytes(S) + Bytes(T) - 0
  BY <1>5, <1>6, <1>7 DEF Bytes
<1> QED  BY <1>2, <1>8

\* The rows are finitely many.
LEMMA RowsFinite ==
    ASSUME Types
    PROVE  IsFiniteSet(VersionSet) /\ IsFiniteSet(DraftSet) /\ IsFiniteSet(Rows)
<1> DEFINE f == [i \in 1 .. Len(versions) |-> versions[i]]
<1>1. Len(versions) \in Nat
  BY LenProperties DEF Types
<1>2. IsFiniteSet(1 .. Len(versions))
  BY <1>1, FS_Interval
<1>3. f \in Surjection(1 .. Len(versions), VersionSet)
  BY DEF Surjection, VersionSet
<1>4. IsFiniteSet(VersionSet)
  BY <1>2, <1>3, FS_Surjection
<1>5. IsFiniteSet(DraftSet)
  BY FS_Singleton, FS_Difference DEF DraftSet
<1>6. IsFiniteSet(VersionSet \cup DraftSet)
  BY <1>4, <1>5, FS_Union
<1> QED  BY <1>4, <1>5, <1>6 DEF Rows, DraftSet

\* release() does not go below zero, and does not have to.
LEMMA ReleasedIs ==
    ASSUME NEW freed, used \in Nat, Bytes(freed) \in Nat, Bytes(freed) <= used
    PROVE  Released(freed) = used - Bytes(freed)
<1> DEFINE n == used - Bytes(freed)
<1>1. n \in Nat
  OBVIOUS
<1>2. \A x, y \in {0, n} : (\A z \in {0, n} : x >= z) /\ (\A z \in {0, n} : y >= z) => x = y
  BY <1>1
<1>3. \A z \in {0, n} : n >= z
  BY <1>1
<1>4. Max({0, n}) = n
  <2> HIDE DEF n
  <2> QED  BY <1>2, <1>3 DEF Max
<1> QED  BY <1>4 DEF Released

\* A version is stored once.
Distinct == \A i, j \in 1 .. Len(versions) : versions[i] = versions[j] => i = j

\* What is charged is what the rows take, and within the quota.
Account == used \in Nat /\ used <= Quota /\ LedgerMatchesRows

\* Versions stay distinct.
LEMMA DistinctStep ==
    ASSUME IInv, Distinct, [Next]_vars
    PROVE  Distinct'
<1>1. CASE KeepsRows
  BY <1>1 DEF KeepsRows, Distinct
<1>2. ASSUME NEW o \in Ops, Saves(o) PROVE Distinct'
  <2>1. CASE kind[o] = "autosave"
    BY <1>2, <2>1 DEF Saves, Distinct
  <2>2. CASE kind[o] # "autosave"
    <3>1. /\ Len(versions') = Len(versions) + 1 /\ versions'[Len(versions) + 1] = o
          /\ \A i \in 1 .. Len(versions) : versions'[i] = versions[i]
          /\ Len(versions) \in Nat
      BY <1>2, <2>2, SavedRows, StepFacts, TipIsVersion
    <3>2. \A i \in 1 .. Len(versions) : versions[i] # o
      BY <1>2 DEF IInv, Placed, Past, Rows, VersionSet, Saves, Early
    <3> QED  BY <3>1, <3>2 DEF Distinct
  <2> QED  BY <2>1, <2>2
<1>3. ASSUME NEW o \in Ops, Drops(o) PROVE Distinct'
  <2>1. /\ Len(versions') \in Nat /\ Len(versions') <= Len(versions)
        /\ \A i \in 1 .. Len(versions') : versions'[i] = versions[i]
        /\ Len(versions) \in Nat
    BY <1>3, DroppedRows, StepFacts, TipIsVersion
  <2> QED  BY <2>1 DEF Distinct
<1> QED  BY <1>1, <1>2, <1>3, StepFacts

\* What a restore or purge drops, once it commits.
Dropping(o) == IF kind[o] = "restore" THEN Newer(keep[o]) \cup DraftSet ELSE Rows

LEMMA DroppingIsRows ==
    ASSUME Types, Locked, NEW o \in Ops, pc[o] = "deleting"
    PROVE  Dropping(o) \subseteq Rows
<1>1. kind[o] = "restore" => keep[o] \in Nat /\ Len(versions) \in Nat
  BY LenProperties DEF Types
<1> QED  BY <1>1 DEF Dropping, Newer, DraftSet, Rows, VersionSet

\* What it drops, and what it leaves, are the rows.
LEMMA DropSplits ==
    ASSUME Types, Locked, Distinct, Shape, NEW o \in Ops, Drops(o)
    PROVE  /\ Rows = Rows' \cup Dropping(o) /\ Rows' \cap Dropping(o) = {}
           /\ Charge(Dropping(o), {})
<1> USE DEF Dropping
<1>1. CASE kind[o] = "restore"
  <2>1. keep[o] \in 1 .. Len(versions) /\ Len(versions) \in Nat
    BY <1>1, LenProperties DEF Locked, Holds, Drops, Types
  <2>2. versions' = SubSeq(versions, 1, keep[o]) /\ Charge(Newer(keep[o]) \cup DraftSet, {})
    BY <1>1, <2>1 DEF Drops
  <2>3. /\ Len(versions') = keep[o]
        /\ \A i \in 1 .. keep[o] : versions'[i] = versions[i]
    BY <2>1, <2>2, SubSeqProperties, LenProperties DEF Types
  <2>4. Rows' = {versions[i] : i \in 1 .. keep[o]}
    BY <2>3, DroppedRows DEF VersionSet
  <2>5. VersionSet = Rows' \cup Newer(keep[o])
    <3>1. 1 .. Len(versions) = (1 .. keep[o]) \cup (keep[o] + 1 .. Len(versions))
      BY <2>1
    <3> QED  BY <3>1, <2>4 DEF VersionSet, Newer
  <2>6. Rows' \cap Newer(keep[o]) = {}
    BY <2>1, <2>4 DEF Newer, Distinct
  <2>7. Rows = VersionSet \cup DraftSet /\ VersionSet \cap DraftSet = {}
    BY DEF Rows, DraftSet, Shape
  <2> QED  BY <1>1, <2>2, <2>5, <2>6, <2>7
<1>2. CASE kind[o] = "purge"
  <2>1. versions' = <<>> /\ Charge(Rows, {})
    BY <1>2 DEF Drops
  <2>2. Rows' = {}
    BY <2>1, DroppedRows, EmptySeq DEF VersionSet
  <2> QED  BY <1>2, <2>1, <2>2
<1> QED  BY <1>1, <1>2 DEF Drops

\* Every commit charges for what it adds and releases what it drops.
LEMMA AccountStep ==
    ASSUME IInv, Distinct, Account, [Next]_vars
    PROVE  Account'
<1>0. /\ IsFiniteSet(VersionSet) /\ IsFiniteSet(DraftSet) /\ IsFiniteSet(Rows)
      /\ VersionSet \subseteq Ops /\ Rows \subseteq Ops
      /\ DraftSet \subseteq Ops /\ Rows = VersionSet \cup DraftSet
      /\ VersionSet \cap DraftSet = {}
  <2>1. Types /\ Shape
    BY StepFacts DEF IInv
  <2>2. Rows = VersionSet \cup DraftSet /\ VersionSet \cap DraftSet = {}
    BY <2>1 DEF Rows, DraftSet, Shape
  <2> QED  BY <2>1, <2>2, RowsFinite, TipIsVersion
<1>1. CASE KeepsRows
  <2>1. Rows' = Rows /\ used' = used
    BY <1>1, KeptRows DEF KeepsRows
  <2> QED  BY <2>1 DEF Account, LedgerMatchesRows, Bytes, Cells
<1>2. ASSUME NEW o \in Ops, Saves(o) PROVE Account'
  <2>1. Rows' = VersionSet \cup {o} /\ VersionSet \cap {o} = {}
    <3>1. o \notin VersionSet
      BY <1>2 DEF IInv, Placed, Past, Rows, Saves, Early
    <3> QED  BY <1>2, <3>1, SavedRows, StepFacts
  <2>2. IsFiniteSet({o}) /\ {o} \subseteq Ops
    BY FS_Singleton
  <2>3. /\ Bytes(VersionSet) \in Nat /\ Bytes(DraftSet) \in Nat /\ Bytes({o}) \in Nat
        /\ Bytes(Rows) = Bytes(VersionSet) + Bytes(DraftSet)
        /\ Bytes(Rows') = Bytes(VersionSet) + Bytes({o})
    BY <1>0, <2>1, <2>2, BytesAdd
  <2>4. Released(DraftSet) = Bytes(VersionSet)
    BY <2>3, ReleasedIs DEF Account, LedgerMatchesRows
  <2>5. used' = Bytes(VersionSet) + Bytes({o}) /\ Bytes(VersionSet) + Bytes({o}) <= Quota
    BY <1>2, <2>4 DEF Saves, Fits, Charge
  <2>6. Bytes(Rows)' = Bytes(Rows')
    BY DEF Bytes, Cells
  <2> QED  BY <2>3, <2>5, <2>6 DEF Account, LedgerMatchesRows
<1>3. ASSUME NEW o \in Ops, Drops(o) PROVE Account'
  <2> DEFINE gone == Dropping(o)
  <2>1. Rows = Rows' \cup gone /\ Rows' \cap gone = {} /\ Charge(gone, {})
    BY <1>3, StepFacts, DropSplits DEF IInv
  <2> HIDE DEF gone
  <2>2. /\ IsFiniteSet(gone) /\ gone \subseteq Ops
        /\ IsFiniteSet(Rows') /\ Rows' \subseteq Ops
    BY <1>0, <2>1, FS_Subset
  <2>3. /\ Bytes(Rows') \in Nat /\ Bytes(gone) \in Nat
        /\ Bytes(Rows) = Bytes(Rows') + Bytes(gone)
    BY <1>0, <2>1, <2>2, BytesAdd
  <2>4. Released(gone) = Bytes(Rows')
    BY <2>3, ReleasedIs DEF Account, LedgerMatchesRows
  <2>5. used' = Bytes(Rows')
    BY <2>1, <2>3, <2>4, BytesNone DEF Charge
  <2>6. Bytes(Rows)' = Bytes(Rows')
    BY DEF Bytes, Cells
  <2> QED  BY <2>3, <2>5, <2>6, SizesAssumption DEF Account, LedgerMatchesRows
<1> QED  BY <1>1, <1>2, <1>3, StepFacts

-----------------------------------------------------------------------------
(* The store, while nothing fails.                                         *)

Quiet == faults = 0 /\ crashes = 0

\* Where an object that is stored belongs: a row, an operation that will clean
\* it up, or one that has yet to commit it.
Accounted(i) ==
    \/ i \in Rows
    \/ \E o \in Ops : pc[o] = "sweepOld" /\ i \in doomed[o]
    \/ pc[i] \in {"stored", "sweepOwn"}

\* A transaction that deletes objects is under way as long as the lock is held,
\* and will drop the rows whose objects it has deleted.
Tidied ==
    /\ \A i \in objects : Accounted(i)
    /\ \A i \in Rows \cap torn : lock # None /\ i \in Dropping(lock)
    /\ \A i \in torn : Past(i)
    /\ lock # None => pc[lock] = "deleting"
    /\ \A o \in Ops : pc[o] = "deleting" =>
          doomed[o] \subseteq Dropping(o) /\ Dropping(o) \cap objects \subseteq doomed[o]

Tidy == faults \in Nat /\ crashes \in Nat /\ (Quiet => Tidied)

\* A step that touches neither the rows nor what is to be deleted; an object is
\* put by the one who will commit it.
Quietly ==
    /\ KeepsRows /\ UNCHANGED <<lock, doomed, torn>>
    /\ \A o \in Ops :
          /\ \A p \in {"deleting", "sweepOld"} : pc'[o] = p <=> pc[o] = p
          /\ pc[o] = "deleting" => kind'[o] = kind[o] /\ keep'[o] = keep[o]
    /\ \A i \in objects' :
          \/ pc[i] = "editing" /\ pc'[i] = "stored"
          \/ /\ i \in objects
             /\ pc[i] \in {"stored", "sweepOwn"} => pc'[i] \in {"stored", "sweepOwn"}

Deletion(o) ==
    \/ CommitSave(o) \/ SweepOld(o)
    \/ (\E k \in 1 .. Len(versions) : BeginRestore(o, k)) \/ BeginPurge(o)
    \/ (\E i \in Ops : DeleteObject(o, i)) \/ CommitDelete(o)

\* What a transaction drops stays the same while the rows do.
LEMMA DroppingKept ==
    ASSUME KeepsRows, NEW o \in Ops, kind'[o] = kind[o], keep'[o] = keep[o]
    PROVE  Dropping(o)' = Dropping(o)
<1>1. Rows' = Rows /\ DraftSet' = DraftSet /\ Newer(keep[o])' = Newer(keep'[o])
  BY KeptRows DEF KeepsRows, DraftSet, Newer
<1> QED  BY <1>1 DEF Dropping, KeepsRows, Newer, DraftSet

\* The failures are counted.
LEMMA CountsStep ==
    ASSUME faults \in Nat, crashes \in Nat, [Next]_vars
    PROVE  faults' \in Nat /\ crashes' \in Nat /\ (Quiet' => Quiet)
<1> USE DEF Fault, vars, bounds, Quiet
<1>1. UNCHANGED bounds \/ (faults' = faults + 1 /\ crashes' = crashes)
        \/ (faults' = faults /\ crashes' = crashes + 1)
  <2>1. ASSUME NEW o \in Ops, Step(o)
        PROVE UNCHANGED bounds \/ (faults' = faults + 1 /\ crashes' = crashes)
    BY <2>1 DEF Step, BeginCreate, ReadTip, ReadForEditing, ReadFails, PutObject, PutFails,
       CommitSave, SaveRejected, CommitAmbiguous, SweepOld, SweepOwn, BeginRestore,
       BeginPurge, DeleteObject, CommitDelete, RollBack
  <2> QED  BY <2>1 DEF Next, Trash, Untrash, Restart
<1> QED  BY <1>1

\* While nothing fails, a step is a quiet one or one of a deletion.
LEMMA QuietSteps ==
    ASSUME Types, Tidy, [Next]_vars, Quiet'
    PROVE  Quietly \/ \E o \in Ops : Deletion(o)
<1> USE DEF Quietly, KeepsRows, Types, Pcs, Go, Fault, Unlocked, vars, db, store, request,
        bounds, Quiet, Tidy
<1>BeginCreate. ASSUME NEW o \in Ops, BeginCreate(o) PROVE Quietly
  BY <1>BeginCreate DEF BeginCreate
<1>ReadTip. ASSUME NEW o \in Ops, ReadTip(o) PROVE Quietly
  BY <1>ReadTip DEF ReadTip
<1>ReadForEditing. ASSUME NEW o \in Ops, ReadForEditing(o) PROVE Quietly
  BY <1>ReadForEditing DEF ReadForEditing
<1>ReadFails. ASSUME NEW o \in Ops, ReadFails(o) PROVE Quietly
  BY <1>ReadFails DEF ReadFails
<1>PutObject. ASSUME NEW o \in Ops, PutObject(o) PROVE Quietly
  BY <1>PutObject DEF PutObject
<1>PutFails. ASSUME NEW o \in Ops, PutFails(o) PROVE Quietly
  BY <1>PutFails DEF PutFails
<1>SaveRejected. ASSUME NEW o \in Ops, SaveRejected(o) PROVE Quietly
  BY <1>SaveRejected DEF SaveRejected
<1>SweepOwn. ASSUME NEW o \in Ops, SweepOwn(o) PROVE Quietly
  BY <1>SweepOwn DEF SweepOwn
<1>Trash. ASSUME Trash PROVE Quietly
  BY <1>Trash DEF Trash
<1>Untrash. ASSUME Untrash PROVE Quietly
  BY <1>Untrash DEF Untrash
<1>S. CASE UNCHANGED vars
  BY <1>S
<1>F. ASSUME NEW o \in Ops, CommitAmbiguous(o) \/ RollBack(o) PROVE FALSE
  BY <1>F DEF CommitAmbiguous, RollBack
<1>R. ASSUME Restart PROVE FALSE
  BY <1>R DEF Restart
<1> HIDE DEF Quietly
<1> QED
  BY <1>BeginCreate, <1>ReadTip, <1>ReadForEditing, <1>ReadFails, <1>PutObject,
     <1>PutFails, <1>SaveRejected, <1>SweepOwn, <1>Trash, <1>Untrash, <1>S, <1>F,
     <1>R DEF Next, Step, Deletion

\* A quiet step keeps the store tidy.
LEMMA QuietlyTidy ==
    ASSUME IInv, Tidied, Quietly, [Next]_vars
    PROVE  Tidied'
<1>1. Rows' = Rows /\ lock' = lock /\ doomed' = doomed /\ torn' = torn
  BY KeptRows DEF Quietly
<1>2. lock \in Ops \cup {None} /\ Rows \subseteq Ops /\ objects' \subseteq Ops
  BY StepFacts DEF Types
<1>3. \A o \in Ops : pc[o] = "deleting" => Dropping(o)' = Dropping(o)
  BY DroppingKept DEF Quietly
<1>4. \A i \in objects' : Accounted(i)'
  BY <1>1 DEF Quietly, Accounted, Tidied
<1>5. \A i \in torn' : Past(i)'
  BY <1>1, StepFacts DEF Tidied, Lasts, Past
<1>6. lock' # None => pc'[lock'] = "deleting"
  BY <1>1, <1>2 DEF Quietly, Tidied
<1>7. \A i \in Rows' \cap torn' : lock' # None /\ i \in Dropping(lock)'
  BY <1>1, <1>2, <1>3 DEF Tidied
<1>8. ASSUME NEW o \in Ops, pc'[o] = "deleting"
      PROVE  doomed'[o] \subseteq Dropping(o)' /\ Dropping(o)' \cap objects' \subseteq doomed'[o]
  <2>1. pc[o] = "deleting" /\ Dropping(o)' = Dropping(o) /\ Dropping(o) \subseteq Rows
    BY <1>3, <1>8, DroppingIsRows, StepFacts DEF Quietly
  <2>2. \A i \in Rows : pc[i] # "editing"
    BY DEF IInv, Placed, Past, Early
  <2> QED  BY <1>1, <2>1, <2>2 DEF Quietly, Tidied
<1> QED  BY <1>4, <1>5, <1>6, <1>7, <1>8 DEF Tidied

\* Only the operation that has the lock drops rows.
LEMMA HolderIs ==
    ASSUME IInv, Tidied, NEW o \in Ops
    PROVE  /\ pc[o] = "deleting" <=> lock = o
           /\ pc[o] = "deleting" => Dropping(o) \subseteq Rows
<1>1. pc[o] = "deleting" => lock = o
  BY DEF IInv, Locked, Holds
<1>2. lock = o => pc[o] = "deleting"
  BY NoneAssumption DEF Tidied
<1> QED  BY <1>1, <1>2, DroppingIsRows DEF IInv

\* A save hands the draft it replaced to its own clean-up.
LEMMA SaveTidy ==
    ASSUME IInv, Tidied, NEW o \in Ops, CommitSave(o), [Next]_vars
    PROVE  Tidied'
<1>1. Saves(o)
  BY DEF CommitSave, ApplySave, Accepted, Saves, Unlocked, Go
<1>2. /\ Rows' = VersionSet \cup {o} /\ Rows = VersionSet \cup DraftSet
      /\ lock = None /\ lock' = None /\ torn' = torn /\ objects' = objects
      /\ doomed' = [doomed EXCEPT ![o] = DraftSet]
      /\ pc' = [pc EXCEPT ![o] = "sweepOld"] /\ pc[o] = "stored"
  BY <1>1, SavedRows, StepFacts DEF CommitSave, Rows, DraftSet, Unlocked, Go, store
<1>3. \A q \in Ops : pc[q] # "deleting"
  BY <1>2, HolderIs, NoneAssumption
<1>4. \A i \in objects : Accounted(i)'
  <2>1. ASSUME NEW i \in objects PROVE Accounted(i)'
    <3>0. i \in Ops /\ doomed \in [Ops -> SUBSET Ops] /\ pc \in [Ops -> Pcs]
      BY StepFacts DEF Types
    <3>1. CASE i \in Rows
      <4>1. CASE i \in VersionSet
        BY <1>2, <4>1 DEF Accounted
      <4>2. CASE i \in DraftSet
        <5>1. pc'[o] = "sweepOld" /\ i \in doomed'[o]
          BY <1>2, <3>0, <4>2
        <5> QED  BY <5>1 DEF Accounted
      <4> QED  BY <1>2, <3>1, <4>1, <4>2
    <3>2. ASSUME NEW q \in Ops, pc[q] = "sweepOld", i \in doomed[q] PROVE Accounted(i)'
      <4>1. q # o /\ pc'[q] = "sweepOld" /\ doomed'[q] = doomed[q]
        BY <1>2, <3>0, <3>2
      <4> QED  BY <3>2, <4>1 DEF Accounted
    <3>3. CASE pc[i] \in {"stored", "sweepOwn"}
      <4>1. CASE i = o
        BY <1>2, <4>1 DEF Accounted
      <4>2. CASE i # o
        BY <1>2, <3>0, <3>3, <4>2 DEF Accounted
      <4> QED  BY <4>1, <4>2
    <3> QED  BY <3>1, <3>2, <3>3 DEF Tidied, Accounted
  <2> QED  BY <2>1
<1>5. o \notin torn
  BY <1>2 DEF Tidied, Past, Early
<1>6. \A i \in Rows' \cap torn' : FALSE
  BY <1>2, <1>5 DEF Tidied
<1>7. \A i \in torn' : Past(i)'
  BY <1>2, StepFacts DEF Tidied, Lasts, Past
<1>8. \A q \in Ops : pc'[q] # "deleting"
  BY <1>2, <1>3, StepFacts DEF Types
<1> QED  BY <1>2, <1>4, <1>6, <1>7, <1>8 DEF Tidied

\* The clean-up takes away what the save had replaced.
LEMMA SweepTidy ==
    ASSUME IInv, Tidied, Quiet, Quiet', NEW o \in Ops, SweepOld(o), [Next]_vars
    PROVE  Tidied'
<1>1. /\ KeepsRows /\ lock' = lock /\ torn' = torn /\ doomed' = doomed
      /\ kind' = kind /\ keep' = keep
      /\ objects' = objects \ doomed[o]
      /\ pc' = [pc EXCEPT ![o] = "saved"] /\ pc[o] = "sweepOld"
  BY DEF SweepOld, db, request, Go, Fault, Quiet, KeepsRows
<1>2. Rows' = Rows /\ \A q \in Ops : Dropping(q)' = Dropping(q)
  BY <1>1, KeptRows, DroppingKept
<1>3. pc \in [Ops -> Pcs] /\ lock \in Ops \cup {None} /\ objects \subseteq Ops
  BY StepFacts DEF Types
<1>4. \A i \in objects' : Accounted(i)'
  BY <1>1, <1>2, <1>3 DEF Accounted, Tidied
<1>5. \A q \in Ops : pc'[q] = "deleting" <=> pc[q] = "deleting"
  BY <1>1, <1>3
<1>6. \A i \in torn' : Past(i)'
  BY <1>1, StepFacts DEF Tidied, Lasts, Past
<1>7. lock' # None => pc'[lock'] = "deleting"
  BY <1>1, <1>3, <1>5 DEF Tidied
<1>8. \A i \in Rows' \cap torn' : lock' # None /\ i \in Dropping(lock)'
  BY <1>1, <1>2, <1>3 DEF Tidied
<1>9. ASSUME NEW q \in Ops, pc'[q] = "deleting"
      PROVE  doomed'[q] \subseteq Dropping(q)' /\ Dropping(q)' \cap objects' \subseteq doomed'[q]
  BY <1>1, <1>2, <1>5, <1>9 DEF Tidied
<1> QED  BY <1>4, <1>6, <1>7, <1>8, <1>9 DEF Tidied

\* A restore or purge takes the lock, and dooms all that it will drop.
LEMMA BeginTidy ==
    ASSUME IInv, Tidied, NEW o \in Ops,
           (\E k \in 1 .. Len(versions) : BeginRestore(o, k)) \/ BeginPurge(o), [Next]_vars
    PROVE  Tidied'
<1>1. /\ KeepsRows /\ lock = None /\ lock' = o /\ torn' = torn /\ objects' = objects
      /\ pc' = [pc EXCEPT ![o] = "deleting"] /\ pc[o] = "idle"
      /\ \A q \in Ops \ {o} : doomed'[q] = doomed[q]
  BY StepFacts DEF BeginRestore, BeginPurge, db, store, Go, Unlocked, KeepsRows, Types
<1>2. doomed'[o] = Dropping(o)'
  <2>1. ASSUME NEW k \in 1 .. Len(versions), BeginRestore(o, k) PROVE doomed'[o] = Dropping(o)'
    <3>1. doomed'[o] = Newer(k) \cup DraftSet /\ kind'[o] = "restore" /\ keep'[o] = k
      <4>1. k \in Nat
        BY LenProperties, StepFacts DEF Types
      <4> QED  BY <2>1, <4>1, StepFacts DEF BeginRestore, Types
    <3>2. Dropping(o)' = Newer(keep[o])' \cup DraftSet'
      BY <3>1 DEF Dropping
    <3> QED  BY <1>1, <3>1, <3>2 DEF Newer, DraftSet, KeepsRows
  <2>2. ASSUME BeginPurge(o) PROVE doomed'[o] = Dropping(o)'
    <3>1. doomed'[o] = Rows /\ kind'[o] = "purge"
      BY <2>2, StepFacts DEF BeginPurge, Types
    <3> QED  BY <1>1, <3>1, KeptRows DEF Dropping
  <2> QED  BY <2>1, <2>2
<1>3. Rows' = Rows /\ \A q \in Ops : pc[q] # "deleting"
  BY <1>1, KeptRows, HolderIs, NoneAssumption
<1>4. pc \in [Ops -> Pcs] /\ objects \subseteq Ops
  BY StepFacts DEF Types
<1>5. \A i \in objects' : Accounted(i)'
  BY <1>1, <1>3, <1>4 DEF Accounted, Tidied
<1>6. \A i \in torn' : Past(i)'
  BY <1>1, StepFacts DEF Tidied, Lasts, Past
<1>7. \A i \in Rows' \cap torn' : FALSE
  BY <1>1, <1>3 DEF Tidied
<1>8. \A q \in Ops : pc'[q] = "deleting" => q = o
  BY <1>1, <1>3, <1>4
<1> QED  BY <1>1, <1>2, <1>4, <1>5, <1>6, <1>7, <1>8 DEF Tidied

\* It deletes one object after another.
LEMMA DeleteTidy ==
    ASSUME IInv, Tidied, NEW o \in Ops, NEW x \in Ops, DeleteObject(o, x), [Next]_vars
    PROVE  Tidied'
<1>1. /\ KeepsRows /\ lock' = lock /\ torn' = torn \cup {x} /\ objects' = objects \ {x}
      /\ pc' = pc /\ pc[o] = "deleting" /\ kind' = kind /\ keep' = keep
      /\ doomed' = [doomed EXCEPT ![o] = doomed[o] \ {x}] /\ x \in doomed[o]
  BY DEF DeleteObject, db, request, KeepsRows
<1>2. Rows' = Rows /\ \A q \in Ops : Dropping(q)' = Dropping(q)
  BY <1>1, KeptRows, DroppingKept
<1>3. /\ doomed \in [Ops -> SUBSET Ops] /\ objects \subseteq Ops /\ lock = o
      /\ \A q \in Ops : pc[q] = "deleting" => q = o
  BY <1>1, HolderIs, StepFacts DEF Types
<1>4. \A i \in objects' : Accounted(i)'
  <2>1. \A q \in Ops : pc[q] = "sweepOld" => doomed'[q] = doomed[q]
    BY <1>1, <1>3
  <2> QED  BY <1>1, <1>2, <2>1 DEF Accounted, Tidied
<1>5. \A i \in torn' : Past(i)'
  BY <1>1, StepFacts DEF Tidied, Lasts, Past, IInv, Placed
<1>6. \A i \in Rows' \cap torn' : i \in Dropping(lock)'
  <2>1. x \in Dropping(o)
    BY <1>1 DEF Tidied
  <2> QED  BY <1>1, <1>2, <1>3, <2>1 DEF Tidied
<1>7. doomed'[o] \subseteq Dropping(o)' /\ Dropping(o)' \cap objects' \subseteq doomed'[o]
  BY <1>1, <1>2, <1>3 DEF Tidied
<1> QED  BY <1>1, <1>3, <1>4, <1>5, <1>6, <1>7, NoneAssumption DEF Tidied

\* The rows go when all their objects have gone.
LEMMA CommitTidy ==
    ASSUME IInv, Distinct, Tidied, Quiet, Quiet', NEW o \in Ops, CommitDelete(o), [Next]_vars
    PROVE  Tidied'
<1>1. Drops(o)
  <2>1. CASE ApplyRestore(o)
    BY <2>1 DEF CommitDelete, ApplyRestore, Drops, Go, Fault
  <2>2. CASE ApplyPurge(o)
    BY <2>2 DEF CommitDelete, ApplyPurge, Drops, Go, Fault
  <2> QED  BY <2>1, <2>2 DEF CommitDelete
<1>2. /\ torn' = torn /\ objects' = objects /\ doomed' = doomed /\ doomed[o] = {}
      /\ pc' = [pc EXCEPT ![o] = "saved"] /\ pc[o] = "deleting" /\ lock' = None
  BY DEF CommitDelete, Go, Fault, Quiet, store
<1>3. Rows = Rows' \cup Dropping(o) /\ Rows' \cap Dropping(o) = {}
  BY <1>1, DropSplits DEF IInv
<1>4. /\ lock = o /\ objects \subseteq Ops /\ pc \in [Ops -> Pcs]
      /\ \A q \in Ops : pc[q] = "deleting" => q = o
  BY <1>2, HolderIs, StepFacts DEF Types
<1>5. Dropping(o) \cap objects = {}
  BY <1>2 DEF Tidied
<1>6. \A i \in objects' : Accounted(i)'
  BY <1>2, <1>3, <1>4, <1>5 DEF Accounted, Tidied
<1>7. \A i \in torn' : Past(i)'
  BY <1>2, StepFacts DEF Tidied, Lasts, Past
<1>8. \A i \in Rows' \cap torn' : FALSE
  BY <1>2, <1>3, <1>4 DEF Tidied
<1>9. \A q \in Ops : pc'[q] # "deleting"
  BY <1>2, <1>4
<1> QED  BY <1>2, <1>6, <1>7, <1>8, <1>9 DEF Tidied

LEMMA TidyStep ==
    ASSUME IInv, Distinct, Tidy, [Next]_vars
    PROVE  Tidy'
<1>1. faults' \in Nat /\ crashes' \in Nat /\ (Quiet' => Quiet)
  BY CountsStep DEF Tidy
<1>2. ASSUME Quiet' PROVE Tidied'
  <2>1. Quiet /\ Tidied
    BY <1>1, <1>2 DEF Tidy
  <2>2. CASE Quietly
    BY <2>1, <2>2, QuietlyTidy
  <2>3. ASSUME NEW o \in Ops, Deletion(o) PROVE Tidied'
    BY <1>2, <2>1, <2>3, SaveTidy, SweepTidy, BeginTidy, DeleteTidy, CommitTidy DEF Deletion
  <2> QED  BY <1>2, <2>2, <2>3, QuietSteps, StepFacts
<1> QED  BY <1>1, <1>2 DEF Tidy

-----------------------------------------------------------------------------

LedgerInv == IInv /\ Distinct /\ Account /\ Tidy

LEMMA LedgerInit == Init => LedgerInv
<1> SUFFICES ASSUME Init PROVE LedgerInv
  OBVIOUS
<1>1. IInv
  BY InitInvariant
<1>2. Len(versions) = 0 /\ Rows = {}
  BY EmptySeq DEF Init, VersionSet, Rows
<1>3. Distinct /\ Tidy
  BY <1>2 DEF Init, Distinct, Tidy, Tidied
<1>4. Account
  BY <1>2, BytesNone, SizesAssumption DEF Init, Account, LedgerMatchesRows
<1> QED  BY <1>1, <1>3, <1>4 DEF LedgerInv

LEMMA LedgerStep == LedgerInv /\ [Next]_vars => LedgerInv'
BY StepInvariant, DistinctStep, AccountStep, TidyStep DEF LedgerInv

\* The account, the rows and the store agree, for any operations, sizes and
\* failures.
THEOREM LedgerInvariant == Spec => []LedgerInv
<1> QED  BY LedgerInit, LedgerStep, PTL DEF Spec

\* The type invariant: in particular the account stays within the quota.
THEOREM TypesHold == Spec => []TypeOK
<1>1. LedgerInv => TypeOK
  BY SizesAssumption DEF LedgerInv, IInv, Types, Account, Tidy, TypeOK
<1> QED  BY <1>1, LedgerInvariant, PTL

\* What is charged is what the rows take, whatever saves, autosaves, restores
\* and purges do, refused, failing or unacknowledged.
THEOREM LedgerIsRows == Spec => []LedgerMatchesRows
<1>1. LedgerInv => LedgerMatchesRows
  BY DEF LedgerInv, Account
<1> QED  BY <1>1, LedgerInvariant, PTL

\* When nothing failed and nothing is in flight, the store holds the objects of
\* the rows and no others.
THEOREM StoreIsRows == Spec => []StoreMatchesRows
<1>1. LedgerInv => StoreMatchesRows
  <2> SUFFICES ASSUME LedgerInv, AtRest, Quiet PROVE objects = Rows
    BY DEF StoreMatchesRows, Quiet
  <2>1. Tidied /\ IInv
    BY DEF LedgerInv, Tidy
  <2>2. \A o \in Ops : pc[o] \notin {"deleting", "sweepOld", "sweepOwn", "stored"}
    BY DEF AtRest
  <2>3. lock = None
    BY <2>1, <2>2 DEF Tidied, IInv, Types
  <2>4. Rows \cap torn = {}
    BY <2>1, <2>3 DEF Tidied
  <2>5. objects \subseteq Rows
    BY <2>1, <2>2 DEF Tidied, Accounted, IInv, Types
  <2> QED  BY <2>1, <2>4, <2>5 DEF IInv, RowsHaveObjects
<1> QED  BY <1>1, LedgerInvariant, PTL
=============================================================================
