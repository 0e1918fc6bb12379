------------------------ MODULE ChatAttachments_proofs -------------------------
(***************************************************************************)
(* What the workspace's row and the check of a row's status protect, for   *)
(* any number of uploads, removals, messages, readers, failures and        *)
(* restarts: live attachments have their bytes, a deleted one stays        *)
(* deleted, and what a message has been sent with stays with it.           *)
(***************************************************************************)
EXTENDS ChatAttachments, FiniteSetTheorems, TLAPS

-----------------------------------------------------------------------------
(* The inductive invariant.                                                *)

\* Each kind of request has its steps; a removal has one target.
Dropping == {"dropFile", "dropText", "marking"}
Reading == {"reading", "extracted", "putting", "checking", "undo", "got"}
Callers ==
    /\ \A u \in Uploads : pc[u] \in AtRest \cup Dropping \cup {"expiring", "stored", "sweep"}
    /\ \A d \in Removals : /\ pc[d] \in AtRest \cup Dropping
                           /\ pc[d] = "idle" => target[d] = None
    /\ \A s \in Sends : pc[s] \in AtRest \cup {"binding"}
    /\ \A r \in Readers : /\ pc[r] \in AtRest \cup Reading
                          /\ pc[r] \in Reading => target[r] \in Uploads

\* Who deletes has the workspace's row, and its target is live; one that an
\* upload expires is staged, or was claimed meanwhile.
Locks(p) ==
    /\ pc[p] \in Dropping <=> lock = p
    /\ lock = p =>
          /\ target[p] \in Uploads /\ status[target[p]] \in {"staged", "bound"}
          /\ p \in Uploads => status[target[p]] = "staged" \/ target[p] \in raced
Locking == \A p \in Deleters : Locks(p)

\* A row that a message holds stays as the message found it.
Claimed == \A a \in held : status[a] = "staged"

\* An upload has no row before it inserts it, and then has stored the bytes.
Fresh(u) ==
    /\ pc[u] \in Dropping \cup {"idle", "expiring", "stored"} => status[u] = "absent"
    /\ pc[u] = "stored" => File(u) \in objects
    /\ pc[u] = "sweep" => status[u] = "absent" \/ u \in torn
Inserts == \A u \in Uploads : Fresh(u)

\* What a message has, it keeps.
Given(a, t) ==
    /\ status[a] \in {"bound", "deleted"} /\ thread[a] = t
    /\ status[a] = "bound" \/ a \in Removed \/ a \in raced
Delivers(s) ==
    /\ s \in sent => pc[s] \in {"done", "failed"} /\ \A a \in ids[s] : Given(a, chat[s])
    /\ pc[s] = "binding" => \A a \in ids[s] : a \in todo[s] \cup held \/ Given(a, chat[s])
Delivered ==
    /\ \A s \in Sends : Delivers(s)
    /\ \A s, r \in Sends : pc[s] = "binding" /\ pc[r] = "binding" => s = r

Types ==
    /\ status \in [Uploads -> {"absent", "staged", "bound", "deleted"}]
    /\ thread \in [Uploads -> Threads \cup {None}]
    /\ sent \in SUBSET Sends
    /\ lock \in Deleters \cup {None}
    /\ held \in SUBSET Uploads
    /\ objects \in SUBSET (Uploads \X {"file", "text"})
    /\ pc \in [Requests -> Pcs]
    /\ target \in [Requests -> Uploads \cup {None}]
    /\ ids \in [Sends -> SUBSET Uploads] /\ chat \in [Sends -> Threads \cup {None}]
    /\ todo \in [Requests -> SUBSET Uploads]
    /\ old \in SUBSET Uploads
    /\ torn \in SUBSET Uploads /\ raced \in SUBSET Uploads

IInv ==
    /\ Types /\ Callers /\ Locking /\ Claimed /\ Inserts /\ Delivered /\ LiveHaveBytes

-----------------------------------------------------------------------------
(* The steps.                                                              *)

\* A reader changes nothing but its own position, and no file.
Reads ==
    /\ UNCHANGED <<status, thread, used, sent, lock, held, ids, chat, todo, old, torn, raced>>
    /\ \A q \in Deleters \cup Sends : pc'[q] = pc[q] /\ target'[q] = target[q]
    /\ \A a \in Uploads : File(a) \in objects' <=> File(a) \in objects

LEMMA NextSteps ==
    ASSUME Types, [Next]_vars
    PROVE  \/ Reads
           \/ (\E u \in Uploads, t \in Threads \cup {None} : BeginUpload(u, t))
           \/ (\E d \in Removals, a \in Uploads : BeginRemoval(d, a))
           \/ (\E s \in Sends, t \in Threads, S \in SUBSET Uploads : BeginSend(s, t, S))
           \/ (\E p \in Deleters : Delete(p) \/ DropFails(p))
           \/ (\E u \in Uploads : Upload(u)) \/ (\E s \in Sends : Send(s))
           \/ (\E a \in Uploads : Age(a)) \/ Restart
<1> USE DEF Reads, File, Text, Types, Go, Todo, Fault, Unlocked, vars, rows,
        request, bounds, history
<1>BeginRead. ASSUME NEW r \in Readers, NEW a \in Uploads, BeginRead(r, a)
              PROVE Reads
  BY <1>BeginRead, RequestsAssumption DEF BeginRead
<1>ReadCached. ASSUME NEW r \in Readers, ReadCached(r) PROVE Reads
  BY <1>ReadCached, RequestsAssumption DEF ReadCached
<1>ReadOriginal. ASSUME NEW r \in Readers, ReadOriginal(r) PROVE Reads
  BY <1>ReadOriginal, RequestsAssumption DEF ReadOriginal
<1>SaveExtraction. ASSUME NEW r \in Readers, SaveExtraction(r) PROVE Reads
  BY <1>SaveExtraction, RequestsAssumption DEF SaveExtraction
<1>PutText. ASSUME NEW r \in Readers, PutText(r) PROVE Reads
  <2>1. objects' \in {objects, objects \cup {Text(target[r])}}
    BY <1>PutText DEF PutText
  <2>2. \A a \in Uploads : File(a) # Text(target[r])
    OBVIOUS
  <2>3. \A a \in Uploads : File(a) \in objects' <=> File(a) \in objects
    <3> HIDE DEF File, Text
    <3> QED  BY <2>1, <2>2
  <2>4. /\ UNCHANGED <<status, thread, used, sent, lock, held, ids, chat, todo, old, torn, raced>>
        /\ target' = target
    BY <1>PutText DEF PutText
  <2>5. pc' = [pc EXCEPT ![r] = "checking"] \/ pc' = [pc EXCEPT ![r] = "failed"]
    BY <1>PutText DEF PutText
  <2>6. \A q \in Deleters \cup Sends : pc'[q] = pc[q]
    BY <2>5, RequestsAssumption DEF Requests, Deleters
  <2> QED  BY <2>3, <2>4, <2>6
<1>Recheck. ASSUME NEW r \in Readers, Recheck(r) PROVE Reads
  BY <1>Recheck, RequestsAssumption DEF Recheck
<1>UndoText. ASSUME NEW r \in Readers, UndoText(r) PROVE Reads
  BY <1>UndoText, RequestsAssumption DEF UndoText
<1>Deliver. ASSUME NEW r \in Readers, Deliver(r) PROVE Reads
  BY <1>Deliver, RequestsAssumption DEF Deliver
<1>ReadFails. ASSUME NEW r \in Readers, ReadFails(r) PROVE Reads
  BY <1>ReadFails, RequestsAssumption DEF ReadFails
<1>S. CASE UNCHANGED vars
  BY <1>S
<1> QED
  BY <1>BeginRead, <1>ReadCached, <1>ReadOriginal, <1>SaveExtraction,
     <1>PutText, <1>Recheck, <1>UndoText, <1>Deliver, <1>ReadFails, <1>S DEF
     Next, Begin, Read

\* Types are kept.
LEMMA TypesStep ==
    ASSUME Types, Callers, Locking, [Next]_vars
    PROVE  Types'
<1> USE DEF Types, Pcs, AtRest, Deleters, Requests, File, Text, Go, Todo,
        Fault, Unlocked, vars, rows, request, bounds, history
<1>BeginUpload. ASSUME NEW u \in Uploads, NEW t \in Threads \cup {None},
                       BeginUpload(u, t)
                PROVE Types'
  BY <1>BeginUpload DEF BeginUpload
<1>BeginRemoval. ASSUME NEW d \in Removals, NEW a \in Uploads, BeginRemoval(d, a)
                 PROVE Types'
  BY <1>BeginRemoval DEF BeginRemoval, BeginDrop
<1>BeginSend. ASSUME NEW s \in Sends, NEW t \in Threads, NEW S \in SUBSET Uploads,
                     BeginSend(s, t, S)
              PROVE Types'
  BY <1>BeginSend DEF BeginSend
<1>DropFile. ASSUME NEW p \in Deleters, DropFile(p) PROVE Types'
  BY <1>DropFile DEF DropFile
<1>DropText. ASSUME NEW p \in Deleters, DropText(p) PROVE Types'
  BY <1>DropText DEF DropText
<1>Mark. ASSUME NEW p \in Deleters, Mark(p) PROVE Types'
  <2>1. /\ pc[p] = "marking" /\ lock' = None /\ p \in Requests
        /\ \E l \in {"expiring", "done", "failed"} : pc' = [pc EXCEPT ![p] = l]
        /\ UNCHANGED <<target, raced>>
    BY <1>Mark DEF Mark, Leave, Dropping
  <2>2. /\ status' = [status EXCEPT ![target[p]] = "deleted"]
        /\ todo' = [todo EXCEPT ![p] = {}] \/ todo' = [todo EXCEPT ![p] = @ \ {target[p]}]
        /\ UNCHANGED <<thread, sent, held, objects, ids, chat, old, torn>>
    BY <1>Mark DEF Mark
  <2>3. pc' \in [Requests -> Pcs]
    BY <2>1
  <2>4. todo' \in [Requests -> SUBSET Uploads]
    BY <2>1, <2>2
  <2>5. status' \in [Uploads -> {"absent", "staged", "bound", "deleted"}]
    BY <2>2
  <2> QED  BY <2>1, <2>2, <2>3, <2>4, <2>5
<1>DropFails. ASSUME NEW p \in Deleters, DropFails(p) PROVE Types'
  <2>1. target[p] \in Uploads
    BY <1>DropFails DEF DropFails, Locking, Locks, Dropping
  <2> QED  BY <1>DropFails, <2>1 DEF DropFails, Leave
<1>Expire. ASSUME NEW u \in Uploads, NEW a \in Uploads, Expire(u, a) PROVE Types'
  BY <1>Expire DEF Expire, BeginDrop
<1>SkipExpiry. ASSUME NEW u \in Uploads, NEW a \in Uploads, SkipExpiry(u, a)
               PROVE Types'
  BY <1>SkipExpiry DEF SkipExpiry
<1>UploadRefused. ASSUME NEW u \in Uploads, UploadRefused(u) PROVE Types'
  BY <1>UploadRefused DEF UploadRefused
<1>PutFile. ASSUME NEW u \in Uploads, PutFile(u) PROVE Types'
  BY <1>PutFile DEF PutFile
<1>InsertRow. ASSUME NEW u \in Uploads, InsertRow(u) PROVE Types'
  BY <1>InsertRow DEF InsertRow, ApplyInsert
<1>InsertFails. ASSUME NEW u \in Uploads, InsertFails(u) PROVE Types'
  BY <1>InsertFails DEF InsertFails
<1>InsertAmbiguous. ASSUME NEW u \in Uploads, InsertAmbiguous(u) PROVE Types'
  BY <1>InsertAmbiguous DEF InsertAmbiguous, ApplyInsert
<1>Sweep. ASSUME NEW u \in Uploads, Sweep(u) PROVE Types'
  BY <1>Sweep DEF Sweep
<1>BindRow. ASSUME NEW s \in Sends, NEW a \in Uploads, BindRow(s, a) PROVE Types'
  BY <1>BindRow DEF BindRow
<1>SendFails. ASSUME NEW s \in Sends, SendFails(s) PROVE Types'
  BY <1>SendFails DEF SendFails
<1>CommitSend. ASSUME NEW s \in Sends, CommitSend(s) PROVE Types'
  BY <1>CommitSend DEF CommitSend, ApplySend
<1>Age. ASSUME NEW a \in Uploads, Age(a) PROVE Types'
  BY <1>Age DEF Age
<1>Restart. ASSUME Restart PROVE Types'
  BY <1>Restart DEF Restart, Locking, Locks
<1>BeginRead. ASSUME NEW r \in Readers, NEW a \in Uploads, BeginRead(r, a)
              PROVE Types'
  BY <1>BeginRead DEF BeginRead
<1>ReadCached. ASSUME NEW r \in Readers, ReadCached(r) PROVE Types'
  BY <1>ReadCached DEF ReadCached
<1>ReadOriginal. ASSUME NEW r \in Readers, ReadOriginal(r) PROVE Types'
  BY <1>ReadOriginal DEF ReadOriginal
<1>SaveExtraction. ASSUME NEW r \in Readers, SaveExtraction(r) PROVE Types'
  BY <1>SaveExtraction DEF SaveExtraction
<1>PutText. ASSUME NEW r \in Readers, PutText(r) PROVE Types'
  BY <1>PutText DEF PutText, Callers, Reading
<1>Recheck. ASSUME NEW r \in Readers, Recheck(r) PROVE Types'
  BY <1>Recheck DEF Recheck
<1>UndoText. ASSUME NEW r \in Readers, UndoText(r) PROVE Types'
  BY <1>UndoText DEF UndoText
<1>Deliver. ASSUME NEW r \in Readers, Deliver(r) PROVE Types'
  BY <1>Deliver DEF Deliver
<1>ReadFails. ASSUME NEW r \in Readers, ReadFails(r) PROVE Types'
  BY <1>ReadFails DEF ReadFails
<1>S. CASE UNCHANGED vars
  BY <1>S
<1> QED
  BY <1>BeginUpload, <1>BeginRemoval, <1>BeginSend, <1>DropFile, <1>DropText,
     <1>Mark, <1>DropFails, <1>Expire, <1>SkipExpiry, <1>UploadRefused,
     <1>PutFile, <1>InsertRow, <1>InsertFails, <1>InsertAmbiguous, <1>Sweep,
     <1>BindRow, <1>SendFails, <1>CommitSend, <1>Age, <1>Restart,
     <1>BeginRead, <1>ReadCached, <1>ReadOriginal, <1>SaveExtraction,
     <1>PutText, <1>Recheck, <1>UndoText, <1>Deliver, <1>ReadFails, <1>S DEF
     Next, Begin, Delete, Upload, Send, Read

\* Requests keep to their steps.
LEMMA CallersStep ==
    ASSUME Types, Callers, [Next]_vars
    PROVE  Callers'
<1> USE DEF Callers, Dropping, Reading, Types, AtRest, Deleters, Requests, Go,
        Todo, Fault, Unlocked, vars, rows, request, bounds, history
<1>BeginUpload. ASSUME NEW u \in Uploads, NEW t \in Threads \cup {None},
                       BeginUpload(u, t)
                PROVE Callers'
  BY <1>BeginUpload, RequestsAssumption DEF BeginUpload
<1>BeginRemoval. ASSUME NEW d \in Removals, NEW a \in Uploads, BeginRemoval(d, a)
                 PROVE Callers'
  BY <1>BeginRemoval, RequestsAssumption DEF BeginRemoval, BeginDrop
<1>BeginSend. ASSUME NEW s \in Sends, NEW t \in Threads, NEW S \in SUBSET Uploads,
                     BeginSend(s, t, S)
              PROVE Callers'
  BY <1>BeginSend, RequestsAssumption DEF BeginSend
<1>DropFile. ASSUME NEW p \in Deleters, DropFile(p) PROVE Callers'
  BY <1>DropFile, RequestsAssumption DEF DropFile
<1>DropText. ASSUME NEW p \in Deleters, DropText(p) PROVE Callers'
  BY <1>DropText, RequestsAssumption DEF DropText
<1>Mark. ASSUME NEW p \in Deleters, Mark(p) PROVE Callers'
  BY <1>Mark, RequestsAssumption DEF Mark, Leave
<1>DropFails. ASSUME NEW p \in Deleters, DropFails(p) PROVE Callers'
  BY <1>DropFails, RequestsAssumption DEF DropFails, Leave
<1>Expire. ASSUME NEW u \in Uploads, NEW a \in Uploads, Expire(u, a)
           PROVE Callers'
  BY <1>Expire, RequestsAssumption DEF Expire, BeginDrop
<1>SkipExpiry. ASSUME NEW u \in Uploads, NEW a \in Uploads, SkipExpiry(u, a)
               PROVE Callers'
  BY <1>SkipExpiry, RequestsAssumption DEF SkipExpiry
<1>UploadRefused. ASSUME NEW u \in Uploads, UploadRefused(u) PROVE Callers'
  BY <1>UploadRefused, RequestsAssumption DEF UploadRefused
<1>PutFile. ASSUME NEW u \in Uploads, PutFile(u) PROVE Callers'
  BY <1>PutFile, RequestsAssumption DEF PutFile
<1>InsertRow. ASSUME NEW u \in Uploads, InsertRow(u) PROVE Callers'
  BY <1>InsertRow, RequestsAssumption DEF InsertRow, ApplyInsert
<1>InsertFails. ASSUME NEW u \in Uploads, InsertFails(u) PROVE Callers'
  BY <1>InsertFails, RequestsAssumption DEF InsertFails
<1>InsertAmbiguous. ASSUME NEW u \in Uploads, InsertAmbiguous(u) PROVE Callers'
  BY <1>InsertAmbiguous, RequestsAssumption DEF InsertAmbiguous, ApplyInsert
<1>Sweep. ASSUME NEW u \in Uploads, Sweep(u) PROVE Callers'
  BY <1>Sweep, RequestsAssumption DEF Sweep
<1>BindRow. ASSUME NEW s \in Sends, NEW a \in Uploads, BindRow(s, a)
            PROVE Callers'
  BY <1>BindRow, RequestsAssumption DEF BindRow
<1>SendFails. ASSUME NEW s \in Sends, SendFails(s) PROVE Callers'
  BY <1>SendFails, RequestsAssumption DEF SendFails
<1>CommitSend. ASSUME NEW s \in Sends, CommitSend(s) PROVE Callers'
  BY <1>CommitSend, RequestsAssumption DEF CommitSend, ApplySend
<1>Age. ASSUME NEW a \in Uploads, Age(a) PROVE Callers'
  BY <1>Age, RequestsAssumption DEF Age
<1>Restart. ASSUME Restart PROVE Callers'
  BY <1>Restart, RequestsAssumption DEF Restart
<1>BeginRead. ASSUME NEW r \in Readers, NEW a \in Uploads, BeginRead(r, a)
              PROVE Callers'
  BY <1>BeginRead, RequestsAssumption DEF BeginRead
<1>ReadCached. ASSUME NEW r \in Readers, ReadCached(r) PROVE Callers'
  BY <1>ReadCached, RequestsAssumption DEF ReadCached
<1>ReadOriginal. ASSUME NEW r \in Readers, ReadOriginal(r) PROVE Callers'
  BY <1>ReadOriginal, RequestsAssumption DEF ReadOriginal
<1>SaveExtraction. ASSUME NEW r \in Readers, SaveExtraction(r) PROVE Callers'
  BY <1>SaveExtraction, RequestsAssumption DEF SaveExtraction
<1>PutText. ASSUME NEW r \in Readers, PutText(r) PROVE Callers'
  BY <1>PutText, RequestsAssumption DEF PutText
<1>Recheck. ASSUME NEW r \in Readers, Recheck(r) PROVE Callers'
  BY <1>Recheck, RequestsAssumption DEF Recheck
<1>UndoText. ASSUME NEW r \in Readers, UndoText(r) PROVE Callers'
  BY <1>UndoText, RequestsAssumption DEF UndoText
<1>Deliver. ASSUME NEW r \in Readers, Deliver(r) PROVE Callers'
  BY <1>Deliver, RequestsAssumption DEF Deliver
<1>ReadFails. ASSUME NEW r \in Readers, ReadFails(r) PROVE Callers'
  BY <1>ReadFails, RequestsAssumption DEF ReadFails
<1>S. CASE UNCHANGED vars
  BY <1>S, RequestsAssumption
<1> QED
  BY <1>BeginUpload, <1>BeginRemoval, <1>BeginSend, <1>DropFile, <1>DropText,
     <1>Mark, <1>DropFails, <1>Expire, <1>SkipExpiry, <1>UploadRefused,
     <1>PutFile, <1>InsertRow, <1>InsertFails, <1>InsertAmbiguous, <1>Sweep,
     <1>BindRow, <1>SendFails, <1>CommitSend, <1>Age, <1>Restart,
     <1>BeginRead, <1>ReadCached, <1>ReadOriginal, <1>SaveExtraction,
     <1>PutText, <1>Recheck, <1>UndoText, <1>Deliver, <1>ReadFails, <1>S DEF
     Next, Begin, Delete, Upload, Send, Read

\* Who deletes has the lock, and its target stays live until it commits.
LEMMA LockingStep ==
    ASSUME IInv, NEW q \in Deleters, [Next]_vars
    PROVE  Locks(q)'
<1> USE DEF Locks, Dropping, Types, AtRest, Deleters, Requests, Go, Todo,
        Fault, Unlocked, vars, rows, request, bounds, history
<1>0. Locks(q) /\ Locking /\ Claimed /\ Callers /\ Types /\ Inserts
  BY DEF IInv, Locking
<1>BeginUpload. ASSUME NEW u \in Uploads, NEW t \in Threads \cup {None},
                       BeginUpload(u, t)
                PROVE Locks(q)'
  BY <1>BeginUpload, <1>0, RequestsAssumption, NoneAssumption DEF BeginUpload
<1>BeginRemoval. ASSUME NEW d \in Removals, NEW a \in Uploads, BeginRemoval(d, a)
                 PROVE Locks(q)'
  BY <1>BeginRemoval, <1>0, RequestsAssumption, NoneAssumption DEF BeginRemoval,
     BeginDrop
<1>BeginSend. ASSUME NEW s \in Sends, NEW t \in Threads, NEW S \in SUBSET Uploads,
                     BeginSend(s, t, S)
              PROVE Locks(q)'
  BY <1>BeginSend, <1>0, RequestsAssumption, NoneAssumption DEF BeginSend
<1>DropFile. ASSUME NEW p \in Deleters, DropFile(p) PROVE Locks(q)'
  BY <1>DropFile, <1>0, RequestsAssumption, NoneAssumption DEF DropFile
<1>DropText. ASSUME NEW p \in Deleters, DropText(p) PROVE Locks(q)'
  BY <1>DropText, <1>0, RequestsAssumption, NoneAssumption DEF DropText
<1>Mark. ASSUME NEW p \in Deleters, Mark(p) PROVE Locks(q)'
  <2>1. /\ pc[p] \in Dropping /\ lock' = None /\ p \in Requests
        /\ \E l \in {"expiring", "done", "failed"} : pc' = [pc EXCEPT ![p] = l]
        /\ UNCHANGED <<target, raced>>
    BY <1>Mark DEF Mark, Leave, Dropping
  <2>2. lock = p /\ \A r \in Deleters : pc[r] \in Dropping => r = p
    BY <2>1, <1>0 DEF Locking
  <2>3. \A r \in Deleters \ {p} : pc'[r] = pc[r]
    BY <1>0, <2>1
  <2>4. pc'[q] \notin Dropping
    BY <1>0, <2>1, <2>2, <2>3
  <2> QED  BY <2>1, <2>4, NoneAssumption
<1>DropFails. ASSUME NEW p \in Deleters, DropFails(p) PROVE Locks(q)'
  <2>1. /\ pc[p] \in Dropping /\ lock' = None /\ p \in Requests
        /\ \E l \in {"expiring", "done", "failed"} : pc' = [pc EXCEPT ![p] = l]
        /\ UNCHANGED <<target, raced>>
    BY <1>DropFails DEF DropFails, Leave, Dropping
  <2>2. lock = p /\ \A r \in Deleters : pc[r] \in Dropping => r = p
    BY <2>1, <1>0 DEF Locking
  <2>3. \A r \in Deleters \ {p} : pc'[r] = pc[r]
    BY <1>0, <2>1
  <2>4. pc'[q] \notin Dropping
    BY <1>0, <2>1, <2>2, <2>3
  <2> QED  BY <2>1, <2>4, NoneAssumption
<1>Expire. ASSUME NEW u \in Uploads, NEW a \in Uploads, Expire(u, a)
           PROVE Locks(q)'
  BY <1>Expire, <1>0, RequestsAssumption, NoneAssumption DEF Expire, BeginDrop
<1>SkipExpiry. ASSUME NEW u \in Uploads, NEW a \in Uploads, SkipExpiry(u, a)
               PROVE Locks(q)'
  BY <1>SkipExpiry, <1>0, RequestsAssumption, NoneAssumption DEF SkipExpiry
<1>UploadRefused. ASSUME NEW u \in Uploads, UploadRefused(u) PROVE Locks(q)'
  BY <1>UploadRefused, <1>0, RequestsAssumption, NoneAssumption DEF UploadRefused
<1>PutFile. ASSUME NEW u \in Uploads, PutFile(u) PROVE Locks(q)'
  BY <1>PutFile, <1>0, RequestsAssumption, NoneAssumption DEF PutFile
<1>InsertRow. ASSUME NEW u \in Uploads, InsertRow(u) PROVE Locks(q)'
  BY <1>InsertRow, <1>0, RequestsAssumption, NoneAssumption DEF InsertRow,
     ApplyInsert
<1>InsertFails. ASSUME NEW u \in Uploads, InsertFails(u) PROVE Locks(q)'
  BY <1>InsertFails, <1>0, RequestsAssumption, NoneAssumption DEF InsertFails
<1>InsertAmbiguous. ASSUME NEW u \in Uploads, InsertAmbiguous(u) PROVE Locks(q)'
  BY <1>InsertAmbiguous, <1>0, RequestsAssumption, NoneAssumption DEF
     InsertAmbiguous, ApplyInsert
<1>Sweep. ASSUME NEW u \in Uploads, Sweep(u) PROVE Locks(q)'
  BY <1>Sweep, <1>0, RequestsAssumption, NoneAssumption DEF Sweep
<1>BindRow. ASSUME NEW s \in Sends, NEW a \in Uploads, BindRow(s, a)
            PROVE Locks(q)'
  BY <1>BindRow, <1>0, RequestsAssumption, NoneAssumption DEF BindRow
<1>SendFails. ASSUME NEW s \in Sends, SendFails(s) PROVE Locks(q)'
  BY <1>SendFails, <1>0, RequestsAssumption, NoneAssumption DEF SendFails
<1>CommitSend. ASSUME NEW s \in Sends, CommitSend(s) PROVE Locks(q)'
  BY <1>CommitSend, <1>0, RequestsAssumption, NoneAssumption DEF CommitSend,
     ApplySend
<1>Age. ASSUME NEW a \in Uploads, Age(a) PROVE Locks(q)'
  BY <1>Age, <1>0, RequestsAssumption, NoneAssumption DEF Age
<1>Restart. ASSUME Restart PROVE Locks(q)'
  BY <1>Restart, <1>0, RequestsAssumption, NoneAssumption DEF Restart
<1>R. CASE Reads
  BY <1>R, <1>0, RequestsAssumption, NoneAssumption DEF Reads
<1> QED
  BY <1>BeginUpload, <1>BeginRemoval, <1>BeginSend, <1>DropFile, <1>DropText,
     <1>Mark, <1>DropFails, <1>Expire, <1>SkipExpiry, <1>UploadRefused,
     <1>PutFile, <1>InsertRow, <1>InsertFails, <1>InsertAmbiguous, <1>Sweep,
     <1>BindRow, <1>SendFails, <1>CommitSend, <1>Age, <1>Restart, <1>R,
     NextSteps, <1>0 DEF Next, Begin, Delete, Upload, Send

\* What a message holds stays staged.
LEMMA ClaimedStep ==
    ASSUME IInv, [Next]_vars
    PROVE  Claimed'
<1> USE DEF Claimed, Types, AtRest, Dropping, Deleters, Requests, Go, Todo,
        Fault, Unlocked, vars, rows, request, bounds, history
<1>0. Locking /\ Claimed /\ Callers /\ Types /\ Inserts
  BY DEF IInv
<1>BeginUpload. ASSUME NEW u \in Uploads, NEW t \in Threads \cup {None},
                       BeginUpload(u, t)
                PROVE Claimed'
  BY <1>BeginUpload, <1>0, RequestsAssumption, NoneAssumption DEF BeginUpload
<1>BeginRemoval. ASSUME NEW d \in Removals, NEW a \in Uploads, BeginRemoval(d, a)
                 PROVE Claimed'
  BY <1>BeginRemoval, <1>0, RequestsAssumption, NoneAssumption DEF BeginRemoval,
     BeginDrop
<1>BeginSend. ASSUME NEW s \in Sends, NEW t \in Threads, NEW S \in SUBSET Uploads,
                     BeginSend(s, t, S)
              PROVE Claimed'
  BY <1>BeginSend, <1>0, RequestsAssumption, NoneAssumption DEF BeginSend
<1>DropFile. ASSUME NEW p \in Deleters, DropFile(p) PROVE Claimed'
  BY <1>DropFile, <1>0, RequestsAssumption, NoneAssumption DEF DropFile
<1>DropText. ASSUME NEW p \in Deleters, DropText(p) PROVE Claimed'
  BY <1>DropText, <1>0, RequestsAssumption, NoneAssumption DEF DropText
<1>Mark. ASSUME NEW p \in Deleters, Mark(p) PROVE Claimed'
  BY <1>Mark, <1>0, RequestsAssumption, NoneAssumption DEF Mark, Leave
<1>DropFails. ASSUME NEW p \in Deleters, DropFails(p) PROVE Claimed'
  BY <1>DropFails, <1>0, RequestsAssumption, NoneAssumption DEF DropFails, Leave
<1>Expire. ASSUME NEW u \in Uploads, NEW a \in Uploads, Expire(u, a)
           PROVE Claimed'
  BY <1>Expire, <1>0, RequestsAssumption, NoneAssumption DEF Expire, BeginDrop
<1>SkipExpiry. ASSUME NEW u \in Uploads, NEW a \in Uploads, SkipExpiry(u, a)
               PROVE Claimed'
  BY <1>SkipExpiry, <1>0, RequestsAssumption, NoneAssumption DEF SkipExpiry
<1>UploadRefused. ASSUME NEW u \in Uploads, UploadRefused(u) PROVE Claimed'
  BY <1>UploadRefused, <1>0, RequestsAssumption, NoneAssumption DEF UploadRefused
<1>PutFile. ASSUME NEW u \in Uploads, PutFile(u) PROVE Claimed'
  BY <1>PutFile, <1>0, RequestsAssumption, NoneAssumption DEF PutFile
<1>InsertRow. ASSUME NEW u \in Uploads, InsertRow(u) PROVE Claimed'
  BY <1>InsertRow, <1>0, RequestsAssumption, NoneAssumption DEF InsertRow,
     ApplyInsert, Inserts, Fresh
<1>InsertFails. ASSUME NEW u \in Uploads, InsertFails(u) PROVE Claimed'
  BY <1>InsertFails, <1>0, RequestsAssumption, NoneAssumption DEF InsertFails
<1>InsertAmbiguous. ASSUME NEW u \in Uploads, InsertAmbiguous(u) PROVE Claimed'
  BY <1>InsertAmbiguous, <1>0, RequestsAssumption, NoneAssumption DEF
     InsertAmbiguous, ApplyInsert, Inserts, Fresh
<1>Sweep. ASSUME NEW u \in Uploads, Sweep(u) PROVE Claimed'
  BY <1>Sweep, <1>0, RequestsAssumption, NoneAssumption DEF Sweep
<1>BindRow. ASSUME NEW s \in Sends, NEW a \in Uploads, BindRow(s, a)
            PROVE Claimed'
  BY <1>BindRow, <1>0, RequestsAssumption, NoneAssumption DEF BindRow
<1>SendFails. ASSUME NEW s \in Sends, SendFails(s) PROVE Claimed'
  BY <1>SendFails, <1>0, RequestsAssumption, NoneAssumption DEF SendFails
<1>CommitSend. ASSUME NEW s \in Sends, CommitSend(s) PROVE Claimed'
  BY <1>CommitSend, <1>0, RequestsAssumption, NoneAssumption DEF CommitSend,
     ApplySend
<1>Age. ASSUME NEW a \in Uploads, Age(a) PROVE Claimed'
  BY <1>Age, <1>0, RequestsAssumption, NoneAssumption DEF Age
<1>Restart. ASSUME Restart PROVE Claimed'
  BY <1>Restart, <1>0, RequestsAssumption, NoneAssumption DEF Restart
<1>R. CASE Reads
  BY <1>R, <1>0, RequestsAssumption, NoneAssumption DEF Reads
<1> QED
  BY <1>BeginUpload, <1>BeginRemoval, <1>BeginSend, <1>DropFile, <1>DropText,
     <1>Mark, <1>DropFails, <1>Expire, <1>SkipExpiry, <1>UploadRefused,
     <1>PutFile, <1>InsertRow, <1>InsertFails, <1>InsertAmbiguous, <1>Sweep,
     <1>BindRow, <1>SendFails, <1>CommitSend, <1>Age, <1>Restart, <1>R,
     NextSteps, <1>0 DEF Next, Begin, Delete, Upload, Send

\* A row that is not inserted has its bytes and no other request touches them.
LEMMA InsertsStep ==
    ASSUME IInv, NEW v \in Uploads, [Next]_vars
    PROVE  Fresh(v)'
<1> USE DEF Fresh, File, Text, Types, AtRest, Dropping, Deleters, Requests,
        Go, Todo, Fault, Unlocked, vars, rows, request, bounds, history
<1>0. Fresh(v) /\ Locking /\ Claimed /\ Callers /\ Types /\ Inserts
  BY DEF IInv, Inserts
<1>BeginUpload. ASSUME NEW u \in Uploads, NEW t \in Threads \cup {None},
                       BeginUpload(u, t)
                PROVE Fresh(v)'
  BY <1>BeginUpload, <1>0, RequestsAssumption, NoneAssumption DEF BeginUpload
<1>BeginRemoval. ASSUME NEW d \in Removals, NEW a \in Uploads, BeginRemoval(d, a)
                 PROVE Fresh(v)'
  BY <1>BeginRemoval, <1>0, RequestsAssumption, NoneAssumption DEF BeginRemoval,
     BeginDrop
<1>BeginSend. ASSUME NEW s \in Sends, NEW t \in Threads, NEW S \in SUBSET Uploads,
                     BeginSend(s, t, S)
              PROVE Fresh(v)'
  BY <1>BeginSend, <1>0, RequestsAssumption, NoneAssumption DEF BeginSend
<1>DropFile. ASSUME NEW p \in Deleters, DropFile(p) PROVE Fresh(v)'
  BY <1>DropFile, <1>0, RequestsAssumption, NoneAssumption DEF DropFile,
     Locking, Locks
<1>DropText. ASSUME NEW p \in Deleters, DropText(p) PROVE Fresh(v)'
  BY <1>DropText, <1>0, RequestsAssumption, NoneAssumption DEF DropText,
     Locking, Locks
<1>Mark. ASSUME NEW p \in Deleters, Mark(p) PROVE Fresh(v)'
  BY <1>Mark, <1>0, RequestsAssumption, NoneAssumption DEF Mark, Leave, Locking,
     Locks
<1>DropFails. ASSUME NEW p \in Deleters, DropFails(p) PROVE Fresh(v)'
  BY <1>DropFails, <1>0, RequestsAssumption, NoneAssumption DEF DropFails,
     Leave, Locking, Locks
<1>Expire. ASSUME NEW u \in Uploads, NEW a \in Uploads, Expire(u, a)
           PROVE Fresh(v)'
  BY <1>Expire, <1>0, RequestsAssumption, NoneAssumption DEF Expire, BeginDrop
<1>SkipExpiry. ASSUME NEW u \in Uploads, NEW a \in Uploads, SkipExpiry(u, a)
               PROVE Fresh(v)'
  BY <1>SkipExpiry, <1>0, RequestsAssumption, NoneAssumption DEF SkipExpiry
<1>UploadRefused. ASSUME NEW u \in Uploads, UploadRefused(u) PROVE Fresh(v)'
  BY <1>UploadRefused, <1>0, RequestsAssumption, NoneAssumption DEF UploadRefused
<1>PutFile. ASSUME NEW u \in Uploads, PutFile(u) PROVE Fresh(v)'
  BY <1>PutFile, <1>0, RequestsAssumption, NoneAssumption DEF PutFile
<1>InsertRow. ASSUME NEW u \in Uploads, InsertRow(u) PROVE Fresh(v)'
  BY <1>InsertRow, <1>0, RequestsAssumption, NoneAssumption DEF InsertRow,
     ApplyInsert
<1>InsertFails. ASSUME NEW u \in Uploads, InsertFails(u) PROVE Fresh(v)'
  BY <1>InsertFails, <1>0, RequestsAssumption, NoneAssumption DEF InsertFails
<1>InsertAmbiguous. ASSUME NEW u \in Uploads, InsertAmbiguous(u) PROVE Fresh(v)'
  BY <1>InsertAmbiguous, <1>0, RequestsAssumption, NoneAssumption DEF
     InsertAmbiguous, ApplyInsert
<1>Sweep. ASSUME NEW u \in Uploads, Sweep(u) PROVE Fresh(v)'
  BY <1>Sweep, <1>0, RequestsAssumption, NoneAssumption DEF Sweep
<1>BindRow. ASSUME NEW s \in Sends, NEW a \in Uploads, BindRow(s, a)
            PROVE Fresh(v)'
  BY <1>BindRow, <1>0, RequestsAssumption, NoneAssumption DEF BindRow, Claimed
<1>SendFails. ASSUME NEW s \in Sends, SendFails(s) PROVE Fresh(v)'
  BY <1>SendFails, <1>0, RequestsAssumption, NoneAssumption DEF SendFails
<1>CommitSend. ASSUME NEW s \in Sends, CommitSend(s) PROVE Fresh(v)'
  BY <1>CommitSend, <1>0, RequestsAssumption, NoneAssumption DEF CommitSend,
     ApplySend, Claimed
<1>Age. ASSUME NEW a \in Uploads, Age(a) PROVE Fresh(v)'
  BY <1>Age, <1>0, RequestsAssumption, NoneAssumption DEF Age
<1>Restart. ASSUME Restart PROVE Fresh(v)'
  BY <1>Restart, <1>0, RequestsAssumption, NoneAssumption DEF Restart
<1>R. CASE Reads
  BY <1>R, <1>0, RequestsAssumption, NoneAssumption DEF Reads
<1> QED
  BY <1>BeginUpload, <1>BeginRemoval, <1>BeginSend, <1>DropFile, <1>DropText,
     <1>Mark, <1>DropFails, <1>Expire, <1>SkipExpiry, <1>UploadRefused,
     <1>PutFile, <1>InsertRow, <1>InsertFails, <1>InsertAmbiguous, <1>Sweep,
     <1>BindRow, <1>SendFails, <1>CommitSend, <1>Age, <1>Restart, <1>R,
     NextSteps, <1>0 DEF Next, Begin, Delete, Upload, Send

\* The part of LiveHaveBytes about one attachment.
Kept(a) ==
    status[a] \in {"staged", "bound"} /\ a \notin torn =>
        File(a) \in objects \/ (lock # None /\ target[lock] = a)

\* A live attachment keeps its bytes.
LEMMA BytesStep ==
    ASSUME IInv, NEW b \in Uploads, [Next]_vars
    PROVE  Kept(b)'
<1> USE DEF Kept, File, Text, Types, AtRest, Dropping, Deleters, Requests, Go,
        Todo, Fault, Unlocked, vars, rows, request, bounds, history
<1>0. Kept(b) /\ Locking /\ Claimed /\ Callers /\ Types /\ Inserts
  BY DEF IInv, LiveHaveBytes, Live, Kept
<1>BeginUpload. ASSUME NEW u \in Uploads, NEW t \in Threads \cup {None},
                       BeginUpload(u, t)
                PROVE Kept(b)'
  BY <1>BeginUpload, <1>0, RequestsAssumption, NoneAssumption DEF BeginUpload
<1>BeginRemoval. ASSUME NEW d \in Removals, NEW a \in Uploads, BeginRemoval(d, a)
                 PROVE Kept(b)'
  BY <1>BeginRemoval, <1>0, RequestsAssumption, NoneAssumption DEF BeginRemoval,
     BeginDrop
<1>BeginSend. ASSUME NEW s \in Sends, NEW t \in Threads, NEW S \in SUBSET Uploads,
                     BeginSend(s, t, S)
              PROVE Kept(b)'
  BY <1>BeginSend, <1>0, RequestsAssumption, NoneAssumption DEF BeginSend
<1>DropFile. ASSUME NEW p \in Deleters, DropFile(p) PROVE Kept(b)'
  BY <1>DropFile, <1>0, RequestsAssumption, NoneAssumption DEF DropFile,
     Locking, Locks
<1>DropText. ASSUME NEW p \in Deleters, DropText(p) PROVE Kept(b)'
  BY <1>DropText, <1>0, RequestsAssumption, NoneAssumption DEF DropText,
     Locking, Locks
<1>Mark. ASSUME NEW p \in Deleters, Mark(p) PROVE Kept(b)'
  BY <1>Mark, <1>0, RequestsAssumption, NoneAssumption DEF Mark, Leave, Locking,
     Locks
<1>DropFails. ASSUME NEW p \in Deleters, DropFails(p) PROVE Kept(b)'
  BY <1>DropFails, <1>0, RequestsAssumption, NoneAssumption DEF DropFails,
     Leave, Locking, Locks
<1>Expire. ASSUME NEW u \in Uploads, NEW a \in Uploads, Expire(u, a)
           PROVE Kept(b)'
  BY <1>Expire, <1>0, RequestsAssumption, NoneAssumption DEF Expire, BeginDrop
<1>SkipExpiry. ASSUME NEW u \in Uploads, NEW a \in Uploads, SkipExpiry(u, a)
               PROVE Kept(b)'
  BY <1>SkipExpiry, <1>0, RequestsAssumption, NoneAssumption DEF SkipExpiry
<1>UploadRefused. ASSUME NEW u \in Uploads, UploadRefused(u) PROVE Kept(b)'
  BY <1>UploadRefused, <1>0, RequestsAssumption, NoneAssumption DEF UploadRefused
<1>PutFile. ASSUME NEW u \in Uploads, PutFile(u) PROVE Kept(b)'
  BY <1>PutFile, <1>0, RequestsAssumption, NoneAssumption DEF PutFile
<1>InsertRow. ASSUME NEW u \in Uploads, InsertRow(u) PROVE Kept(b)'
  BY <1>InsertRow, <1>0, RequestsAssumption, NoneAssumption DEF InsertRow,
     ApplyInsert, Inserts, Fresh
<1>InsertFails. ASSUME NEW u \in Uploads, InsertFails(u) PROVE Kept(b)'
  BY <1>InsertFails, <1>0, RequestsAssumption, NoneAssumption DEF InsertFails
<1>InsertAmbiguous. ASSUME NEW u \in Uploads, InsertAmbiguous(u) PROVE Kept(b)'
  BY <1>InsertAmbiguous, <1>0, RequestsAssumption, NoneAssumption DEF
     InsertAmbiguous, ApplyInsert, Inserts, Fresh
<1>Sweep. ASSUME NEW u \in Uploads, Sweep(u) PROVE Kept(b)'
  BY <1>Sweep, <1>0, RequestsAssumption, NoneAssumption DEF Sweep, Inserts, Fresh
<1>BindRow. ASSUME NEW s \in Sends, NEW a \in Uploads, BindRow(s, a)
            PROVE Kept(b)'
  BY <1>BindRow, <1>0, RequestsAssumption, NoneAssumption DEF BindRow
<1>SendFails. ASSUME NEW s \in Sends, SendFails(s) PROVE Kept(b)'
  BY <1>SendFails, <1>0, RequestsAssumption, NoneAssumption DEF SendFails
<1>CommitSend. ASSUME NEW s \in Sends, CommitSend(s) PROVE Kept(b)'
  <2>1. status'[b] \in {"staged", "bound"} => status[b] \in {"staged", "bound"}
    BY <1>CommitSend, <1>0 DEF CommitSend, ApplySend, Claimed
  <2>2. UNCHANGED <<torn, objects, lock, target>>
    BY <1>CommitSend DEF CommitSend, ApplySend
  <2> QED  BY <2>1, <2>2, <1>0
<1>Age. ASSUME NEW a \in Uploads, Age(a) PROVE Kept(b)'
  BY <1>Age, <1>0, RequestsAssumption, NoneAssumption DEF Age
<1>Restart. ASSUME Restart PROVE Kept(b)'
  BY <1>Restart, <1>0, RequestsAssumption, NoneAssumption DEF Restart, Locking,
     Locks
<1>R. CASE Reads
  BY <1>R, <1>0, RequestsAssumption, NoneAssumption DEF Reads
<1> QED
  BY <1>BeginUpload, <1>BeginRemoval, <1>BeginSend, <1>DropFile, <1>DropText,
     <1>Mark, <1>DropFails, <1>Expire, <1>SkipExpiry, <1>UploadRefused,
     <1>PutFile, <1>InsertRow, <1>InsertFails, <1>InsertAmbiguous, <1>Sweep,
     <1>BindRow, <1>SendFails, <1>CommitSend, <1>Age, <1>Restart, <1>R,
     NextSteps, <1>0 DEF Next, Begin, Delete, Upload, Send

\* What is deleted stays deleted.
LEMMA DeletionStep ==
    ASSUME IInv, NEW b \in Uploads, status[b] = "deleted", [Next]_vars
    PROVE  status'[b] = "deleted"
<1> USE DEF Types, AtRest, Dropping, Deleters, Requests, Go, Todo, Fault,
        Unlocked, vars, rows, request, bounds, history
<1>0. Locking /\ Claimed /\ Callers /\ Types /\ Inserts
  BY DEF IInv
<1>BeginUpload. ASSUME NEW u \in Uploads, NEW t \in Threads \cup {None},
                       BeginUpload(u, t)
                PROVE status'[b] = "deleted"
  BY <1>BeginUpload, <1>0, RequestsAssumption, NoneAssumption DEF BeginUpload
<1>BeginRemoval. ASSUME NEW d \in Removals, NEW a \in Uploads, BeginRemoval(d, a)
                 PROVE status'[b] = "deleted"
  BY <1>BeginRemoval, <1>0, RequestsAssumption, NoneAssumption DEF BeginRemoval,
     BeginDrop
<1>BeginSend. ASSUME NEW s \in Sends, NEW t \in Threads, NEW S \in SUBSET Uploads,
                     BeginSend(s, t, S)
              PROVE status'[b] = "deleted"
  BY <1>BeginSend, <1>0, RequestsAssumption, NoneAssumption DEF BeginSend
<1>DropFile. ASSUME NEW p \in Deleters, DropFile(p) PROVE status'[b] = "deleted"
  BY <1>DropFile, <1>0, RequestsAssumption, NoneAssumption DEF DropFile
<1>DropText. ASSUME NEW p \in Deleters, DropText(p) PROVE status'[b] = "deleted"
  BY <1>DropText, <1>0, RequestsAssumption, NoneAssumption DEF DropText
<1>Mark. ASSUME NEW p \in Deleters, Mark(p) PROVE status'[b] = "deleted"
  BY <1>Mark, <1>0, RequestsAssumption, NoneAssumption DEF Mark, Leave
<1>DropFails. ASSUME NEW p \in Deleters, DropFails(p) PROVE status'[b] = "deleted"
  BY <1>DropFails, <1>0, RequestsAssumption, NoneAssumption DEF DropFails, Leave
<1>Expire. ASSUME NEW u \in Uploads, NEW a \in Uploads, Expire(u, a)
           PROVE status'[b] = "deleted"
  BY <1>Expire, <1>0, RequestsAssumption, NoneAssumption DEF Expire, BeginDrop
<1>SkipExpiry. ASSUME NEW u \in Uploads, NEW a \in Uploads, SkipExpiry(u, a)
               PROVE status'[b] = "deleted"
  BY <1>SkipExpiry, <1>0, RequestsAssumption, NoneAssumption DEF SkipExpiry
<1>UploadRefused. ASSUME NEW u \in Uploads, UploadRefused(u)
                  PROVE status'[b] = "deleted"
  BY <1>UploadRefused, <1>0, RequestsAssumption, NoneAssumption DEF UploadRefused
<1>PutFile. ASSUME NEW u \in Uploads, PutFile(u) PROVE status'[b] = "deleted"
  BY <1>PutFile, <1>0, RequestsAssumption, NoneAssumption DEF PutFile
<1>InsertRow. ASSUME NEW u \in Uploads, InsertRow(u) PROVE status'[b] = "deleted"
  BY <1>InsertRow, <1>0, RequestsAssumption, NoneAssumption DEF InsertRow,
     ApplyInsert, Inserts, Fresh
<1>InsertFails. ASSUME NEW u \in Uploads, InsertFails(u)
                PROVE status'[b] = "deleted"
  BY <1>InsertFails, <1>0, RequestsAssumption, NoneAssumption DEF InsertFails
<1>InsertAmbiguous. ASSUME NEW u \in Uploads, InsertAmbiguous(u)
                    PROVE status'[b] = "deleted"
  BY <1>InsertAmbiguous, <1>0, RequestsAssumption, NoneAssumption DEF
     InsertAmbiguous, ApplyInsert, Inserts, Fresh
<1>Sweep. ASSUME NEW u \in Uploads, Sweep(u) PROVE status'[b] = "deleted"
  BY <1>Sweep, <1>0, RequestsAssumption, NoneAssumption DEF Sweep
<1>BindRow. ASSUME NEW s \in Sends, NEW a \in Uploads, BindRow(s, a)
            PROVE status'[b] = "deleted"
  BY <1>BindRow, <1>0, RequestsAssumption, NoneAssumption DEF BindRow
<1>SendFails. ASSUME NEW s \in Sends, SendFails(s) PROVE status'[b] = "deleted"
  BY <1>SendFails, <1>0, RequestsAssumption, NoneAssumption DEF SendFails
<1>CommitSend. ASSUME NEW s \in Sends, CommitSend(s) PROVE status'[b] = "deleted"
  BY <1>CommitSend, <1>0, RequestsAssumption, NoneAssumption DEF CommitSend,
     ApplySend, Claimed
<1>Age. ASSUME NEW a \in Uploads, Age(a) PROVE status'[b] = "deleted"
  BY <1>Age, <1>0, RequestsAssumption, NoneAssumption DEF Age
<1>Restart. ASSUME Restart PROVE status'[b] = "deleted"
  BY <1>Restart, <1>0, RequestsAssumption, NoneAssumption DEF Restart
<1>R. CASE Reads
  BY <1>R, <1>0, RequestsAssumption, NoneAssumption DEF Reads
<1> QED
  BY <1>BeginUpload, <1>BeginRemoval, <1>BeginSend, <1>DropFile, <1>DropText,
     <1>Mark, <1>DropFails, <1>Expire, <1>SkipExpiry, <1>UploadRefused,
     <1>PutFile, <1>InsertRow, <1>InsertFails, <1>InsertAmbiguous, <1>Sweep,
     <1>BindRow, <1>SendFails, <1>CommitSend, <1>Age, <1>Restart, <1>R,
     NextSteps, <1>0 DEF Next, Begin, Delete, Upload, Send

\* A removal keeps its target.
LEMMA RemovalsStay ==
    ASSUME IInv, NEW e \in Removals, target[e] # None, [Next]_vars
    PROVE  target'[e] = target[e]
<1> USE DEF Types, AtRest, Dropping, Deleters, Requests, Go, Todo, Fault,
        Unlocked, vars, rows, request, bounds, history
<1>0. Locking /\ Claimed /\ Callers /\ Types /\ Inserts
  BY DEF IInv
<1>BeginUpload. ASSUME NEW u \in Uploads, NEW t \in Threads \cup {None},
                       BeginUpload(u, t)
                PROVE target'[e] = target[e]
  BY <1>BeginUpload, <1>0, RequestsAssumption, NoneAssumption DEF BeginUpload
<1>BeginRemoval. ASSUME NEW d \in Removals, NEW a \in Uploads, BeginRemoval(d, a)
                 PROVE target'[e] = target[e]
  BY <1>BeginRemoval, <1>0, RequestsAssumption, NoneAssumption DEF BeginRemoval,
     BeginDrop, Callers
<1>BeginSend. ASSUME NEW s \in Sends, NEW t \in Threads, NEW S \in SUBSET Uploads,
                     BeginSend(s, t, S)
              PROVE target'[e] = target[e]
  BY <1>BeginSend, <1>0, RequestsAssumption, NoneAssumption DEF BeginSend
<1>DropFile. ASSUME NEW p \in Deleters, DropFile(p) PROVE target'[e] = target[e]
  BY <1>DropFile, <1>0, RequestsAssumption, NoneAssumption DEF DropFile
<1>DropText. ASSUME NEW p \in Deleters, DropText(p) PROVE target'[e] = target[e]
  BY <1>DropText, <1>0, RequestsAssumption, NoneAssumption DEF DropText
<1>Mark. ASSUME NEW p \in Deleters, Mark(p) PROVE target'[e] = target[e]
  BY <1>Mark, <1>0, RequestsAssumption, NoneAssumption DEF Mark, Leave
<1>DropFails. ASSUME NEW p \in Deleters, DropFails(p) PROVE target'[e] = target[e]
  BY <1>DropFails, <1>0, RequestsAssumption, NoneAssumption DEF DropFails, Leave
<1>Expire. ASSUME NEW u \in Uploads, NEW a \in Uploads, Expire(u, a)
           PROVE target'[e] = target[e]
  BY <1>Expire, <1>0, RequestsAssumption, NoneAssumption DEF Expire, BeginDrop
<1>SkipExpiry. ASSUME NEW u \in Uploads, NEW a \in Uploads, SkipExpiry(u, a)
               PROVE target'[e] = target[e]
  BY <1>SkipExpiry, <1>0, RequestsAssumption, NoneAssumption DEF SkipExpiry
<1>UploadRefused. ASSUME NEW u \in Uploads, UploadRefused(u)
                  PROVE target'[e] = target[e]
  BY <1>UploadRefused, <1>0, RequestsAssumption, NoneAssumption DEF UploadRefused
<1>PutFile. ASSUME NEW u \in Uploads, PutFile(u) PROVE target'[e] = target[e]
  BY <1>PutFile, <1>0, RequestsAssumption, NoneAssumption DEF PutFile
<1>InsertRow. ASSUME NEW u \in Uploads, InsertRow(u) PROVE target'[e] = target[e]
  BY <1>InsertRow, <1>0, RequestsAssumption, NoneAssumption DEF InsertRow,
     ApplyInsert
<1>InsertFails. ASSUME NEW u \in Uploads, InsertFails(u)
                PROVE target'[e] = target[e]
  BY <1>InsertFails, <1>0, RequestsAssumption, NoneAssumption DEF InsertFails
<1>InsertAmbiguous. ASSUME NEW u \in Uploads, InsertAmbiguous(u)
                    PROVE target'[e] = target[e]
  BY <1>InsertAmbiguous, <1>0, RequestsAssumption, NoneAssumption DEF
     InsertAmbiguous, ApplyInsert
<1>Sweep. ASSUME NEW u \in Uploads, Sweep(u) PROVE target'[e] = target[e]
  BY <1>Sweep, <1>0, RequestsAssumption, NoneAssumption DEF Sweep
<1>BindRow. ASSUME NEW s \in Sends, NEW a \in Uploads, BindRow(s, a)
            PROVE target'[e] = target[e]
  BY <1>BindRow, <1>0, RequestsAssumption, NoneAssumption DEF BindRow
<1>SendFails. ASSUME NEW s \in Sends, SendFails(s) PROVE target'[e] = target[e]
  BY <1>SendFails, <1>0, RequestsAssumption, NoneAssumption DEF SendFails
<1>CommitSend. ASSUME NEW s \in Sends, CommitSend(s) PROVE target'[e] = target[e]
  BY <1>CommitSend, <1>0, RequestsAssumption, NoneAssumption DEF CommitSend,
     ApplySend
<1>Age. ASSUME NEW a \in Uploads, Age(a) PROVE target'[e] = target[e]
  BY <1>Age, <1>0, RequestsAssumption, NoneAssumption DEF Age
<1>Restart. ASSUME Restart PROVE target'[e] = target[e]
  BY <1>Restart, <1>0, RequestsAssumption, NoneAssumption DEF Restart
<1>R. CASE Reads
  BY <1>R, <1>0, RequestsAssumption, NoneAssumption DEF Reads
<1> QED
  BY <1>BeginUpload, <1>BeginRemoval, <1>BeginSend, <1>DropFile, <1>DropText,
     <1>Mark, <1>DropFails, <1>Expire, <1>SkipExpiry, <1>UploadRefused,
     <1>PutFile, <1>InsertRow, <1>InsertFails, <1>InsertAmbiguous, <1>Sweep,
     <1>BindRow, <1>SendFails, <1>CommitSend, <1>Age, <1>Restart, <1>R,
     NextSteps, <1>0 DEF Next, Begin, Delete, Upload, Send

\* What a message has been given stays with it.
LEMMA GivenStays ==
    ASSUME IInv, NEW b \in Uploads, NEW c \in Threads \cup {None}, Given(b, c), [Next]_vars
    PROVE  Given(b, c)'
<1> USE DEF Given, Types, AtRest, Dropping, Deleters, Requests, Go, Todo,
        Fault, Unlocked, vars, rows, request, bounds, history
<1>0. Locking /\ Claimed /\ Callers /\ Types /\ Inserts
  BY DEF IInv
<1>1. b \in Removed => b \in Removed'
  BY RemovalsStay, NoneAssumption, <1>0 DEF Removed, Requests, Deleters
<1>2. status[b] \in {"bound", "deleted"} /\ thread[b] = c
  BY DEF Given
<1>3. status[b] = "bound" \/ b \in Removed \/ b \in raced
  BY DEF Given
<1>BeginUpload. ASSUME NEW u \in Uploads, NEW t \in Threads \cup {None},
                       BeginUpload(u, t)
                PROVE Given(b, c)'
  BY <1>BeginUpload, <1>0, <1>1, <1>2, <1>3, RequestsAssumption, NoneAssumption
     DEF BeginUpload, Inserts, Fresh
<1>BeginRemoval. ASSUME NEW d \in Removals, NEW a \in Uploads, BeginRemoval(d, a)
                 PROVE Given(b, c)'
  BY <1>BeginRemoval, <1>0, <1>1, <1>2, <1>3, RequestsAssumption, NoneAssumption
     DEF BeginRemoval, BeginDrop
<1>BeginSend. ASSUME NEW s \in Sends, NEW t \in Threads, NEW S \in SUBSET Uploads,
                     BeginSend(s, t, S)
              PROVE Given(b, c)'
  BY <1>BeginSend, <1>0, <1>1, <1>2, <1>3, RequestsAssumption, NoneAssumption
     DEF BeginSend
<1>DropFile. ASSUME NEW p \in Deleters, DropFile(p) PROVE Given(b, c)'
  BY <1>DropFile, <1>0, <1>1, <1>2, <1>3, RequestsAssumption, NoneAssumption DEF
     DropFile
<1>DropText. ASSUME NEW p \in Deleters, DropText(p) PROVE Given(b, c)'
  BY <1>DropText, <1>0, <1>1, <1>2, <1>3, RequestsAssumption, NoneAssumption DEF
     DropText
<1>Mark. ASSUME NEW p \in Deleters, Mark(p) PROVE Given(b, c)'
  <2>1. /\ status' = [status EXCEPT ![target[p]] = "deleted"] /\ lock = p
        /\ UNCHANGED <<thread, raced, target>> /\ target[p] \in Uploads
    BY <1>Mark, <1>0 DEF Mark, Locking, Locks
  <2>2. CASE target[p] = b /\ p \in Uploads
    BY <2>1, <2>2, <1>0, <1>2 DEF Locking, Locks
  <2>3. CASE target[p] = b /\ p \in Removals
    BY <2>1, <2>3, <1>0, <1>1, <1>2 DEF Removed
  <2>4. CASE target[p] # b
    BY <2>1, <2>4, <1>0, <1>1, <1>2, <1>3
  <2> QED  BY <2>2, <2>3, <2>4
<1>DropFails. ASSUME NEW p \in Deleters, DropFails(p) PROVE Given(b, c)'
  BY <1>DropFails, <1>0, <1>1, <1>2, <1>3, RequestsAssumption, NoneAssumption
     DEF DropFails, Leave
<1>Expire. ASSUME NEW u \in Uploads, NEW a \in Uploads, Expire(u, a)
           PROVE Given(b, c)'
  BY <1>Expire, <1>0, <1>1, <1>2, <1>3, RequestsAssumption, NoneAssumption DEF
     Expire, BeginDrop
<1>SkipExpiry. ASSUME NEW u \in Uploads, NEW a \in Uploads, SkipExpiry(u, a)
               PROVE Given(b, c)'
  BY <1>SkipExpiry, <1>0, <1>1, <1>2, <1>3, RequestsAssumption, NoneAssumption
     DEF SkipExpiry
<1>UploadRefused. ASSUME NEW u \in Uploads, UploadRefused(u) PROVE Given(b, c)'
  BY <1>UploadRefused, <1>0, <1>1, <1>2, <1>3, RequestsAssumption,
     NoneAssumption DEF UploadRefused
<1>PutFile. ASSUME NEW u \in Uploads, PutFile(u) PROVE Given(b, c)'
  BY <1>PutFile, <1>0, <1>1, <1>2, <1>3, RequestsAssumption, NoneAssumption DEF
     PutFile
<1>InsertRow. ASSUME NEW u \in Uploads, InsertRow(u) PROVE Given(b, c)'
  BY <1>InsertRow, <1>0, <1>1, <1>2, <1>3, RequestsAssumption, NoneAssumption
     DEF InsertRow, ApplyInsert, Inserts, Fresh
<1>InsertFails. ASSUME NEW u \in Uploads, InsertFails(u) PROVE Given(b, c)'
  BY <1>InsertFails, <1>0, <1>1, <1>2, <1>3, RequestsAssumption, NoneAssumption
     DEF InsertFails
<1>InsertAmbiguous. ASSUME NEW u \in Uploads, InsertAmbiguous(u)
                    PROVE Given(b, c)'
  BY <1>InsertAmbiguous, <1>0, <1>1, <1>2, <1>3, RequestsAssumption,
     NoneAssumption DEF InsertAmbiguous, ApplyInsert, Inserts, Fresh
<1>Sweep. ASSUME NEW u \in Uploads, Sweep(u) PROVE Given(b, c)'
  BY <1>Sweep, <1>0, <1>1, <1>2, <1>3, RequestsAssumption, NoneAssumption DEF
     Sweep
<1>BindRow. ASSUME NEW s \in Sends, NEW a \in Uploads, BindRow(s, a)
            PROVE Given(b, c)'
  BY <1>BindRow, <1>0, <1>1, <1>2, <1>3, RequestsAssumption, NoneAssumption DEF
     BindRow
<1>SendFails. ASSUME NEW s \in Sends, SendFails(s) PROVE Given(b, c)'
  BY <1>SendFails, <1>0, <1>1, <1>2, <1>3, RequestsAssumption, NoneAssumption
     DEF SendFails
<1>CommitSend. ASSUME NEW s \in Sends, CommitSend(s) PROVE Given(b, c)'
  BY <1>CommitSend, <1>0, <1>1, <1>2, <1>3, RequestsAssumption, NoneAssumption
     DEF CommitSend, ApplySend, Claimed
<1>Age. ASSUME NEW a \in Uploads, Age(a) PROVE Given(b, c)'
  BY <1>Age, <1>0, <1>1, <1>2, <1>3, RequestsAssumption, NoneAssumption DEF Age
<1>Restart. ASSUME Restart PROVE Given(b, c)'
  BY <1>Restart, <1>0, <1>1, <1>2, <1>3, RequestsAssumption, NoneAssumption DEF
     Restart
<1>R. CASE Reads
  BY <1>R, <1>0, <1>1, <1>2, <1>3, RequestsAssumption, NoneAssumption DEF Reads
<1> QED
  BY <1>BeginUpload, <1>BeginRemoval, <1>BeginSend, <1>DropFile, <1>DropText,
     <1>Mark, <1>DropFails, <1>Expire, <1>SkipExpiry, <1>UploadRefused,
     <1>PutFile, <1>InsertRow, <1>InsertFails, <1>InsertAmbiguous, <1>Sweep,
     <1>BindRow, <1>SendFails, <1>CommitSend, <1>Age, <1>Restart, <1>R,
     NextSteps, <1>0 DEF Next, Begin, Delete, Upload, Send

\* One message is being created at a time.
LEMMA OneBinds ==
    ASSUME IInv, NEW m \in Sends, NEW n \in Sends, [Next]_vars
    PROVE  (pc[m] = "binding" /\ pc[n] = "binding" => m = n)'
<1> USE DEF Types, AtRest, Dropping, Deleters, Requests, Go, Todo, Fault,
        Unlocked, vars, rows, request, bounds, history
<1>0. /\ Locking /\ Claimed /\ Callers /\ Types /\ Inserts
      /\ pc[m] = "binding" /\ pc[n] = "binding" => m = n
  BY DEF IInv, Delivered
<1>BeginUpload. ASSUME NEW u \in Uploads, NEW t \in Threads \cup {None},
                       BeginUpload(u, t)
                PROVE (pc[m] = "binding" /\ pc[n] = "binding" => m = n)'
  BY <1>BeginUpload, <1>0, RequestsAssumption, NoneAssumption DEF BeginUpload
<1>BeginRemoval. ASSUME NEW d \in Removals, NEW a \in Uploads, BeginRemoval(d, a)
                 PROVE (pc[m] = "binding" /\ pc[n] = "binding" => m = n)'
  BY <1>BeginRemoval, <1>0, RequestsAssumption, NoneAssumption DEF BeginRemoval,
     BeginDrop
<1>BeginSend. ASSUME NEW s \in Sends, NEW t \in Threads, NEW S \in SUBSET Uploads,
                     BeginSend(s, t, S)
              PROVE (pc[m] = "binding" /\ pc[n] = "binding" => m = n)'
  BY <1>BeginSend, <1>0, RequestsAssumption, NoneAssumption DEF BeginSend
<1>DropFile. ASSUME NEW p \in Deleters, DropFile(p)
             PROVE (pc[m] = "binding" /\ pc[n] = "binding" => m = n)'
  BY <1>DropFile, <1>0, RequestsAssumption, NoneAssumption DEF DropFile
<1>DropText. ASSUME NEW p \in Deleters, DropText(p)
             PROVE (pc[m] = "binding" /\ pc[n] = "binding" => m = n)'
  BY <1>DropText, <1>0, RequestsAssumption, NoneAssumption DEF DropText
<1>Mark. ASSUME NEW p \in Deleters, Mark(p)
         PROVE (pc[m] = "binding" /\ pc[n] = "binding" => m = n)'
  BY <1>Mark, <1>0, RequestsAssumption, NoneAssumption DEF Mark, Leave
<1>DropFails. ASSUME NEW p \in Deleters, DropFails(p)
              PROVE (pc[m] = "binding" /\ pc[n] = "binding" => m = n)'
  BY <1>DropFails, <1>0, RequestsAssumption, NoneAssumption DEF DropFails, Leave
<1>Expire. ASSUME NEW u \in Uploads, NEW a \in Uploads, Expire(u, a)
           PROVE (pc[m] = "binding" /\ pc[n] = "binding" => m = n)'
  BY <1>Expire, <1>0, RequestsAssumption, NoneAssumption DEF Expire, BeginDrop
<1>SkipExpiry. ASSUME NEW u \in Uploads, NEW a \in Uploads, SkipExpiry(u, a)
               PROVE (pc[m] = "binding" /\ pc[n] = "binding" => m = n)'
  BY <1>SkipExpiry, <1>0, RequestsAssumption, NoneAssumption DEF SkipExpiry
<1>UploadRefused. ASSUME NEW u \in Uploads, UploadRefused(u)
                  PROVE (pc[m] = "binding" /\ pc[n] = "binding" => m = n)'
  BY <1>UploadRefused, <1>0, RequestsAssumption, NoneAssumption DEF UploadRefused
<1>PutFile. ASSUME NEW u \in Uploads, PutFile(u)
            PROVE (pc[m] = "binding" /\ pc[n] = "binding" => m = n)'
  BY <1>PutFile, <1>0, RequestsAssumption, NoneAssumption DEF PutFile
<1>InsertRow. ASSUME NEW u \in Uploads, InsertRow(u)
              PROVE (pc[m] = "binding" /\ pc[n] = "binding" => m = n)'
  BY <1>InsertRow, <1>0, RequestsAssumption, NoneAssumption DEF InsertRow,
     ApplyInsert
<1>InsertFails. ASSUME NEW u \in Uploads, InsertFails(u)
                PROVE (pc[m] = "binding" /\ pc[n] = "binding" => m = n)'
  BY <1>InsertFails, <1>0, RequestsAssumption, NoneAssumption DEF InsertFails
<1>InsertAmbiguous. ASSUME NEW u \in Uploads, InsertAmbiguous(u)
                    PROVE (pc[m] = "binding" /\ pc[n] = "binding" => m = n)'
  BY <1>InsertAmbiguous, <1>0, RequestsAssumption, NoneAssumption DEF
     InsertAmbiguous, ApplyInsert
<1>Sweep. ASSUME NEW u \in Uploads, Sweep(u)
          PROVE (pc[m] = "binding" /\ pc[n] = "binding" => m = n)'
  BY <1>Sweep, <1>0, RequestsAssumption, NoneAssumption DEF Sweep
<1>BindRow. ASSUME NEW s \in Sends, NEW a \in Uploads, BindRow(s, a)
            PROVE (pc[m] = "binding" /\ pc[n] = "binding" => m = n)'
  BY <1>BindRow, <1>0, RequestsAssumption, NoneAssumption DEF BindRow
<1>SendFails. ASSUME NEW s \in Sends, SendFails(s)
              PROVE (pc[m] = "binding" /\ pc[n] = "binding" => m = n)'
  BY <1>SendFails, <1>0, RequestsAssumption, NoneAssumption DEF SendFails
<1>CommitSend. ASSUME NEW s \in Sends, CommitSend(s)
               PROVE (pc[m] = "binding" /\ pc[n] = "binding" => m = n)'
  BY <1>CommitSend, <1>0, RequestsAssumption, NoneAssumption DEF CommitSend,
     ApplySend
<1>Age. ASSUME NEW a \in Uploads, Age(a)
        PROVE (pc[m] = "binding" /\ pc[n] = "binding" => m = n)'
  BY <1>Age, <1>0, RequestsAssumption, NoneAssumption DEF Age
<1>Restart. ASSUME Restart
            PROVE (pc[m] = "binding" /\ pc[n] = "binding" => m = n)'
  BY <1>Restart, <1>0, RequestsAssumption, NoneAssumption DEF Restart
<1>R. CASE Reads
  BY <1>R, <1>0, RequestsAssumption, NoneAssumption DEF Reads
<1> QED
  BY <1>BeginUpload, <1>BeginRemoval, <1>BeginSend, <1>DropFile, <1>DropText,
     <1>Mark, <1>DropFails, <1>Expire, <1>SkipExpiry, <1>UploadRefused,
     <1>PutFile, <1>InsertRow, <1>InsertFails, <1>InsertAmbiguous, <1>Sweep,
     <1>BindRow, <1>SendFails, <1>CommitSend, <1>Age, <1>Restart, <1>R,
     NextSteps, <1>0 DEF Next, Begin, Delete, Upload, Send

\* A message has what it was sent with.
LEMMA DeliversStep ==
    ASSUME IInv, NEW m \in Sends, [Next]_vars
    PROVE  Delivers(m)'
<1> USE DEF Delivers, Types, AtRest, Deleters, Requests, Go, Todo, Fault,
        Unlocked, vars, rows, request, bounds, history
<1>0. /\ Locking /\ Claimed /\ Callers /\ Types /\ Inserts /\ Delivers(m)
      /\ \A n \in Sends : pc[m] = "binding" /\ pc[n] = "binding" => m = n
  BY DEF IInv, Delivered
<1>1. \A b \in Uploads, c \in Threads \cup {None} : Given(b, c) => Given(b, c)'
  BY GivenStays
<1>BeginUpload. ASSUME NEW u \in Uploads, NEW t \in Threads \cup {None},
                       BeginUpload(u, t)
                PROVE Delivers(m)'
  BY <1>BeginUpload, <1>0, <1>1, RequestsAssumption, NoneAssumption DEF
     BeginUpload
<1>BeginRemoval. ASSUME NEW d \in Removals, NEW a \in Uploads, BeginRemoval(d, a)
                 PROVE Delivers(m)'
  BY <1>BeginRemoval, <1>0, <1>1, RequestsAssumption, NoneAssumption DEF
     BeginRemoval, BeginDrop
<1>BeginSend. ASSUME NEW s \in Sends, NEW t \in Threads, NEW S \in SUBSET Uploads,
                     BeginSend(s, t, S)
              PROVE Delivers(m)'
  <2>1. CASE s = m
    <3>1. /\ ids'[m] = S /\ chat'[m] = t /\ pc'[m] = "binding"
          /\ todo'[m] = {a \in S : status[a] = "staged"} /\ m \notin sent'
      BY <1>BeginSend, <2>1, <1>0 DEF BeginSend
    <3>2. \A a \in S : status[a] = "staged" \/ Given(a, t)
      BY <1>BeginSend DEF BeginSend, Sendable, Given
    <3>3. \A a \in S : a \in todo'[m] \/ Given(a, t)'
      BY <3>1, <3>2, <1>1
    <3> QED  BY <3>1, <3>3
  <2>2. CASE s # m
    BY <1>BeginSend, <2>2, <1>0, <1>1, RequestsAssumption DEF BeginSend
  <2> QED  BY <2>1, <2>2
<1>DropFile. ASSUME NEW p \in Deleters, DropFile(p) PROVE Delivers(m)'
  BY <1>DropFile, <1>0, <1>1, RequestsAssumption, NoneAssumption DEF DropFile
<1>DropText. ASSUME NEW p \in Deleters, DropText(p) PROVE Delivers(m)'
  BY <1>DropText, <1>0, <1>1, RequestsAssumption, NoneAssumption DEF DropText
<1>Mark. ASSUME NEW p \in Deleters, Mark(p) PROVE Delivers(m)'
  BY <1>Mark, <1>0, <1>1, RequestsAssumption, NoneAssumption DEF Mark, Leave
<1>DropFails. ASSUME NEW p \in Deleters, DropFails(p) PROVE Delivers(m)'
  BY <1>DropFails, <1>0, <1>1, RequestsAssumption, NoneAssumption DEF DropFails,
     Leave
<1>Expire. ASSUME NEW u \in Uploads, NEW a \in Uploads, Expire(u, a)
           PROVE Delivers(m)'
  BY <1>Expire, <1>0, <1>1, RequestsAssumption, NoneAssumption DEF Expire,
     BeginDrop
<1>SkipExpiry. ASSUME NEW u \in Uploads, NEW a \in Uploads, SkipExpiry(u, a)
               PROVE Delivers(m)'
  BY <1>SkipExpiry, <1>0, <1>1, RequestsAssumption, NoneAssumption DEF SkipExpiry
<1>UploadRefused. ASSUME NEW u \in Uploads, UploadRefused(u) PROVE Delivers(m)'
  BY <1>UploadRefused, <1>0, <1>1, RequestsAssumption, NoneAssumption DEF
     UploadRefused
<1>PutFile. ASSUME NEW u \in Uploads, PutFile(u) PROVE Delivers(m)'
  BY <1>PutFile, <1>0, <1>1, RequestsAssumption, NoneAssumption DEF PutFile
<1>InsertRow. ASSUME NEW u \in Uploads, InsertRow(u) PROVE Delivers(m)'
  BY <1>InsertRow, <1>0, <1>1, RequestsAssumption, NoneAssumption DEF InsertRow,
     ApplyInsert
<1>InsertFails. ASSUME NEW u \in Uploads, InsertFails(u) PROVE Delivers(m)'
  BY <1>InsertFails, <1>0, <1>1, RequestsAssumption, NoneAssumption DEF
     InsertFails
<1>InsertAmbiguous. ASSUME NEW u \in Uploads, InsertAmbiguous(u)
                    PROVE Delivers(m)'
  BY <1>InsertAmbiguous, <1>0, <1>1, RequestsAssumption, NoneAssumption DEF
     InsertAmbiguous, ApplyInsert
<1>Sweep. ASSUME NEW u \in Uploads, Sweep(u) PROVE Delivers(m)'
  BY <1>Sweep, <1>0, <1>1, RequestsAssumption, NoneAssumption DEF Sweep
<1>BindRow. ASSUME NEW s \in Sends, NEW a \in Uploads, BindRow(s, a)
            PROVE Delivers(m)'
  BY <1>BindRow, <1>0, <1>1, RequestsAssumption, NoneAssumption DEF BindRow
<1>SendFails. ASSUME NEW s \in Sends, SendFails(s) PROVE Delivers(m)'
  BY <1>SendFails, <1>0, <1>1, RequestsAssumption, NoneAssumption DEF SendFails
<1>CommitSend. ASSUME NEW s \in Sends, CommitSend(s) PROVE Delivers(m)'
  <2>1. /\ sent' = sent \cup {s} /\ held' = {} /\ UNCHANGED <<ids, chat, todo>>
        /\ pc[s] = "binding" /\ todo[s] = {}
        /\ \E l \in {"done", "failed"} : pc' = [pc EXCEPT ![s] = l]
    BY <1>CommitSend DEF CommitSend, ApplySend
  <2>2. CASE s = m
    <3>1. \A a \in ids[m] : a \in held => Given(a, chat[m])'
      BY <1>CommitSend, <2>2, <1>0 DEF CommitSend, ApplySend, Given
    <3>2. \A a \in ids[m] : Given(a, chat[m])'
      BY <2>1, <2>2, <3>1, <1>0, <1>1
    <3> QED  BY <2>1, <2>2, <3>2, <1>0
  <2>3. CASE s # m
    BY <2>1, <2>3, <1>0, <1>1
  <2> QED  BY <2>2, <2>3
<1>Age. ASSUME NEW a \in Uploads, Age(a) PROVE Delivers(m)'
  BY <1>Age, <1>0, <1>1, RequestsAssumption, NoneAssumption DEF Age
<1>Restart. ASSUME Restart PROVE Delivers(m)'
  BY <1>Restart, <1>0, <1>1, RequestsAssumption, NoneAssumption DEF Restart
<1>R. CASE Reads
  BY <1>R, <1>0, <1>1, RequestsAssumption, NoneAssumption DEF Reads
<1> QED
  BY <1>BeginUpload, <1>BeginRemoval, <1>BeginSend, <1>DropFile, <1>DropText,
     <1>Mark, <1>DropFails, <1>Expire, <1>SkipExpiry, <1>UploadRefused,
     <1>PutFile, <1>InsertRow, <1>InsertFails, <1>InsertAmbiguous, <1>Sweep,
     <1>BindRow, <1>SendFails, <1>CommitSend, <1>Age, <1>Restart, <1>R,
     NextSteps, <1>0 DEF Next, Begin, Delete, Upload, Send


-----------------------------------------------------------------------------
(* The theorems.                                                           *)

LEMMA InitInvariant == Init => IInv
<1> SUFFICES ASSUME Init PROVE IInv
  OBVIOUS
<1> USE NoneAssumption, RequestsAssumption DEF Init
<1>1. Types
  BY DEF Types, Pcs, AtRest, Requests, Deleters
<1>2. Callers
  BY DEF Callers, AtRest, Reading, Requests, Deleters
<1>3. Locking
  BY DEF Locking, Locks, Dropping, Requests, Deleters
<1>4. Claimed /\ Inserts
  BY DEF Claimed, Inserts, Fresh, Requests, Deleters
<1>5. Delivered
  BY DEF Delivered, Delivers, Requests
<1>6. LiveHaveBytes
  BY DEF LiveHaveBytes, Live
<1> QED  BY <1>1, <1>2, <1>3, <1>4, <1>5, <1>6 DEF IInv

LEMMA StepInvariant == IInv /\ [Next]_vars => IInv'
<1> SUFFICES ASSUME IInv, [Next]_vars PROVE IInv'
  OBVIOUS
<1>1. Types' /\ Callers' /\ Claimed'
  BY TypesStep, CallersStep, ClaimedStep DEF IInv
<1>2. Locking'
  BY LockingStep DEF Locking
<1>3. Inserts'
  BY InsertsStep DEF Inserts
<1>4. Delivered'
  BY OneBinds, DeliversStep DEF Delivered
<1>5. LiveHaveBytes'
  BY BytesStep DEF LiveHaveBytes, Kept, Live
<1> QED  BY <1>1, <1>2, <1>3, <1>4, <1>5 DEF IInv

\* The inductive invariant holds in every reachable state.
THEOREM AttachmentsInvariant == Spec => []IInv
BY InitInvariant, StepInvariant, PTL DEF Spec

\* A live attachment has its bytes, unless the request that deletes it holds
\* the workspace's row, or one failed half-way.
THEOREM LiveAreKept == Spec => []LiveHaveBytes
<1>1. IInv => LiveHaveBytes
  BY DEF IInv
<1> QED  BY <1>1, AttachmentsInvariant, PTL

\* What is deleted never comes back.
THEOREM DeletionIsFinal == Spec => DeletedIsFinal
<1>1. ASSUME IInv, [Next]_vars
      PROVE  [\A a \in Uploads : status[a] = "deleted" => status'[a] = "deleted"]_vars
  BY <1>1, DeletionStep
<1> QED  BY <1>1, AttachmentsInvariant, PTL DEF Spec, DeletedIsFinal

\* A message keeps its attachments in its chat until a removal is asked for,
\* those excepted whose expiry had begun when it was sent.
THEOREM SentStay == Spec => []SentAttachmentsStay
<1>1. IInv => SentAttachmentsStay
  BY DEF IInv, Types, Delivered, Delivers, Given, SentAttachmentsStay
<1> QED  BY <1>1, AttachmentsInvariant, PTL

-----------------------------------------------------------------------------
(* The ledger.                                                             *)

\* The cells of a finite set of attachments are finite, those of disjoint sets
\* are disjoint: bytes add up.
LEMMA CellsFinite ==
    ASSUME NEW S \in SUBSET Uploads, IsFiniteSet(S)
    PROVE  IsFiniteSet(Cells(S))
<1> DEFINE F == {{a} \X (1 .. Size[a]) : a \in S}
           f == [a \in S |-> {a} \X (1 .. Size[a])]
<1>1. f \in Surjection(S, F)
  BY DEF Surjection
<1>2. IsFiniteSet(F)
  BY <1>1, FS_Surjection
<1>3. \A T \in F : IsFiniteSet(T)
  <2>1. ASSUME NEW a \in S PROVE IsFiniteSet({a} \X (1 .. Size[a]))
    <3>1. IsFiniteSet({a})
      BY FS_Singleton
    <3>2. Size[a] \in Int
      BY SizesAssumption
    <3>3. IsFiniteSet(1 .. Size[a])
      BY <3>2, FS_Interval
    <3> QED  BY <3>1, <3>3, FS_Product
  <2> QED  BY <2>1
<1>4. IsFiniteSet(UNION F)
  BY <1>2, <1>3, FS_UNION
<1> QED  BY <1>4 DEF Cells

LEMMA BytesNone == Bytes({}) = 0
<1>1. Cells({}) = {}
  BY DEF Cells
<1> QED  BY <1>1, FS_EmptySet DEF Bytes

LEMMA BytesOne ==
    ASSUME NEW a \in Uploads
    PROVE  Bytes({a}) = Size[a]
<1>1. Size[a] \in Nat /\ Size[a] \in Int /\ 1 \in Int /\ ~ (1 > Size[a])
  BY SizesAssumption
<1>2. IsFiniteSet(1 .. Size[a]) /\ Cardinality(1 .. Size[a]) = Size[a] - 1 + 1
  BY <1>1, FS_Interval
<1>3. IsFiniteSet({a}) /\ Cardinality({a}) = 1
  BY FS_Singleton
<1>4. Cardinality({a} \X (1 .. Size[a])) = Cardinality({a}) * Cardinality(1 .. Size[a])
  BY <1>2, <1>3, FS_Product
<1>5. Cells({a}) = {a} \X (1 .. Size[a])
  BY DEF Cells
<1>6. Bytes({a}) = 1 * (Size[a] - 1 + 1)
  BY <1>2, <1>3, <1>4, <1>5 DEF Bytes
<1> QED  BY <1>1, <1>6

\* One attachment more, or one less.
LEMMA BytesAdd ==
    ASSUME NEW S \in SUBSET Uploads, IsFiniteSet(S), NEW a \in Uploads, a \notin S
    PROVE  /\ IsFiniteSet(S \cup {a}) /\ Bytes(S) \in Nat
           /\ Bytes(S \cup {a}) = Bytes(S) + Size[a]
<1>1. IsFiniteSet(S \cup {a}) /\ IsFiniteSet({a})
  BY FS_AddElement, FS_Singleton
<1>2. IsFiniteSet(Cells(S)) /\ IsFiniteSet(Cells({a}))
  BY <1>1, CellsFinite
<1>3. Bytes(S) \in Nat /\ Bytes({a}) = Size[a] /\ Size[a] \in Nat
  BY <1>2, FS_CardinalityType, BytesOne, SizesAssumption DEF Bytes
<1>4. Cells(S \cup {a}) = Cells(S) \cup Cells({a})
  BY DEF Cells
<1>5. Cells(S) \cap Cells({a}) = {}
  <2>1. SUFFICES ASSUME NEW c \in Cells(S), c \in Cells({a}) PROVE FALSE
    OBVIOUS
  <2>2. PICK b \in S : c \in {b} \X (1 .. Size[b])
    BY DEF Cells
  <2>3. c \in {a} \X (1 .. Size[a])
    BY <2>1 DEF Cells
  <2> QED  BY <2>2, <2>3
<1>6. Cardinality(Cells(S) \cap Cells({a})) = 0
  BY <1>5, FS_EmptySet
<1>7. Cardinality(Cells(S) \cup Cells({a}))
        = Cardinality(Cells(S)) + Cardinality(Cells({a})) - Cardinality(Cells(S) \cap Cells({a}))
  BY <1>2, FS_Union
<1>8. Bytes(S \cup {a}) = Cardinality(Cells(S) \cup Cells({a}))
  BY <1>4 DEF Bytes
<1>9. Bytes(S \cup {a}) = Bytes(S) + Bytes({a}) - 0
  BY <1>6, <1>7, <1>8 DEF Bytes
<1> QED  BY <1>1, <1>3, <1>9

LEMMA BytesRemove ==
    ASSUME NEW S \in SUBSET Uploads, IsFiniteSet(S), NEW a \in S
    PROVE  /\ IsFiniteSet(S \ {a}) /\ Bytes(S \ {a}) \in Nat
           /\ Bytes(S) = Bytes(S \ {a}) + Size[a]
<1>1. IsFiniteSet(S \ {a}) /\ (S \ {a}) \cup {a} = S
  BY FS_RemoveElement
<1>2. Bytes(S \ {a}) \in Nat /\ Bytes((S \ {a}) \cup {a}) = Bytes(S \ {a}) + Size[a]
  BY <1>1, BytesAdd
<1> QED  BY <1>1, <1>2

LEMMA Floored ==
    ASSUME NEW n \in Nat
    PROVE  Max({0, n}) = n
<1>1. \A x, y \in {0, n} : (\A z \in {0, n} : x >= z) /\ (\A z \in {0, n} : y >= z) => x = y
  OBVIOUS
<1>2. \A z \in {0, n} : n >= z
  OBVIOUS
<1> QED  BY <1>1, <1>2 DEF Max

\* What a step does to the live rows and to the account.
Charges ==
    \/ Live' = Live /\ used' = used
    \/ \E u \in Uploads \ Live :
          Live' = Live \cup {u} /\ Fits(u) /\ used' = used + Size[u]
    \/ \E a \in Live : Live' = Live \ {a} /\ used' = Max({0, used - Size[a]})

LEMMA ChargesStep ==
    ASSUME IInv, [Next]_vars
    PROVE  Charges
<1> USE DEF Charges, Live, Types, AtRest, Dropping, Deleters, Requests, Go, Todo, Fault,
        Unlocked, vars, rows, request, bounds, history
<1>0. Locking /\ Claimed /\ Callers /\ Types /\ Inserts
  BY DEF IInv
<1>BeginUpload. ASSUME NEW u \in Uploads, NEW t \in Threads \cup {None}, BeginUpload(u, t)
                PROVE Charges
  BY <1>BeginUpload DEF BeginUpload
<1>BeginRemoval. ASSUME NEW d \in Removals, NEW a \in Uploads, BeginRemoval(d, a)
                 PROVE Charges
  BY <1>BeginRemoval DEF BeginRemoval, BeginDrop
<1>BeginSend. ASSUME NEW s \in Sends, NEW t \in Threads, NEW S \in SUBSET Uploads, BeginSend(s, t, S)
              PROVE Charges
  BY <1>BeginSend DEF BeginSend
<1>DropFile. ASSUME NEW p \in Deleters, DropFile(p) PROVE Charges
  BY <1>DropFile DEF DropFile
<1>DropText. ASSUME NEW p \in Deleters, DropText(p) PROVE Charges
  BY <1>DropText DEF DropText
<1>DropFails. ASSUME NEW p \in Deleters, DropFails(p) PROVE Charges
  BY <1>DropFails DEF DropFails
<1>Expire. ASSUME NEW u \in Uploads, NEW a \in Uploads, Expire(u, a) PROVE Charges
  BY <1>Expire DEF Expire, BeginDrop
<1>SkipExpiry. ASSUME NEW u \in Uploads, NEW a \in Uploads, SkipExpiry(u, a)
               PROVE Charges
  BY <1>SkipExpiry DEF SkipExpiry
<1>UploadRefused. ASSUME NEW u \in Uploads, UploadRefused(u) PROVE Charges
  BY <1>UploadRefused DEF UploadRefused
<1>PutFile. ASSUME NEW u \in Uploads, PutFile(u) PROVE Charges
  BY <1>PutFile DEF PutFile
<1>InsertFails. ASSUME NEW u \in Uploads, InsertFails(u) PROVE Charges
  BY <1>InsertFails DEF InsertFails
<1>Sweep. ASSUME NEW u \in Uploads, Sweep(u) PROVE Charges
  BY <1>Sweep DEF Sweep
<1>BindRow. ASSUME NEW s \in Sends, NEW a \in Uploads, BindRow(s, a) PROVE Charges
  BY <1>BindRow DEF BindRow
<1>SendFails. ASSUME NEW s \in Sends, SendFails(s) PROVE Charges
  BY <1>SendFails DEF SendFails
<1>Age. ASSUME NEW a \in Uploads, Age(a) PROVE Charges
  BY <1>Age DEF Age
<1>Mark. ASSUME NEW p \in Deleters, Mark(p) PROVE Charges
  <2>1. target[p] \in Uploads /\ status[target[p]] \in {"staged", "bound"}
    BY <1>Mark, <1>0 DEF Mark, Locking, Locks
  <2>2. /\ status' = [status EXCEPT ![target[p]] = "deleted"]
        /\ used' = Max({0, used - Size[target[p]]})
    BY <1>Mark DEF Mark
  <2>3. target[p] \in Live /\ Live' = Live \ {target[p]}
    BY <2>1, <2>2, <1>0
  <2> QED  BY <2>2, <2>3
<1>InsertRow. ASSUME NEW u \in Uploads, InsertRow(u) \/ InsertAmbiguous(u) PROVE Charges
  <2>1. /\ status[u] = "absent" /\ status' = [status EXCEPT ![u] = "staged"]
        /\ Fits(u) /\ used' = used + Size[u]
    BY <1>InsertRow, <1>0 DEF InsertRow, InsertAmbiguous, ApplyInsert, Inserts, Fresh
  <2>2. u \in Uploads \ Live /\ Live' = Live \cup {u}
    BY <2>1, <1>0
  <2> QED  BY <2>1, <2>2
<1>CommitSend. ASSUME NEW s \in Sends, CommitSend(s) PROVE Charges
  <2>1. \A a \in Uploads : status'[a] \in {"staged", "bound"} <=> status[a] \in {"staged", "bound"}
    BY <1>CommitSend, <1>0 DEF CommitSend, ApplySend, Claimed
  <2>2. used' = used
    BY <1>CommitSend DEF CommitSend
  <2> QED  BY <2>1, <2>2
<1>Restart. ASSUME Restart PROVE Charges
  BY <1>Restart DEF Restart
<1>R. CASE Reads
  BY <1>R DEF Reads
<1> HIDE DEF Charges
<1> QED
  BY <1>BeginUpload, <1>BeginRemoval, <1>BeginSend, <1>DropFile, <1>DropText,
     <1>Mark, <1>DropFails, <1>Expire, <1>SkipExpiry, <1>UploadRefused,
     <1>PutFile, <1>InsertRow, <1>InsertFails, <1>Sweep,
     <1>BindRow, <1>SendFails, <1>CommitSend, <1>Age, <1>Restart, <1>R,
     NextSteps, <1>0 DEF Next, Begin, Delete, Upload, Send

\* What is charged is what the live attachments take, and within the quota.
Account ==
    /\ IsFiniteSet(Live) /\ used \in Nat /\ used <= Quota
    /\ LedgerMatchesRows

LEMMA AccountStep ==
    ASSUME IInv, Account, [Next]_vars
    PROVE  Account'
<1>0. /\ Live \subseteq Uploads /\ IsFiniteSet(Live) /\ used = Bytes(Live)
      /\ used \in Nat /\ used <= Quota /\ Quota \in Nat
  BY SizesAssumption DEF Account, LedgerMatchesRows, Live
<1>1. Bytes(Live)' = Bytes(Live')
  BY DEF Bytes, Cells
<1>2. CASE Live' = Live /\ used' = used
  BY <1>0, <1>1, <1>2 DEF Account, LedgerMatchesRows
<1>3. ASSUME NEW u \in Uploads \ Live, Live' = Live \cup {u}, Fits(u), used' = used + Size[u]
      PROVE  Account'
  <2>1. IsFiniteSet(Live') /\ Bytes(Live') = used + Size[u] /\ Size[u] \in Nat
    BY <1>0, <1>3, BytesAdd, SizesAssumption
  <2> QED  BY <1>0, <1>1, <1>3, <2>1 DEF Account, LedgerMatchesRows, Fits
<1>4. ASSUME NEW a \in Live, Live' = Live \ {a}, used' = Max({0, used - Size[a]})
      PROVE  Account'
  <2>1. /\ IsFiniteSet(Live') /\ Bytes(Live') \in Nat /\ used = Bytes(Live') + Size[a]
        /\ Size[a] \in Nat
    BY <1>0, <1>4, BytesRemove, SizesAssumption
  <2>2. used - Size[a] = Bytes(Live')
    BY <2>1
  <2>3. used' = Bytes(Live')
    BY <1>4, <2>1, <2>2, Floored
  <2> QED  BY <1>0, <1>1, <2>1, <2>3 DEF Account, LedgerMatchesRows
<1> QED  BY <1>2, <1>3, <1>4, ChargesStep DEF Charges

-----------------------------------------------------------------------------
(* The store, while nothing fails.                                         *)

Quiet == faults = 0 /\ crashes = 0

\* The bytes of b are those of a live row, or of an upload that has yet to
\* insert it or to clean up; its extraction is of a bound row, or the reader
\* that wrote it has yet to look at the row again.
Writing(b) == \E r \in Readers : target[r] = b /\ pc[r] \in {"checking", "undo"}
FileKept(b) == File(b) \in objects => b \in Live \/ pc[b] \in {"stored", "sweep"}
TextKept(b) ==
    /\ Text(b) \in objects /\ b \notin late => status[b] = "bound" \/ Writing(b)
    /\ \A r \in Readers :
          pc[r] \in Reading /\ target[r] = b => status[b] \in {"bound", "deleted"}

\* What has been deleted is gone, but for an extraction that came late.
GoneFor(p) ==
    /\ pc[p] \in {"dropText", "marking"} => File(target[p]) \notin objects
    /\ pc[p] = "marking" /\ target[p] \notin late => Text(target[p]) \notin objects

Tidied ==
    /\ torn = {}
    /\ \A b \in Uploads : FileKept(b) /\ TextKept(b)
    /\ \A p \in Deleters : GoneFor(p)

Counted == faults \in Nat /\ crashes \in Nat /\ late \in SUBSET Uploads
Tidy == Counted /\ (Quiet => Tidied)

\* No file is an extraction.
LEMMA Named ==
    /\ \A a, b : File(a) # Text(b)
    /\ \A a, b : File(a) = File(b) <=> a = b
    /\ \A a, b : Text(a) = Text(b) <=> a = b
BY DEF File, Text

\* An object is put by an upload that goes on to insert its row, and a deleted
\* row has none.
LEMMA FileStep ==
    ASSUME IInv, Counted, Tidied, Quiet, Quiet', NEW b \in Uploads, [Next]_vars
    PROVE  FileKept(b)'
<1> USE RequestsAssumption, NoneAssumption DEF FileKept, Live, Types, AtRest, Dropping, Reading, Deleters,
        Requests, Go, Todo, Fault, Unlocked, vars, rows, request, bounds, history, Quiet, Counted
<1>0. /\ Locking /\ Claimed /\ Callers /\ Types /\ Inserts /\ FileKept(b)
      /\ \A x, y : File(x) # Text(y) /\ (File(x) = File(y) <=> x = y)
                    /\ (Text(x) = Text(y) <=> x = y)
  BY Named DEF IInv, Tidied
<1>BeginUpload. ASSUME NEW u \in Uploads, NEW t \in Threads \cup {None}, BeginUpload(u, t)
                PROVE FileKept(b)'
  BY <1>BeginUpload, <1>0 DEF BeginUpload
<1>BeginRemoval. ASSUME NEW d \in Removals, NEW a \in Uploads, BeginRemoval(d, a)
                 PROVE FileKept(b)'
  BY <1>BeginRemoval, <1>0 DEF BeginRemoval, BeginDrop
<1>BeginSend. ASSUME NEW s \in Sends, NEW t \in Threads, NEW S \in SUBSET Uploads, BeginSend(s, t, S)
              PROVE FileKept(b)'
  BY <1>BeginSend, <1>0 DEF BeginSend
<1>DropFile. ASSUME NEW p \in Deleters, DropFile(p) PROVE FileKept(b)'
  BY <1>DropFile, <1>0 DEF DropFile
<1>DropText. ASSUME NEW p \in Deleters, DropText(p) PROVE FileKept(b)'
  BY <1>DropText, <1>0 DEF DropText
<1>Mark. ASSUME NEW p \in Deleters, Mark(p) PROVE FileKept(b)'
  <2>1. target[p] \in Uploads /\ File(target[p]) \notin objects
    BY <1>Mark, <1>0 DEF Mark, Locking, Locks, Tidied, GoneFor
  <2>2. CASE b = target[p]
    BY <1>Mark, <2>1, <2>2 DEF Mark
  <2>3. CASE b # target[p]
    <3>1. status'[b] = status[b] /\ objects' = objects
      BY <1>Mark, <2>3, <1>0 DEF Mark
    <3>2. pc[b] \in {"stored", "sweep"} => pc'[b] = pc[b]
      BY <1>Mark, <1>0 DEF Mark, Leave
    <3> QED  BY <3>1, <3>2, <1>0
  <2> QED  BY <2>2, <2>3
<1>Expire. ASSUME NEW u \in Uploads, NEW a \in Uploads, Expire(u, a) PROVE FileKept(b)'
  BY <1>Expire, <1>0 DEF Expire, BeginDrop
<1>SkipExpiry. ASSUME NEW u \in Uploads, NEW a \in Uploads, SkipExpiry(u, a)
               PROVE FileKept(b)'
  BY <1>SkipExpiry, <1>0 DEF SkipExpiry
<1>UploadRefused. ASSUME NEW u \in Uploads, UploadRefused(u) PROVE FileKept(b)'
  BY <1>UploadRefused, <1>0 DEF UploadRefused
<1>PutFile. ASSUME NEW u \in Uploads, PutFile(u) PROVE FileKept(b)'
  <2>1. /\ pc[u] = "expiring" /\ pc' = [pc EXCEPT ![u] = "stored"]
        /\ objects' = objects \cup {File(u)} /\ status' = status
    BY <1>PutFile DEF PutFile
  <2>2. CASE b = u
    BY <2>1, <2>2, <1>0
  <2>3. CASE b # u
    BY <2>1, <2>3, <1>0
  <2> QED  BY <2>2, <2>3
<1>InsertRow. ASSUME NEW u \in Uploads, InsertRow(u) PROVE FileKept(b)'
  BY <1>InsertRow, <1>0 DEF InsertRow, ApplyInsert
<1>InsertFails. ASSUME NEW u \in Uploads, InsertFails(u) PROVE FileKept(b)'
  BY <1>InsertFails, <1>0 DEF InsertFails
<1>Sweep. ASSUME NEW u \in Uploads, Sweep(u) PROVE FileKept(b)'
  BY <1>Sweep, <1>0 DEF Sweep
<1>BindRow. ASSUME NEW s \in Sends, NEW a \in Uploads, BindRow(s, a) PROVE FileKept(b)'
  BY <1>BindRow, <1>0 DEF BindRow
<1>SendFails. ASSUME NEW s \in Sends, SendFails(s) PROVE FileKept(b)'
  BY <1>SendFails, <1>0 DEF SendFails
<1>CommitSend. ASSUME NEW s \in Sends, CommitSend(s) PROVE FileKept(b)'
  BY <1>CommitSend, <1>0 DEF CommitSend, ApplySend
<1>Age. ASSUME NEW a \in Uploads, Age(a) PROVE FileKept(b)'
  BY <1>Age, <1>0 DEF Age
<1>BeginRead. ASSUME NEW r \in Readers, NEW a \in Uploads, BeginRead(r, a)
              PROVE FileKept(b)'
  BY <1>BeginRead, <1>0 DEF BeginRead
<1>ReadCached. ASSUME NEW r \in Readers, ReadCached(r) PROVE FileKept(b)'
  BY <1>ReadCached, <1>0 DEF ReadCached
<1>ReadOriginal. ASSUME NEW r \in Readers, ReadOriginal(r) PROVE FileKept(b)'
  BY <1>ReadOriginal, <1>0 DEF ReadOriginal
<1>SaveExtraction. ASSUME NEW r \in Readers, SaveExtraction(r) PROVE FileKept(b)'
  BY <1>SaveExtraction, <1>0 DEF SaveExtraction
<1>PutText. ASSUME NEW r \in Readers, PutText(r) PROVE FileKept(b)'
  BY <1>PutText, <1>0 DEF PutText
<1>Recheck. ASSUME NEW r \in Readers, Recheck(r) PROVE FileKept(b)'
  BY <1>Recheck, <1>0 DEF Recheck
<1>UndoText. ASSUME NEW r \in Readers, UndoText(r) PROVE FileKept(b)'
  BY <1>UndoText, <1>0 DEF UndoText
<1>Deliver. ASSUME NEW r \in Readers, Deliver(r) PROVE FileKept(b)'
  BY <1>Deliver, <1>0 DEF Deliver
<1>ReadFails. ASSUME NEW r \in Readers, ReadFails(r) PROVE FileKept(b)'
  BY <1>ReadFails, <1>0 DEF ReadFails
<1>F. ASSUME \/ \E u \in Uploads : InsertAmbiguous(u)
             \/ \E p \in Deleters : DropFails(p)
             \/ Restart
      PROVE  FALSE
  BY <1>F DEF InsertAmbiguous, DropFails, Restart
<1>S. CASE UNCHANGED vars
  BY <1>S, <1>0
<1> QED
  BY <1>BeginUpload, <1>BeginRemoval, <1>BeginSend, <1>DropFile, <1>DropText,
     <1>Mark, <1>Expire, <1>SkipExpiry, <1>UploadRefused, <1>PutFile, <1>InsertRow,
     <1>InsertFails, <1>Sweep, <1>BindRow, <1>SendFails, <1>CommitSend, <1>Age,
     <1>BeginRead, <1>ReadCached, <1>ReadOriginal, <1>SaveExtraction, <1>PutText,
     <1>Recheck, <1>UndoText, <1>Deliver, <1>ReadFails, <1>F, <1>S DEF
     Next, Begin, Delete, Upload, Send, Read

\* What a deletion has deleted, nobody puts back: an upload in its place would
\* have no row, and a reader is counted as late.
LEMMA GoneStep ==
    ASSUME IInv, Counted, Tidied, Quiet, Quiet', NEW q \in Deleters, [Next]_vars
    PROVE  GoneFor(q)'
<1> USE RequestsAssumption, NoneAssumption DEF GoneFor, Live, Types, AtRest, Dropping, Reading, Deleters,
        Requests, Go, Todo, Fault, Unlocked, vars, rows, request, bounds, history, Quiet, Counted
<1>0. /\ Locking /\ Claimed /\ Callers /\ Types /\ Inserts /\ GoneFor(q)
      /\ \A x, y : File(x) # Text(y) /\ (File(x) = File(y) <=> x = y)
                    /\ (Text(x) = Text(y) <=> x = y)
  BY Named DEF IInv, Tidied
<1>BeginUpload. ASSUME NEW u \in Uploads, NEW t \in Threads \cup {None}, BeginUpload(u, t)
                PROVE GoneFor(q)'
  BY <1>BeginUpload, <1>0 DEF BeginUpload
<1>BeginRemoval. ASSUME NEW d \in Removals, NEW a \in Uploads, BeginRemoval(d, a)
                 PROVE GoneFor(q)'
  BY <1>BeginRemoval, <1>0 DEF BeginRemoval, BeginDrop
<1>BeginSend. ASSUME NEW s \in Sends, NEW t \in Threads, NEW S \in SUBSET Uploads, BeginSend(s, t, S)
              PROVE GoneFor(q)'
  BY <1>BeginSend, <1>0 DEF BeginSend
<1>DropFile. ASSUME NEW p \in Deleters, DropFile(p) PROVE GoneFor(q)'
  BY <1>DropFile, <1>0 DEF DropFile
<1>DropText. ASSUME NEW p \in Deleters, DropText(p) PROVE GoneFor(q)'
  BY <1>DropText, <1>0 DEF DropText
<1>Mark. ASSUME NEW p \in Deleters, Mark(p) PROVE GoneFor(q)'
  BY <1>Mark, <1>0 DEF Mark, Leave
<1>Expire. ASSUME NEW u \in Uploads, NEW a \in Uploads, Expire(u, a) PROVE GoneFor(q)'
  BY <1>Expire, <1>0 DEF Expire, BeginDrop
<1>SkipExpiry. ASSUME NEW u \in Uploads, NEW a \in Uploads, SkipExpiry(u, a)
               PROVE GoneFor(q)'
  BY <1>SkipExpiry, <1>0 DEF SkipExpiry
<1>UploadRefused. ASSUME NEW u \in Uploads, UploadRefused(u) PROVE GoneFor(q)'
  BY <1>UploadRefused, <1>0 DEF UploadRefused
<1>PutFile. ASSUME NEW u \in Uploads, PutFile(u) PROVE GoneFor(q)'
  <2>1. /\ status[u] = "absent" /\ pc[u] = "expiring" /\ pc' = [pc EXCEPT ![u] = "stored"]
        /\ objects' = objects \cup {File(u)} /\ UNCHANGED <<target, late>>
    BY <1>PutFile, <1>0 DEF PutFile, Inserts, Fresh
  <2>2. pc'[q] \in {"dropText", "marking"} => pc[q] = pc'[q] /\ target[q] # u
    BY <2>1, <1>0 DEF Locking, Locks
  <2> QED  BY <2>1, <2>2, <1>0
<1>InsertRow. ASSUME NEW u \in Uploads, InsertRow(u) PROVE GoneFor(q)'
  BY <1>InsertRow, <1>0 DEF InsertRow, ApplyInsert
<1>InsertFails. ASSUME NEW u \in Uploads, InsertFails(u) PROVE GoneFor(q)'
  BY <1>InsertFails, <1>0 DEF InsertFails
<1>Sweep. ASSUME NEW u \in Uploads, Sweep(u) PROVE GoneFor(q)'
  BY <1>Sweep, <1>0 DEF Sweep
<1>BindRow. ASSUME NEW s \in Sends, NEW a \in Uploads, BindRow(s, a) PROVE GoneFor(q)'
  BY <1>BindRow, <1>0 DEF BindRow
<1>SendFails. ASSUME NEW s \in Sends, SendFails(s) PROVE GoneFor(q)'
  BY <1>SendFails, <1>0 DEF SendFails
<1>CommitSend. ASSUME NEW s \in Sends, CommitSend(s) PROVE GoneFor(q)'
  BY <1>CommitSend, <1>0 DEF CommitSend, ApplySend
<1>Age. ASSUME NEW a \in Uploads, Age(a) PROVE GoneFor(q)'
  BY <1>Age, <1>0 DEF Age
<1>BeginRead. ASSUME NEW r \in Readers, NEW a \in Uploads, BeginRead(r, a)
              PROVE GoneFor(q)'
  BY <1>BeginRead, <1>0 DEF BeginRead
<1>ReadCached. ASSUME NEW r \in Readers, ReadCached(r) PROVE GoneFor(q)'
  BY <1>ReadCached, <1>0 DEF ReadCached
<1>ReadOriginal. ASSUME NEW r \in Readers, ReadOriginal(r) PROVE GoneFor(q)'
  BY <1>ReadOriginal, <1>0 DEF ReadOriginal
<1>SaveExtraction. ASSUME NEW r \in Readers, SaveExtraction(r) PROVE GoneFor(q)'
  BY <1>SaveExtraction, <1>0 DEF SaveExtraction
<1>PutText. ASSUME NEW r \in Readers, PutText(r) PROVE GoneFor(q)'
  <2>1. /\ objects' = objects \cup {Text(target[r])} /\ UNCHANGED target
        /\ late' = IF Marking(target[r]) THEN late \cup {target[r]} ELSE late
        /\ pc' = [pc EXCEPT ![r] = "checking"]
    BY <1>PutText DEF PutText
  <2>2. pc'[q] = pc[q]
    BY <2>1, <1>0
  <2>3. pc[q] = "marking" /\ target[q] = target[r] => target[q] \in late'
    BY <2>1 DEF Marking
  <2> QED  BY <2>1, <2>2, <2>3, <1>0
<1>Recheck. ASSUME NEW r \in Readers, Recheck(r) PROVE GoneFor(q)'
  BY <1>Recheck, <1>0 DEF Recheck
<1>UndoText. ASSUME NEW r \in Readers, UndoText(r) PROVE GoneFor(q)'
  BY <1>UndoText, <1>0 DEF UndoText
<1>Deliver. ASSUME NEW r \in Readers, Deliver(r) PROVE GoneFor(q)'
  BY <1>Deliver, <1>0 DEF Deliver
<1>ReadFails. ASSUME NEW r \in Readers, ReadFails(r) PROVE GoneFor(q)'
  BY <1>ReadFails, <1>0 DEF ReadFails
<1>F. ASSUME \/ \E u \in Uploads : InsertAmbiguous(u)
             \/ \E p \in Deleters : DropFails(p)
             \/ Restart
      PROVE  FALSE
  BY <1>F DEF InsertAmbiguous, DropFails, Restart
<1>S. CASE UNCHANGED vars
  BY <1>S, <1>0
<1> QED
  BY <1>BeginUpload, <1>BeginRemoval, <1>BeginSend, <1>DropFile, <1>DropText,
     <1>Mark, <1>Expire, <1>SkipExpiry, <1>UploadRefused, <1>PutFile, <1>InsertRow,
     <1>InsertFails, <1>Sweep, <1>BindRow, <1>SendFails, <1>CommitSend, <1>Age,
     <1>BeginRead, <1>ReadCached, <1>ReadOriginal, <1>SaveExtraction, <1>PutText,
     <1>Recheck, <1>UndoText, <1>Deliver, <1>ReadFails, <1>F, <1>S DEF
     Next, Begin, Delete, Upload, Send, Read

\* An extraction is taken back by the reader that finds the row deleted.
LEMMA TextStep ==
    ASSUME IInv, Counted, Tidied, Quiet, Quiet', NEW b \in Uploads, [Next]_vars
    PROVE  TextKept(b)'
<1> USE RequestsAssumption, NoneAssumption DEF TextKept, Writing, Live, Types, AtRest, Dropping, Reading, Deleters,
        Requests, Go, Todo, Fault, Unlocked, vars, rows, request, bounds, history, Quiet, Counted
<1>0. /\ Locking /\ Claimed /\ Callers /\ Types /\ Inserts /\ TextKept(b)
      /\ \A x, y : File(x) # Text(y) /\ (File(x) = File(y) <=> x = y)
                    /\ (Text(x) = Text(y) <=> x = y)
  BY Named DEF IInv, Tidied
<1>BeginUpload. ASSUME NEW u \in Uploads, NEW t \in Threads \cup {None}, BeginUpload(u, t)
                PROVE TextKept(b)'
  BY <1>BeginUpload, <1>0 DEF BeginUpload
<1>BeginRemoval. ASSUME NEW d \in Removals, NEW a \in Uploads, BeginRemoval(d, a)
                 PROVE TextKept(b)'
  BY <1>BeginRemoval, <1>0 DEF BeginRemoval, BeginDrop
<1>BeginSend. ASSUME NEW s \in Sends, NEW t \in Threads, NEW S \in SUBSET Uploads, BeginSend(s, t, S)
              PROVE TextKept(b)'
  BY <1>BeginSend, <1>0 DEF BeginSend
<1>DropFile. ASSUME NEW p \in Deleters, DropFile(p) PROVE TextKept(b)'
  BY <1>DropFile, <1>0 DEF DropFile
<1>DropText. ASSUME NEW p \in Deleters, DropText(p) PROVE TextKept(b)'
  BY <1>DropText, <1>0 DEF DropText
<1>Mark. ASSUME NEW p \in Deleters, Mark(p) PROVE TextKept(b)'
  <2>1. /\ target[p] \in Uploads
        /\ target[p] \notin late => Text(target[p]) \notin objects
        /\ p \notin Readers
    BY <1>Mark, <1>0 DEF Mark, Locking, Locks, Tidied, GoneFor
  <2>2. /\ UNCHANGED <<late, target, objects>>
        /\ status' = [status EXCEPT ![target[p]] = "deleted"]
        /\ \A r \in Readers : pc'[r] = pc[r]
    BY <1>Mark, <2>1, <1>0 DEF Mark, Leave
  <2> QED  BY <2>1, <2>2, <1>0
<1>Expire. ASSUME NEW u \in Uploads, NEW a \in Uploads, Expire(u, a) PROVE TextKept(b)'
  BY <1>Expire, <1>0 DEF Expire, BeginDrop
<1>SkipExpiry. ASSUME NEW u \in Uploads, NEW a \in Uploads, SkipExpiry(u, a)
               PROVE TextKept(b)'
  BY <1>SkipExpiry, <1>0 DEF SkipExpiry
<1>UploadRefused. ASSUME NEW u \in Uploads, UploadRefused(u) PROVE TextKept(b)'
  BY <1>UploadRefused, <1>0 DEF UploadRefused
<1>PutFile. ASSUME NEW u \in Uploads, PutFile(u) PROVE TextKept(b)'
  BY <1>PutFile, <1>0 DEF PutFile
<1>InsertRow. ASSUME NEW u \in Uploads, InsertRow(u) PROVE TextKept(b)'
  <2>1. /\ UNCHANGED <<late, target, objects>> /\ status[u] = "absent"
        /\ status' = [status EXCEPT ![u] = "staged"]
        /\ \A r \in Readers : pc'[r] = pc[r]
    BY <1>InsertRow, <1>0 DEF InsertRow, ApplyInsert, Inserts, Fresh
  <2>2. CASE b = u
    BY <2>1, <2>2, <1>0
  <2>3. CASE b # u
    BY <2>1, <2>3, <1>0
  <2> QED  BY <2>2, <2>3
<1>InsertFails. ASSUME NEW u \in Uploads, InsertFails(u) PROVE TextKept(b)'
  BY <1>InsertFails, <1>0 DEF InsertFails
<1>Sweep. ASSUME NEW u \in Uploads, Sweep(u) PROVE TextKept(b)'
  BY <1>Sweep, <1>0 DEF Sweep
<1>BindRow. ASSUME NEW s \in Sends, NEW a \in Uploads, BindRow(s, a) PROVE TextKept(b)'
  BY <1>BindRow, <1>0 DEF BindRow
<1>SendFails. ASSUME NEW s \in Sends, SendFails(s) PROVE TextKept(b)'
  BY <1>SendFails, <1>0 DEF SendFails
<1>CommitSend. ASSUME NEW s \in Sends, CommitSend(s) PROVE TextKept(b)'
  BY <1>CommitSend, <1>0 DEF CommitSend, ApplySend
<1>Age. ASSUME NEW a \in Uploads, Age(a) PROVE TextKept(b)'
  BY <1>Age, <1>0 DEF Age
<1>BeginRead. ASSUME NEW r \in Readers, NEW a \in Uploads, BeginRead(r, a)
              PROVE TextKept(b)'
  BY <1>BeginRead, <1>0 DEF BeginRead
<1>ReadCached. ASSUME NEW r \in Readers, ReadCached(r) PROVE TextKept(b)'
  BY <1>ReadCached, <1>0 DEF ReadCached
<1>ReadOriginal. ASSUME NEW r \in Readers, ReadOriginal(r) PROVE TextKept(b)'
  BY <1>ReadOriginal, <1>0 DEF ReadOriginal
<1>SaveExtraction. ASSUME NEW r \in Readers, SaveExtraction(r) PROVE TextKept(b)'
  BY <1>SaveExtraction, <1>0 DEF SaveExtraction
<1>PutText. ASSUME NEW r \in Readers, PutText(r) PROVE TextKept(b)'
  <2>1. /\ objects' = objects \cup {Text(target[r])} /\ UNCHANGED <<target, status>>
        /\ late \subseteq late' /\ pc[r] = "putting" /\ pc' = [pc EXCEPT ![r] = "checking"]
    BY <1>PutText DEF PutText
  <2>2. \A x \in Readers : pc[x] \in {"checking", "undo"} => pc'[x] = pc[x]
    BY <2>1, <1>0
  <2>3. pc'[r] = "checking"
    BY <2>1, <1>0
  <2>4. Text(b) \in objects' /\ b \notin late' => status[b] = "bound" \/ Writing(b)'
    <3>1. CASE b = target[r]
      BY <2>1, <2>3, <3>1
    <3>2. CASE b # target[r]
      BY <2>1, <2>2, <3>2, <1>0
    <3> QED  BY <3>1, <3>2
  <2>5. \A x \in Readers : pc'[x] \in Reading => pc[x] \in Reading
    BY <2>1, <1>0
  <2> QED  BY <2>1, <2>4, <2>5, <1>0
<1>Recheck. ASSUME NEW r \in Readers, Recheck(r) PROVE TextKept(b)'
  <2>1. /\ UNCHANGED <<late, target, status, objects>> /\ pc[r] = "checking"
        /\ pc' = [pc EXCEPT ![r] = IF status[target[r]] = "bound" THEN "got" ELSE "undo"]
    BY <1>Recheck DEF Recheck, Bound
  <2>2. ASSUME Writing(b), status[b] # "bound" PROVE Writing(b)'
    <3>1. PICK x \in Readers : target[x] = b /\ pc[x] \in {"checking", "undo"}
      BY <2>2
    <3>2. pc'[x] \in {"checking", "undo"}
      <4>1. CASE x = r
        BY <2>1, <2>2, <3>1, <4>1, <1>0
      <4>2. CASE x # r
        BY <2>1, <3>1, <4>2, <1>0
      <4> QED  BY <4>1, <4>2
    <3> QED  BY <2>1, <3>1, <3>2
  <2>3. \A x \in Readers : pc'[x] \in Reading => pc[x] \in Reading
    BY <2>1, <1>0
  <2> QED  BY <2>1, <2>2, <2>3, <1>0
<1>UndoText. ASSUME NEW r \in Readers, UndoText(r) PROVE TextKept(b)'
  BY <1>UndoText, <1>0 DEF UndoText
<1>Deliver. ASSUME NEW r \in Readers, Deliver(r) PROVE TextKept(b)'
  BY <1>Deliver, <1>0 DEF Deliver
<1>ReadFails. ASSUME NEW r \in Readers, ReadFails(r) PROVE TextKept(b)'
  BY <1>ReadFails, <1>0 DEF ReadFails
<1>F. ASSUME \/ \E u \in Uploads : InsertAmbiguous(u)
             \/ \E p \in Deleters : DropFails(p)
             \/ Restart
      PROVE  FALSE
  BY <1>F DEF InsertAmbiguous, DropFails, Restart
<1>S. CASE UNCHANGED vars
  BY <1>S, <1>0
<1> QED
  BY <1>BeginUpload, <1>BeginRemoval, <1>BeginSend, <1>DropFile, <1>DropText,
     <1>Mark, <1>Expire, <1>SkipExpiry, <1>UploadRefused, <1>PutFile, <1>InsertRow,
     <1>InsertFails, <1>Sweep, <1>BindRow, <1>SendFails, <1>CommitSend, <1>Age,
     <1>BeginRead, <1>ReadCached, <1>ReadOriginal, <1>SaveExtraction, <1>PutText,
     <1>Recheck, <1>UndoText, <1>Deliver, <1>ReadFails, <1>F, <1>S DEF
     Next, Begin, Delete, Upload, Send, Read

\* The failures are counted.
LEMMA CountedStep ==
    ASSUME IInv, Counted, [Next]_vars
    PROVE  Counted' /\ (Quiet' => Quiet /\ torn' = torn)
<1> USE DEF Counted, Fault, Types, Callers, vars, rows, request, bounds, history, Quiet
<1>1. ASSUME Begin \/ (\E a \in Uploads : Age(a))
      PROVE  UNCHANGED <<bounds, late, torn>>
  BY <1>1 DEF Begin, BeginUpload, BeginRemoval, BeginDrop, BeginSend, BeginRead, Age
<1>2. ASSUME NEW p \in Deleters, Delete(p) \/ DropFails(p)
      PROVE  /\ late' = late /\ crashes' = crashes
             /\ \/ faults' = faults /\ torn' = torn
                \/ faults' = faults + 1
  BY <1>2 DEF Delete, DropFile, DropText, Mark, DropFails
<1>3. ASSUME NEW u \in Uploads, Upload(u)
      PROVE  /\ late' = late /\ crashes' = crashes
             /\ \/ faults' = faults /\ torn' = torn
                \/ faults' = faults + 1
  BY <1>3 DEF Upload, Expire, SkipExpiry, BeginDrop, UploadRefused, PutFile, InsertRow,
     InsertFails, InsertAmbiguous, Sweep
<1>4. ASSUME NEW s \in Sends, Send(s)
      PROVE  /\ late' = late /\ crashes' = crashes
             /\ \/ faults' = faults /\ torn' = torn
                \/ faults' = faults + 1
  BY <1>4 DEF Send, BindRow, SendFails, CommitSend
<1>5. ASSUME NEW r \in Readers, Read(r)
      PROVE  /\ late' \in SUBSET Uploads /\ crashes' = crashes /\ torn' = torn
             /\ faults' = faults \/ faults' = faults + 1
  <2>1. CASE PutText(r)
    BY <1>5, <2>1 DEF PutText, Reading, IInv
  <2> QED  BY <1>5, <2>1 DEF Read, ReadCached, ReadOriginal, SaveExtraction, Recheck, UndoText,
              Deliver, ReadFails
<1>6. ASSUME Restart PROVE faults' = faults /\ crashes' = crashes + 1 /\ late' = late
  BY <1>6 DEF Restart
<1> QED  BY <1>1, <1>2, <1>3, <1>4, <1>5, <1>6 DEF Next

LEMMA TidyStep ==
    ASSUME IInv, Tidy, [Next]_vars
    PROVE  Tidy'
<1>1. Counted /\ Counted' /\ (Quiet' => Quiet /\ torn' = torn)
  BY CountedStep DEF Tidy
<1>2. ASSUME Quiet' PROVE Tidied'
  <2>1. Quiet /\ Tidied
    BY <1>1, <1>2 DEF Tidy
  <2>2. \A b \in Uploads : FileKept(b)' /\ TextKept(b)'
    BY <1>1, <1>2, <2>1, FileStep, TextStep
  <2>3. \A p \in Deleters : GoneFor(p)'
    BY <1>1, <1>2, <2>1, GoneStep
  <2> QED  BY <1>1, <1>2, <2>1, <2>2, <2>3 DEF Tidied
<1> QED  BY <1>1, <1>2 DEF Tidy

-----------------------------------------------------------------------------

LedgerInv == IInv /\ Account /\ Tidy

LEMMA LedgerInit == Init => LedgerInv
<1> SUFFICES ASSUME Init PROVE LedgerInv
  OBVIOUS
<1>1. IInv
  BY InitInvariant
<1>2. Live = {}
  BY DEF Init, Live
<1>3. Account
  BY <1>2, BytesNone, FS_EmptySet, SizesAssumption DEF Init, Account, LedgerMatchesRows
<1>4. Tidy
  BY RequestsAssumption DEF Init, Tidy, Counted, Tidied, FileKept, TextKept, GoneFor, Requests, Deleters, Reading
<1> QED  BY <1>1, <1>3, <1>4 DEF LedgerInv

LEMMA LedgerStep == LedgerInv /\ [Next]_vars => LedgerInv'
BY StepInvariant, AccountStep, TidyStep DEF LedgerInv

\* The account, the live rows and the store agree, for any number of uploads,
\* removals, messages, readers, failures and restarts.
THEOREM LedgerInvariant == Spec => []LedgerInv
BY LedgerInit, LedgerStep, PTL DEF Spec

\* The type invariant: in particular the account stays within the quota.
THEOREM TypesHold == Spec => []TypeOK
<1>1. LedgerInv => TypeOK
  BY SizesAssumption DEF LedgerInv, IInv, Types, Account, Tidy, Counted, TypeOK
<1> QED  BY <1>1, LedgerInvariant, PTL

\* The quota is charged for the live attachments: each is released once, by
\* whichever request deletes it.
THEOREM LedgerIsRows == Spec => []LedgerMatchesRows
<1>1. LedgerInv => LedgerMatchesRows
  BY DEF LedgerInv, Account
<1> QED  BY <1>1, LedgerInvariant, PTL

\* When nothing failed and nothing is in flight, the store holds the bytes of
\* the live rows and extractions of bound ones, and no others, but for an
\* extraction written while its deletion was about to commit.
THEOREM StoreIsRows == Spec => []StoreMatchesRows
<1>1. LedgerInv => StoreMatchesRows
  <2> SUFFICES ASSUME LedgerInv, Settled
               PROVE  /\ \A a \in Uploads : File(a) \in objects <=> a \in Live
                      /\ \A a \in Uploads \ late : Text(a) \in objects => status[a] = "bound"
    BY DEF StoreMatchesRows
  <2>1. Tidied /\ IInv
    BY DEF LedgerInv, Tidy, Settled, Quiet
  <2>2. \A p \in Requests : pc[p] \in {"idle", "done", "failed"}
    BY DEF Settled, AtRest
  <2>3. Uploads \subseteq Requests /\ Readers \subseteq Requests /\ Deleters \subseteq Requests
    BY DEF Requests, Deleters
  <2>4. lock = None
    BY <2>1, <2>2, <2>3 DEF IInv, Types, Locking, Locks, Dropping
  <2>5. ASSUME NEW a \in Uploads
        PROVE  /\ File(a) \in objects <=> a \in Live
               /\ a \notin late /\ Text(a) \in objects => status[a] = "bound"
    BY <2>1, <2>2, <2>3, <2>4 DEF Tidied, FileKept, TextKept, Writing, IInv, LiveHaveBytes
  <2> QED  BY <2>5
<1> QED  BY <1>1, LedgerInvariant, PTL
=============================================================================
