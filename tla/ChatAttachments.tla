-------------------------- MODULE ChatAttachments ---------------------------
(***************************************************************************)
(* The files a user attaches to his chats in one workspace                 *)
(* (apps/api/src/chat-attachments/service.ts, extraction.ts).              *)
(*                                                                         *)
(* An upload puts the bytes and then inserts a staged row; the message     *)
(* that is sent with it binds the row, inside the transaction that creates *)
(* the message; a removal, or the expiry every upload starts with, deletes *)
(* the bytes and then marks the row, holding the workspace's row.  Binding *)
(* does not take that lock: it meets a deletion only at the attachment's   *)
(* own row.  An extraction is written beside the bytes and checked after.  *)
(*                                                                         *)
(* An attachment is named after its upload.  A request runs once, but for   *)
(* a reader, which asks again until it fails.                              *)
(***************************************************************************)
EXTENDS Integers, FiniteSets, FiniteSetsExt

CONSTANTS
    Uploads, Removals, Sends, Readers,   \* requests
    Threads,      \* the chats of the workspace
    None,
    Size,         \* bytes of each upload
    Quota,        \* STORAGE_QUOTA_BYTES
    MaxFailures   \* bound of the failing calls and restarts, for TLC

Deleters == Uploads \cup Removals
Requests == Deleters \cup Sends \cup Readers

ASSUME RequestsAssumption ==
    /\ Uploads \cap Removals = {} /\ Deleters \cap Sends = {}
    /\ (Deleters \cup Sends) \cap Readers = {}
ASSUME SizesAssumption == Size \in [Uploads -> Nat \ {0}] /\ Quota \in Nat
ASSUME NoneAssumption == None \notin Requests \cup Threads
ASSUME BoundsAssumption == MaxFailures \in Nat

VARIABLES
    (* the database *)
    status, thread,   \* columns of chat_attachment
    used,             \* user_storage_account.used_bytes
    sent,             \* the sends whose message is committed
    lock,             \* who holds the workspace's row (select .. for update)
    held,             \* rows updated by the send that has not committed
    (* the object store *)
    objects,
    (* requests *)
    pc,
    target,           \* the attachment a request works on
    ids, chat,        \* attachmentIds and threadId of a send
    todo,             \* rows still to expire, or to bind
    (* bounds and history *)
    old,              \* created before now - STAGED_ATTACHMENT_TTL_MS
    faults, crashes,
    torn,     \* a failed request left the row without its bytes
    raced,    \* bound while their expiry was under way
    late      \* extracted between the deletion of the objects and its commit

rows    == <<status, thread, used, sent>>
request == <<target, ids, chat>>
bounds  == <<faults, crashes>>
history == <<torn, raced, late>>
vars == <<rows, lock, held, objects, pc, request, todo, old, bounds, history>>

File(a) == <<a, "file">>
Text(a) == <<a, "text">>     \* <storageKey>/extraction.json
Live == {a \in Uploads : status[a] \in {"staged", "bound"}}

\* The bytes of S, counted one by one: the sum of their sizes.
Cells(S) == UNION {{a} \X (1 .. Size[a]) : a \in S}
Bytes(S) == Cardinality(Cells(S))

AtRest == {"idle", "done", "failed"}
Pcs == AtRest \cup
       {"expiring", "stored", "sweep", "dropFile", "dropText", "marking",
        "binding", "reading", "extracted", "putting", "checking", "undo", "got"}

TypeOK ==
    /\ status \in [Uploads -> {"absent", "staged", "bound", "deleted"}]
    /\ thread \in [Uploads -> Threads \cup {None}]
    /\ used \in 0 .. Quota
    /\ sent \in SUBSET Sends
    /\ lock \in Deleters \cup {None}
    /\ held \in SUBSET Uploads
    /\ objects \in SUBSET (Uploads \X {"file", "text"})
    /\ pc \in [Requests -> Pcs]
    /\ target \in [Requests -> Uploads \cup {None}]
    /\ ids \in [Sends -> SUBSET Uploads] /\ chat \in [Sends -> Threads \cup {None}]
    /\ todo \in [Requests -> SUBSET Uploads]
    /\ old \in SUBSET Uploads
    /\ faults \in Nat /\ crashes \in Nat
    /\ torn \in SUBSET Uploads /\ raced \in SUBSET Uploads /\ late \in SUBSET Uploads

Init ==
    /\ status = [a \in Uploads |-> "absent"] /\ thread = [a \in Uploads |-> None]
    /\ used = 0 /\ sent = {}
    /\ lock = None /\ held = {}
    /\ objects = {}
    /\ pc = [p \in Requests |-> "idle"]
    /\ target = [p \in Requests |-> None]
    /\ ids = [s \in Sends |-> {}] /\ chat = [s \in Sends |-> None]
    /\ todo = [p \in Requests |-> {}]
    /\ old = {}
    /\ faults = 0 /\ crashes = 0
    /\ torn = {} /\ raced = {} /\ late = {}

Go(p, l) == pc' = [pc EXCEPT ![p] = l]
Todo(p, S) == todo' = [todo EXCEPT ![p] = S]
MayFail == faults + crashes < MaxFailures
Fault == MayFail /\ faults' = faults + 1
Unlocked == lock = None
-----------------------------------------------------------------------------
(* Deleting: remove, expireStaged, markDeleted                             *)

BeginDrop(p, a) ==
    /\ lock' = p
    /\ target' = [target EXCEPT ![p] = a]
    /\ Go(p, "dropFile")
    /\ UNCHANGED <<rows, held, objects, ids, chat, todo, old, bounds, history>>

\* Anything but a live row is a 404, which changes nothing.
BeginRemoval(d, a) ==
    /\ pc[d] = "idle" /\ Unlocked
    /\ status[a] \in {"staged", "bound"}
    /\ BeginDrop(d, a)

\* The candidates were read before the lock: only a row that is still staged
\* is expired.
ExpireUnread(u, a) ==                                              \* mutant
    /\ pc[u] = "expiring" /\ a \in todo[u] /\ Unlocked
    /\ BeginDrop(u, a)
Expire(u, a) ==
    /\ pc[u] = "expiring" /\ a \in todo[u] /\ Unlocked
    /\ status[a] = "staged"
    /\ BeginDrop(u, a)

SkipExpiry(u, a) ==
    /\ pc[u] = "expiring" /\ a \in todo[u] /\ Unlocked
    /\ status[a] # "staged"
    /\ Todo(u, todo[u] \ {a})
    /\ UNCHANGED <<rows, lock, held, objects, pc, request, old, bounds, history>>

\* A missing object is not an error.
DropFile(p) ==
    /\ pc[p] = "dropFile"
    /\ objects' = objects \ {File(target[p])}
    /\ Go(p, "dropText")
    /\ UNCHANGED <<rows, lock, held, request, todo, old, bounds, history>>

DropText(p) ==
    /\ pc[p] = "dropText"
    /\ objects' = objects \ {Text(target[p])}
    /\ Go(p, "marking")
    /\ UNCHANGED <<rows, lock, held, request, todo, old, bounds, history>>

\* An upload goes on with its next candidate.
Leave(p, l) ==
    /\ lock' = None
    /\ Go(p, IF p \in Uploads THEN "expiring" ELSE l)

\* The update is by id: it waits for a send that holds the row, and then
\* overwrites what that send wrote.
Mark(p) ==
    /\ pc[p] = "marking"
    /\ target[p] \notin held
    /\ status' = [status EXCEPT ![target[p]] = "deleted"]
    /\ used' = Max({0, used - Size[target[p]]})
    /\ \/ Leave(p, "done") /\ Todo(p, todo[p] \ {target[p]}) /\ UNCHANGED faults
       \/ Fault /\ Leave(p, "failed") /\ Todo(p, {})          \* committed, its reply lost
    /\ UNCHANGED <<thread, sent, held, objects, request, old, crashes, history>>

\* A deletion or a query fails and the transaction rolls back; an upload
\* reports the failed expiry and goes on.
DropFails(p) ==
    /\ pc[p] \in {"dropFile", "dropText", "marking"}
    /\ Fault
    /\ torn' = torn \cup {target[p]}
    /\ Leave(p, "failed") /\ Todo(p, {})
    /\ \/ UNCHANGED objects
       \/ pc[p] = "dropFile" /\ objects' = objects \ {File(target[p])}
       \/ pc[p] = "dropText" /\ objects' = objects \ {Text(target[p])}
    /\ UNCHANGED <<rows, held, request, old, crashes, raced, late>>
-----------------------------------------------------------------------------
(* upload                                                                  *)

BeginUpload(u, t) ==
    /\ pc[u] = "idle"
    /\ thread' = [thread EXCEPT ![u] = t]
    /\ Todo(u, {a \in old : status[a] = "staged"})
    /\ Go(u, "expiring")
    /\ UNCHANGED <<status, used, sent, lock, held, objects, request, old, bounds, history>>

\* Too large, of no supported kind, or for a chat that is not the user's.
UploadRefused(u) ==
    /\ pc[u] = "expiring" /\ todo[u] = {}
    /\ Go(u, "failed")
    /\ UNCHANGED <<rows, lock, held, objects, request, todo, old, bounds, history>>

PutFile(u) ==
    /\ pc[u] = "expiring" /\ todo[u] = {}
    /\ \/ Go(u, "stored") /\ objects' = objects \cup {File(u)} /\ UNCHANGED faults
       \/ Fault /\ Go(u, "sweep") /\ objects' \in {objects, objects \cup {File(u)}}
    /\ UNCHANGED <<rows, lock, held, request, todo, old, crashes, history>>

Fits(u) == used + Size[u] =< Quota

ApplyInsert(u) ==
    /\ Fits(u)
    /\ used' = used + Size[u]
    /\ status' = [status EXCEPT ![u] = "staged"]

InsertRowSweeps(u) ==                                              \* mutant
    /\ pc[u] = "stored" /\ Unlocked
    /\ ApplyInsert(u)
    /\ Go(u, "sweep")
    /\ UNCHANGED <<thread, sent, lock, held, objects, request, todo, old, bounds, history>>
InsertRow(u) ==
    /\ pc[u] = "stored" /\ Unlocked
    /\ ApplyInsert(u)
    /\ Go(u, "done")
    /\ UNCHANGED <<thread, sent, lock, held, objects, request, todo, old, bounds, history>>

InsertFailsRefunds(u) ==                                           \* mutant
    /\ pc[u] = "stored" /\ Unlocked
    /\ (~ Fits(u) /\ UNCHANGED faults) \/ Fault
    /\ used' = Max({0, used - Size[u]})
    /\ Go(u, "sweep")
    /\ UNCHANGED <<status, thread, sent, lock, held, objects, request, todo, old, crashes, history>>
InsertFails(u) ==
    /\ pc[u] = "stored" /\ Unlocked
    /\ (~ Fits(u) /\ UNCHANGED faults) \/ Fault
    /\ Go(u, "sweep")
    /\ UNCHANGED <<rows, lock, held, objects, request, todo, old, crashes, history>>

\* The row is committed and its reply lost: the catch block deletes the bytes.
InsertAmbiguous(u) ==
    /\ pc[u] = "stored" /\ Unlocked
    /\ Fault
    /\ ApplyInsert(u)
    /\ torn' = torn \cup {u}
    /\ Go(u, "sweep")
    /\ UNCHANGED <<thread, sent, lock, held, objects, request, todo, old, crashes, raced, late>>

Sweep(u) ==
    /\ pc[u] = "sweep"
    /\ \/ objects' = objects \ {File(u)} /\ UNCHANGED faults
       \/ Fault /\ UNCHANGED objects
    /\ Go(u, "failed")
    /\ UNCHANGED <<rows, lock, held, request, todo, old, crashes, history>>
-----------------------------------------------------------------------------
(* bindToMessage, inside the transaction that creates the message          *)

\* What the rows must be when they are read; otherwise the send is refused
\* before it changes anything.
Sendable(a, t) ==
    \/ status[a] = "staged" /\ thread[a] \in {None, t}
    \/ status[a] = "bound" /\ thread[a] = t

\* The user's other sends wait for, or are refused by, his execution lease.
BeginSend(s, t, S) ==
    /\ pc[s] = "idle" /\ \A r \in Sends : pc[r] \in AtRest
    /\ S # {} /\ \A a \in S : Sendable(a, t)
    /\ ids' = [ids EXCEPT ![s] = S]
    /\ chat' = [chat EXCEPT ![s] = t]
    /\ Todo(s, {a \in S : status[a] = "staged"})
    /\ Go(s, "binding")
    /\ UNCHANGED <<rows, lock, held, objects, target, old, bounds, history>>

BindRow(s, a) ==
    /\ pc[s] = "binding" /\ a \in todo[s]
    /\ status[a] = "staged"
    /\ held' = held \cup {a}
    /\ Todo(s, todo[s] \ {a})
    /\ UNCHANGED <<rows, lock, objects, pc, request, old, bounds, history>>

\* ATTACHMENT_NOT_READY, or a failing query: the message is not created.
SendFails(s) ==
    /\ pc[s] = "binding"
    /\ \/ (\E a \in todo[s] : status[a] # "staged") /\ UNCHANGED faults
       \/ Fault
    /\ held' = {}
    /\ Todo(s, {})
    /\ Go(s, "failed")
    /\ UNCHANGED <<rows, lock, objects, request, old, crashes, history>>

ApplySend(s) ==
    /\ status' = [a \in Uploads |-> IF a \in held THEN "bound" ELSE status[a]]
    /\ thread' = [a \in Uploads |-> IF a \in held THEN chat[s] ELSE thread[a]]
    /\ sent' = sent \cup {s}
    /\ held' = {}
    /\ raced' = IF lock \in Uploads THEN raced \cup (held \cap {target[lock]}) ELSE raced

CommitSendLocks(s) ==                                              \* mutant
    /\ pc[s] = "binding" /\ todo[s] = {} /\ Unlocked
    /\ ApplySend(s)
    /\ \/ Go(s, "done") /\ UNCHANGED faults
       \/ Fault /\ Go(s, "failed")
    /\ UNCHANGED <<used, lock, objects, request, todo, old, crashes, torn, late>>
CommitSend(s) ==
    /\ pc[s] = "binding" /\ todo[s] = {}
    /\ ApplySend(s)
    /\ \/ Go(s, "done") /\ UNCHANGED faults
       \/ Fault /\ Go(s, "failed")              \* committed, its reply lost
    /\ UNCHANGED <<used, lock, objects, request, todo, old, crashes, torn, late>>
-----------------------------------------------------------------------------
(* Extraction.  The reader's chat is the attachment's, so that getBound    *)
(* fails only when the attachment is no longer bound.                      *)

Bound(r) == status[target[r]] = "bound"

BeginRead(r, a) ==
    /\ pc[r] = "idle" /\ status[a] = "bound"
    /\ target' = [target EXCEPT ![r] = a]
    /\ Go(r, "reading")
    /\ UNCHANGED <<rows, lock, held, objects, ids, chat, todo, old, bounds, history>>

\* readExtraction
ReadCached(r) ==
    /\ pc[r] = "reading" /\ Bound(r)
    /\ Text(target[r]) \in objects
    /\ Go(r, "got")
    /\ UNCHANGED <<rows, lock, held, objects, request, todo, old, bounds, history>>

\* Nothing is cached, or what is cached is obsolete, or a page is to be rendered:
\* the original bytes, and a worker.
ReadOriginal(r) ==
    /\ pc[r] = "reading" /\ Bound(r)
    /\ File(target[r]) \in objects
    /\ Go(r, "extracted")
    /\ UNCHANGED <<rows, lock, held, objects, request, todo, old, bounds, history>>

SaveExtraction(r) ==
    /\ pc[r] = "extracted" /\ Bound(r)
    /\ Go(r, "putting")
    /\ UNCHANGED <<rows, lock, held, objects, request, todo, old, bounds, history>>

Marking(a) == \E p \in Deleters : pc[p] = "marking" /\ target[p] = a

PutText(r) ==
    /\ pc[r] = "putting"
    /\ \/ Go(r, "checking") /\ objects' = objects \cup {Text(target[r])} /\ UNCHANGED faults
       \/ Fault /\ Go(r, "failed") /\ objects' \in {objects, objects \cup {Text(target[r])}}
    /\ late' = IF Marking(target[r]) THEN late \cup {target[r]} ELSE late
    /\ UNCHANGED <<rows, lock, held, request, todo, old, crashes, torn, raced>>

RecheckSkipped(r) ==                                               \* mutant
    /\ pc[r] = "checking"
    /\ Go(r, "got")
    /\ UNCHANGED <<rows, lock, held, objects, request, todo, old, bounds, history>>
Recheck(r) ==
    /\ pc[r] = "checking"
    /\ Go(r, IF Bound(r) THEN "got" ELSE "undo")
    /\ UNCHANGED <<rows, lock, held, objects, request, todo, old, bounds, history>>

UndoText(r) ==
    /\ pc[r] = "undo"
    /\ \/ objects' = objects \ {Text(target[r])} /\ UNCHANGED faults
       \/ Fault /\ UNCHANGED objects
    /\ Go(r, "failed")
    /\ UNCHANGED <<rows, lock, held, request, todo, old, crashes, history>>

\* get() looks at the row once more before it returns; a reader may ask again.
Deliver(r) ==
    /\ pc[r] = "got" /\ Bound(r)
    /\ Go(r, "idle")
    /\ UNCHANGED <<rows, lock, held, objects, request, todo, old, bounds, history>>

\* No longer bound, its bytes are missing, or a query, the storage or the
\* worker fails.
ReadFails(r) ==
    /\ pc[r] \in {"reading", "extracted", "got"}
    /\ Go(r, "failed")
    /\ \/ ~ Bound(r) /\ UNCHANGED faults
       \/ pc[r] = "reading" /\ File(target[r]) \notin objects /\ UNCHANGED faults
       \/ Fault
    /\ UNCHANGED <<rows, lock, held, objects, request, todo, old, crashes, history>>
-----------------------------------------------------------------------------
Age(a) ==
    /\ status[a] = "staged" /\ a \notin old
    /\ old' = old \cup {a}
    /\ UNCHANGED <<rows, lock, held, objects, pc, request, todo, bounds, history>>

\* Open transactions roll back; what they had deleted does not come back.
Restart ==
    /\ MayFail
    /\ crashes' = crashes + 1
    /\ pc' = [p \in Requests |-> IF pc[p] \in AtRest THEN pc[p] ELSE "failed"]
    /\ torn' = IF lock = None THEN torn ELSE torn \cup {target[lock]}
    /\ lock' = None /\ held' = {}
    /\ todo' = [p \in Requests |-> {}]
    /\ UNCHANGED <<rows, objects, request, old, faults, raced, late>>

Begin ==
    \/ \E u \in Uploads, t \in Threads \cup {None} : BeginUpload(u, t)
    \/ \E d \in Removals, a \in Uploads : BeginRemoval(d, a)
    \/ \E s \in Sends, t \in Threads, S \in SUBSET Uploads : BeginSend(s, t, S)
    \/ \E r \in Readers, a \in Uploads : BeginRead(r, a)

Delete(p) == DropFile(p) \/ DropText(p) \/ Mark(p)
Upload(u) ==
    \/ \E a \in Uploads : Expire(u, a) \/ SkipExpiry(u, a)
    \/ UploadRefused(u) \/ PutFile(u) \/ InsertRow(u) \/ InsertFails(u)
    \/ InsertAmbiguous(u) \/ Sweep(u)
Send(s) == (\E a \in Uploads : BindRow(s, a)) \/ SendFails(s) \/ CommitSend(s)
Read(r) ==
    \/ ReadCached(r) \/ ReadOriginal(r) \/ SaveExtraction(r) \/ PutText(r) \/ Recheck(r)
    \/ UndoText(r) \/ Deliver(r) \/ ReadFails(r)

Next ==
    \/ Begin
    \/ (\E p \in Deleters : Delete(p) \/ DropFails(p)) \/ (\E u \in Uploads : Upload(u))
    \/ (\E s \in Sends : Send(s)) \/ (\E r \in Readers : Read(r))
    \/ (\E a \in Uploads : Age(a)) \/ Restart

Spec == Init /\ [][Next]_vars

\* Queries and storage calls answer or fail, and a request that waits for a
\* row is served once the row is free; no failure is counted on to end a wait.
FairSpec ==
    /\ Spec
    /\ \A p \in Deleters : WF_vars(Delete(p))
    /\ \A u \in Uploads : WF_vars(Upload(u))
    /\ \A s \in Sends : WF_vars(Send(s))
    /\ \A r \in Readers : WF_vars(Read(r))
-----------------------------------------------------------------------------
(* A row that is not deleted has its bytes, unless the request that is     *)
(* deleting it has not committed, or one failed half-way.                  *)
LiveHaveBytes ==
    \A a \in Live \ torn : File(a) \in objects \/ (lock # None /\ target[lock] = a)

\* The quota is charged for the rows that are not deleted: an attachment that
\* is removed, expired by several uploads and sent is released once.
LedgerMatchesRows == used = Bytes(Live)

\* A deleted attachment never comes back, whatever was reading its row when it
\* was deleted (bindToMessage, "where status = staged").
DeletedIsFinal ==
    [][\A a \in Uploads : status[a] = "deleted" => status'[a] = "deleted"]_vars

\* The attachments of a message are bound to its chat until a removal is asked
\* for; excepted are those whose expiry had begun when they were sent.
Removed == {target[d] : d \in Removals}
SentAttachmentsStay ==
    \A s \in sent : \A a \in ids[s] :
        /\ thread[a] = chat[s]
        /\ status[a] = "bound" \/ a \in Removed \/ a \in raced

\* When nothing failed and nothing is in flight, the store holds the bytes of
\* the live rows and the extractions of bound ones, and no others; excepted is
\* an extraction written while its deletion was about to commit.
Settled == faults = 0 /\ crashes = 0 /\ \A p \in Requests : pc[p] \in AtRest
StoreMatchesRows ==
    Settled =>
        /\ \A a \in Uploads : File(a) \in objects <=> a \in Live
        /\ \A a \in Uploads \ late : Text(a) \in objects => status[a] = "bound"

\* No request waits for ever: binding and deleting take the workspace's row and
\* the attachment's row in orders that cannot block each other.
RequestsEnd == \A p \in Requests : pc[p] \notin AtRest ~> pc[p] \in AtRest

=============================================================================
