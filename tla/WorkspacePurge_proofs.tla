----------------------- MODULE WorkspacePurge_proofs -----------------------
(***************************************************************************)
(* What the row locks of WorkspacePurge protect, for any number of         *)
(* uploads, appends and purges: the rows of a workspace out of the trash   *)
(* have their objects, and a purge that went through leaves nothing.       *)
(***************************************************************************)
EXTENDS WorkspacePurge, FiniteSetTheorems, TLAPS

Owning   == {"reading", "deleting", "charging", "committing"}
Deleting == {"deleting", "charging", "committing"}
Writing  == {"locking", "charging", "touching", "committing"}
Charging == {"charging", "touching", "committing"}

\* A deleter never stores, a writer never deletes.
PcOK ==
    /\ \A d \in Deleters : pc[d] \in Owning \cup {"idle", "locking", "done", "failed"}
    /\ \A w \in Writers :
           pc[w] \in Writing \cup {"idle", "checked", "sweeping", "done", "failed"}

\* A row is locked by one operation.
Exclusion == \A o, p \in Ops : o # p => held[o] \cap held[p] = {}

\* Which rows an operation has locked where, and that what it saw of them
\* still holds.
PurgesLock ==
    \A p \in Purges :
        /\ pc[p] \in Owning => "workspace" \in held[p] /\ workspace = "trashed"
        /\ pc[p] \in Deleting => "document" \in held[p]

DocPurgesLock ==
    \A q \in DocPurges :
        /\ pc[q] \in Owning => "document" \in held[q] /\ document = "trashed"
        /\ pc[q] \in Deleting => "workspace" \in held[q]

WritersLock ==
    /\ \A a \in Appends : pc[a] \in Charging => "document" \in held[a]
    /\ \A w \in Writers :
           pc[w] = "committing" => "workspace" \in held[w] /\ workspace # "gone"

\* A purge's byte set stays what the rows say, and of it exactly what is still
\* to do may have an object.
Plans ==
    \A d \in Deleters :
        pc[d] \in Deleting =>
            /\ doomed[d] = IF d \in Purges THEN versions ELSE versions \ Creates
            /\ todo[d] \subseteq doomed[d]
            /\ pc[d] # "deleting" => todo[d] = {}
            /\ objects \cap doomed[d] \subseteq todo[d]

\* A writer's object is there when its row is inserted.
Uploads ==
    \A w \in Writers :
        /\ pc[w] \in Writing => w \in objects
        /\ w \in versions => pc[w] = "done"

\* A row without its object is torn or is being purged.
Missing ==
    \A v \in versions \ (torn \cup objects) :
        \E d \in Deleters : pc[d] \in Deleting /\ v \in doomed[d]

\* An object without its row is on its way in, or its clean-up failed.
Strays ==
    \A v \in objects :
        \/ v \in versions \cup excused
        \/ v \in Writers /\ pc[v] \in Writing \cup {"sweeping"}

\* The ledger counts the rows; a workspace that is gone has none.
Ledger ==
    /\ used = Cardinality(versions)
    /\ workspace = "gone" => versions = {}

IInv ==
    /\ TypeOK /\ PcOK /\ Exclusion
    /\ PurgesLock /\ DocPurgesLock /\ WritersLock
    /\ Plans /\ Uploads /\ Missing /\ Strays /\ Ledger

LEMMA VersionsFinite == \A S \in SUBSET Versions : IsFiniteSet(S)
<1>1. IsFiniteSet(Versions)
  BY NamesAssumption, FS_AddElement DEF Versions
<1> QED  BY <1>1, FS_Subset

LEMMA MaxOfNat == \A n \in Nat : Max({0, n}) = n
BY DEF Max

LEMMA InitIInv == Init => IInv
<1> SUFFICES ASSUME Init PROVE IInv
  OBVIOUS
<1>1. TypeOK /\ PcOK /\ Exclusion
  BY NamesAssumption, BoundsAssumption DEF Init, TypeOK, PcOK, Exclusion, Versions, Pcs, Owning, Writing, Ops
<1>2. PurgesLock /\ DocPurgesLock /\ WritersLock
  BY DEF Init, PurgesLock, DocPurgesLock, WritersLock, Owning, Deleting, Charging, Ops, Writers, Deleters
<1>3. Plans /\ Uploads /\ Missing /\ Strays
  BY NamesAssumption DEF Init, Plans, Uploads, Missing, Strays, Deleting, Writing, Ops
<1>4. Ledger
  BY FS_Singleton DEF Init, Ledger
<1> QED  BY <1>1, <1>2, <1>3, <1>4 DEF IInv

-----------------------------------------------------------------------------
(* One lemma per action.                                                    *)

LEMMA ToggleKeeps ==
  ASSUME IInv, Toggle PROVE IInv'
<1>1. TypeOK'
  BY NamesAssumption, BoundsAssumption DEF IInv, TypeOK, PcOK, Pcs, Rows, Versions, Toggle, Go, data, plan, ghosts, Owning, Deleting, Writing, Charging, Writers, Deleters, Ops
<1>p. PcOK'
  BY NamesAssumption DEF IInv, TypeOK, PcOK, Toggle, Go, data, plan, ghosts, Owning, Deleting, Writing, Charging, Writers, Deleters, Ops
<1>2. Exclusion'
  BY NamesAssumption DEF IInv, Exclusion, TypeOK, Toggle, Go, data, plan, ghosts, Owning, Deleting, Writing, Charging, Writers, Deleters, Ops
<1>3. (PurgesLock /\ DocPurgesLock)'
  BY NamesAssumption DEF IInv, PurgesLock, DocPurgesLock, Exclusion, PcOK, TypeOK, Toggle, Go, data, plan, ghosts, Owning, Deleting, Writing, Charging, Writers, Deleters, Ops
<1>4. WritersLock'
  BY NamesAssumption DEF IInv, WritersLock, Exclusion, PcOK, TypeOK, Toggle, Go, data, plan, ghosts, Owning, Deleting, Writing, Charging, Writers, Deleters, Ops
<1>5. Plans'
  <2> SUFFICES ASSUME NEW d \in Deleters, pc'[d] \in Deleting
               PROVE  /\ doomed'[d] = IF d \in Purges THEN versions' ELSE versions' \ Creates
                      /\ todo'[d] \subseteq doomed'[d]
                      /\ pc'[d] # "deleting" => todo'[d] = {}
                      /\ objects' \cap doomed'[d] \subseteq todo'[d]
    BY DEF Plans
  <2> QED
    BY NamesAssumption DEF IInv, Plans, PcOK, TypeOK, Toggle, Go, data, plan, ghosts, Owning, Deleting, Writing, Charging, Writers, Deleters, Ops
<1>6. Uploads'
  BY NamesAssumption DEF IInv, Uploads, PcOK, TypeOK, Toggle, Go, data, plan, ghosts, Owning, Deleting, Writing, Charging, Writers, Deleters, Ops
<1>7. Missing'
  <2> SUFFICES ASSUME NEW v \in versions', v \notin torn', v \notin objects'
               PROVE  \E d \in Deleters : pc'[d] \in Deleting /\ v \in doomed'[d]
    BY DEF Missing
  <2> QED
    BY NamesAssumption DEF IInv, Missing, PcOK, TypeOK, Toggle, Go, data, plan, ghosts, Owning, Deleting, Writing, Charging, Writers, Deleters, Ops
<1>8. Strays'
  BY NamesAssumption DEF IInv, Strays, PcOK, TypeOK, Toggle, Go, data, plan, ghosts, Owning, Deleting, Writing, Charging, Writers, Deleters, Ops
<1>9. Ledger'
  BY NamesAssumption DEF IInv, Ledger, TypeOK, Toggle, Go, data, plan, ghosts, Owning, Deleting, Writing, Charging, Writers, Deleters, Ops
<1> QED  BY <1>1, <1>p, <1>2, <1>3, <1>4, <1>5, <1>6, <1>7, <1>8, <1>9 DEF IInv

LEMMA BeginKeeps ==
  ASSUME IInv, NEW o \in Ops, Begin(o) PROVE IInv'
<1>1. TypeOK'
  BY NamesAssumption, BoundsAssumption DEF IInv, TypeOK, PcOK, Pcs, Rows, Versions, Begin, Go, data, plan, ghosts, Owning, Deleting, Writing, Charging, Writers, Deleters, Ops
<1>p. PcOK'
  BY NamesAssumption DEF IInv, TypeOK, PcOK, Begin, Go, data, plan, ghosts, Owning, Deleting, Writing, Charging, Writers, Deleters, Ops
<1>2. Exclusion'
  BY NamesAssumption DEF IInv, Exclusion, TypeOK, Begin, Go, data, plan, ghosts, Owning, Deleting, Writing, Charging, Writers, Deleters, Ops
<1>3. (PurgesLock /\ DocPurgesLock)'
  BY NamesAssumption DEF IInv, PurgesLock, DocPurgesLock, Exclusion, PcOK, TypeOK, Begin, Go, data, plan, ghosts, Owning, Deleting, Writing, Charging, Writers, Deleters, Ops
<1>4. WritersLock'
  BY NamesAssumption DEF IInv, WritersLock, Exclusion, PcOK, TypeOK, Begin, Go, data, plan, ghosts, Owning, Deleting, Writing, Charging, Writers, Deleters, Ops
<1>5. Plans'
  <2> SUFFICES ASSUME NEW d \in Deleters, pc'[d] \in Deleting
               PROVE  /\ doomed'[d] = IF d \in Purges THEN versions' ELSE versions' \ Creates
                      /\ todo'[d] \subseteq doomed'[d]
                      /\ pc'[d] # "deleting" => todo'[d] = {}
                      /\ objects' \cap doomed'[d] \subseteq todo'[d]
    BY DEF Plans
  <2> QED
    BY NamesAssumption DEF IInv, Plans, PcOK, TypeOK, Begin, Go, data, plan, ghosts, Owning, Deleting, Writing, Charging, Writers, Deleters, Ops
<1>6. Uploads'
  BY NamesAssumption DEF IInv, Uploads, PcOK, TypeOK, Begin, Go, data, plan, ghosts, Owning, Deleting, Writing, Charging, Writers, Deleters, Ops
<1>7. Missing'
  <2> SUFFICES ASSUME NEW v \in versions', v \notin torn', v \notin objects'
               PROVE  \E d \in Deleters : pc'[d] \in Deleting /\ v \in doomed'[d]
    BY DEF Missing
  <2> QED
    BY NamesAssumption DEF IInv, Missing, PcOK, TypeOK, Begin, Go, data, plan, ghosts, Owning, Deleting, Writing, Charging, Writers, Deleters, Ops
<1>8. Strays'
  BY NamesAssumption DEF IInv, Strays, PcOK, TypeOK, Begin, Go, data, plan, ghosts, Owning, Deleting, Writing, Charging, Writers, Deleters, Ops
<1>9. Ledger'
  BY NamesAssumption DEF IInv, Ledger, TypeOK, Begin, Go, data, plan, ghosts, Owning, Deleting, Writing, Charging, Writers, Deleters, Ops
<1> QED  BY <1>1, <1>p, <1>2, <1>3, <1>4, <1>5, <1>6, <1>7, <1>8, <1>9 DEF IInv

LEMMA CheckKeeps ==
  ASSUME IInv, NEW o \in Ops, Check(o) PROVE IInv'
<1>1. TypeOK'
  BY NamesAssumption, BoundsAssumption DEF IInv, TypeOK, PcOK, Pcs, Rows, Versions, Check, Go, data, plan, ghosts, Owning, Deleting, Writing, Charging, Writers, Deleters, Ops
<1>p. PcOK'
  BY NamesAssumption DEF IInv, TypeOK, PcOK, Check, Go, data, plan, ghosts, Owning, Deleting, Writing, Charging, Writers, Deleters, Ops
<1>2. Exclusion'
  BY NamesAssumption DEF IInv, Exclusion, TypeOK, Check, Go, data, plan, ghosts, Owning, Deleting, Writing, Charging, Writers, Deleters, Ops
<1>3. (PurgesLock /\ DocPurgesLock)'
  BY NamesAssumption DEF IInv, PurgesLock, DocPurgesLock, Exclusion, PcOK, TypeOK, Check, Go, data, plan, ghosts, Owning, Deleting, Writing, Charging, Writers, Deleters, Ops
<1>4. WritersLock'
  BY NamesAssumption DEF IInv, WritersLock, Exclusion, PcOK, TypeOK, Check, Go, data, plan, ghosts, Owning, Deleting, Writing, Charging, Writers, Deleters, Ops
<1>5. Plans'
  <2> SUFFICES ASSUME NEW d \in Deleters, pc'[d] \in Deleting
               PROVE  /\ doomed'[d] = IF d \in Purges THEN versions' ELSE versions' \ Creates
                      /\ todo'[d] \subseteq doomed'[d]
                      /\ pc'[d] # "deleting" => todo'[d] = {}
                      /\ objects' \cap doomed'[d] \subseteq todo'[d]
    BY DEF Plans
  <2> QED
    BY NamesAssumption DEF IInv, Plans, PcOK, TypeOK, Check, Go, data, plan, ghosts, Owning, Deleting, Writing, Charging, Writers, Deleters, Ops
<1>6. Uploads'
  BY NamesAssumption DEF IInv, Uploads, PcOK, TypeOK, Check, Go, data, plan, ghosts, Owning, Deleting, Writing, Charging, Writers, Deleters, Ops
<1>7. Missing'
  <2> SUFFICES ASSUME NEW v \in versions', v \notin torn', v \notin objects'
               PROVE  \E d \in Deleters : pc'[d] \in Deleting /\ v \in doomed'[d]
    BY DEF Missing
  <2> QED
    BY NamesAssumption DEF IInv, Missing, PcOK, TypeOK, Check, Go, data, plan, ghosts, Owning, Deleting, Writing, Charging, Writers, Deleters, Ops
<1>8. Strays'
  BY NamesAssumption DEF IInv, Strays, PcOK, TypeOK, Check, Go, data, plan, ghosts, Owning, Deleting, Writing, Charging, Writers, Deleters, Ops
<1>9. Ledger'
  BY NamesAssumption DEF IInv, Ledger, TypeOK, Check, Go, data, plan, ghosts, Owning, Deleting, Writing, Charging, Writers, Deleters, Ops
<1> QED  BY <1>1, <1>p, <1>2, <1>3, <1>4, <1>5, <1>6, <1>7, <1>8, <1>9 DEF IInv

LEMMA PutObjectKeeps ==
  ASSUME IInv, NEW o \in Ops, PutObject(o) PROVE IInv'
<1>1. TypeOK'
  BY NamesAssumption, BoundsAssumption DEF IInv, TypeOK, PcOK, Pcs, Rows, Versions, PutObject, Go, data, plan, ghosts, Owning, Deleting, Writing, Charging, Writers, Deleters, Ops
<1>p. PcOK'
  BY NamesAssumption DEF IInv, TypeOK, PcOK, PutObject, Go, data, plan, ghosts, Owning, Deleting, Writing, Charging, Writers, Deleters, Ops
<1>2. Exclusion'
  BY NamesAssumption DEF IInv, Exclusion, TypeOK, PutObject, Go, data, plan, ghosts, Owning, Deleting, Writing, Charging, Writers, Deleters, Ops
<1>3. (PurgesLock /\ DocPurgesLock)'
  BY NamesAssumption DEF IInv, PurgesLock, DocPurgesLock, Exclusion, PcOK, TypeOK, PutObject, Go, data, plan, ghosts, Owning, Deleting, Writing, Charging, Writers, Deleters, Ops
<1>4. WritersLock'
  BY NamesAssumption DEF IInv, WritersLock, Exclusion, PcOK, TypeOK, PutObject, Go, data, plan, ghosts, Owning, Deleting, Writing, Charging, Writers, Deleters, Ops
<1>5. Plans'
  <2>1. o \in Writers /\ o \notin versions
    BY DEF IInv, PcOK, Uploads, PutObject, Owning, Ops
  <2>2. \A d \in Deleters : pc'[d] = pc[d]
    BY <2>1, NamesAssumption DEF IInv, TypeOK, PutObject, Go, Ops
  <2>3. /\ objects' = objects \cup {o}
        /\ UNCHANGED <<versions, doomed, todo>>
    BY DEF PutObject, data, plan
  <2>4. \A d \in Deleters : pc[d] \in Deleting => o \notin doomed[d]
    BY <2>1 DEF IInv, Plans
  <2> QED  BY <2>2, <2>3, <2>4 DEF IInv, Plans
<1>6. Uploads'
  BY NamesAssumption DEF IInv, Uploads, PcOK, TypeOK, PutObject, Go, data, plan, ghosts, Owning, Deleting, Writing, Charging, Writers, Deleters, Ops
<1>7. Missing'
  <2> SUFFICES ASSUME NEW v \in versions', v \notin torn', v \notin objects'
               PROVE  \E d \in Deleters : pc'[d] \in Deleting /\ v \in doomed'[d]
    BY DEF Missing
  <2> QED
    BY NamesAssumption DEF IInv, Missing, PcOK, TypeOK, PutObject, Go, data, plan, ghosts, Owning, Deleting, Writing, Charging, Writers, Deleters, Ops
<1>8. Strays'
  BY NamesAssumption DEF IInv, Strays, PcOK, TypeOK, PutObject, Go, data, plan, ghosts, Owning, Deleting, Writing, Charging, Writers, Deleters, Ops
<1>9. Ledger'
  BY NamesAssumption DEF IInv, Ledger, TypeOK, PutObject, Go, data, plan, ghosts, Owning, Deleting, Writing, Charging, Writers, Deleters, Ops
<1> QED  BY <1>1, <1>p, <1>2, <1>3, <1>4, <1>5, <1>6, <1>7, <1>8, <1>9 DEF IInv

LEMMA ReserveKeeps ==
  ASSUME IInv, NEW o \in Ops, Reserve(o) PROVE IInv'
<1>1. TypeOK'
  BY NamesAssumption, BoundsAssumption DEF IInv, TypeOK, PcOK, Pcs, Rows, Versions, Reserve, Lock, Free, Go, data, plan, ghosts, Owning, Deleting, Writing, Charging, Writers, Deleters, Ops
<1>p. PcOK'
  BY NamesAssumption DEF IInv, TypeOK, PcOK, Reserve, Lock, Free, Go, data, plan, ghosts, Owning, Deleting, Writing, Charging, Writers, Deleters, Ops
<1>2. Exclusion'
  BY NamesAssumption DEF IInv, Exclusion, TypeOK, Reserve, Lock, Free, Go, data, plan, ghosts, Owning, Deleting, Writing, Charging, Writers, Deleters, Ops
<1>3. (PurgesLock /\ DocPurgesLock)'
  BY NamesAssumption DEF IInv, PurgesLock, DocPurgesLock, Exclusion, PcOK, TypeOK, Reserve, Lock, Free, Go, data, plan, ghosts, Owning, Deleting, Writing, Charging, Writers, Deleters, Ops
<1>4. WritersLock'
  BY NamesAssumption DEF IInv, WritersLock, Exclusion, PcOK, TypeOK, Reserve, Lock, Free, Go, data, plan, ghosts, Owning, Deleting, Writing, Charging, Writers, Deleters, Ops
<1>5. Plans'
  <2> SUFFICES ASSUME NEW d \in Deleters, pc'[d] \in Deleting
               PROVE  /\ doomed'[d] = IF d \in Purges THEN versions' ELSE versions' \ Creates
                      /\ todo'[d] \subseteq doomed'[d]
                      /\ pc'[d] # "deleting" => todo'[d] = {}
                      /\ objects' \cap doomed'[d] \subseteq todo'[d]
    BY DEF Plans
  <2> QED
    BY NamesAssumption DEF IInv, Plans, PcOK, TypeOK, Reserve, Lock, Free, Go, data, plan, ghosts, Owning, Deleting, Writing, Charging, Writers, Deleters, Ops
<1>6. Uploads'
  BY NamesAssumption DEF IInv, Uploads, PcOK, TypeOK, Reserve, Lock, Free, Go, data, plan, ghosts, Owning, Deleting, Writing, Charging, Writers, Deleters, Ops
<1>7. Missing'
  <2> SUFFICES ASSUME NEW v \in versions', v \notin torn', v \notin objects'
               PROVE  \E d \in Deleters : pc'[d] \in Deleting /\ v \in doomed'[d]
    BY DEF Missing
  <2> QED
    BY NamesAssumption DEF IInv, Missing, PcOK, TypeOK, Reserve, Lock, Free, Go, data, plan, ghosts, Owning, Deleting, Writing, Charging, Writers, Deleters, Ops
<1>8. Strays'
  BY NamesAssumption DEF IInv, Strays, PcOK, TypeOK, Reserve, Lock, Free, Go, data, plan, ghosts, Owning, Deleting, Writing, Charging, Writers, Deleters, Ops
<1>9. Ledger'
  BY NamesAssumption DEF IInv, Ledger, TypeOK, Reserve, Lock, Free, Go, data, plan, ghosts, Owning, Deleting, Writing, Charging, Writers, Deleters, Ops
<1> QED  BY <1>1, <1>p, <1>2, <1>3, <1>4, <1>5, <1>6, <1>7, <1>8, <1>9 DEF IInv

LEMMA SweepKeeps ==
  ASSUME IInv, NEW o \in Ops, Sweep(o) PROVE IInv'
<1>1. TypeOK'
  BY NamesAssumption, BoundsAssumption DEF IInv, TypeOK, PcOK, Pcs, Rows, Versions, Sweep, Go, data, plan, ghosts, Owning, Deleting, Writing, Charging, Writers, Deleters, Ops
<1>p. PcOK'
  BY NamesAssumption DEF IInv, TypeOK, PcOK, Sweep, Go, data, plan, ghosts, Owning, Deleting, Writing, Charging, Writers, Deleters, Ops
<1>2. Exclusion'
  BY NamesAssumption DEF IInv, Exclusion, TypeOK, Sweep, Go, data, plan, ghosts, Owning, Deleting, Writing, Charging, Writers, Deleters, Ops
<1>3. (PurgesLock /\ DocPurgesLock)'
  BY NamesAssumption DEF IInv, PurgesLock, DocPurgesLock, Exclusion, PcOK, TypeOK, Sweep, Go, data, plan, ghosts, Owning, Deleting, Writing, Charging, Writers, Deleters, Ops
<1>4. WritersLock'
  BY NamesAssumption DEF IInv, WritersLock, Exclusion, PcOK, TypeOK, Sweep, Go, data, plan, ghosts, Owning, Deleting, Writing, Charging, Writers, Deleters, Ops
<1>5. Plans'
  <2> SUFFICES ASSUME NEW d \in Deleters, pc'[d] \in Deleting
               PROVE  /\ doomed'[d] = IF d \in Purges THEN versions' ELSE versions' \ Creates
                      /\ todo'[d] \subseteq doomed'[d]
                      /\ pc'[d] # "deleting" => todo'[d] = {}
                      /\ objects' \cap doomed'[d] \subseteq todo'[d]
    BY DEF Plans
  <2> QED
    BY NamesAssumption DEF IInv, Plans, PcOK, TypeOK, Sweep, Go, data, plan, ghosts, Owning, Deleting, Writing, Charging, Writers, Deleters, Ops
<1>6. Uploads'
  BY NamesAssumption DEF IInv, Uploads, PcOK, TypeOK, Sweep, Go, data, plan, ghosts, Owning, Deleting, Writing, Charging, Writers, Deleters, Ops
<1>7. Missing'
  <2>1. o \in Writers /\ o \notin versions
    BY DEF IInv, PcOK, Uploads, Sweep, Owning, Ops
  <2>2. \A d \in Deleters : pc[d] \in Deleting => pc'[d] \in Deleting
    BY <2>1, NamesAssumption DEF IInv, TypeOK, Sweep, Go, Ops
  <2> QED
    BY <2>1, <2>2 DEF IInv, Missing, Sweep, data, plan
<1>8. Strays'
  BY NamesAssumption DEF IInv, Strays, PcOK, TypeOK, Sweep, Go, data, plan, ghosts, Owning, Deleting, Writing, Charging, Writers, Deleters, Ops
<1>9. Ledger'
  BY NamesAssumption DEF IInv, Ledger, TypeOK, Sweep, Go, data, plan, ghosts, Owning, Deleting, Writing, Charging, Writers, Deleters, Ops
<1> QED  BY <1>1, <1>p, <1>2, <1>3, <1>4, <1>5, <1>6, <1>7, <1>8, <1>9 DEF IInv

LEMMA LockWorkspaceKeeps ==
  ASSUME IInv, NEW o \in Ops, o \in Purges, LockWorkspace(o) PROVE IInv'
<1>1. TypeOK'
  BY NamesAssumption, BoundsAssumption DEF IInv, TypeOK, PcOK, Pcs, Rows, Versions, LockWorkspace, LockTarget, Lock, Free, Go, data, plan, ghosts, Owning, Deleting, Writing, Charging, Writers, Deleters, Ops
<1>p. PcOK'
  BY NamesAssumption DEF IInv, TypeOK, PcOK, LockWorkspace, LockTarget, Lock, Free, Go, data, plan, ghosts, Owning, Deleting, Writing, Charging, Writers, Deleters, Ops
<1>2. Exclusion'
  BY NamesAssumption DEF IInv, Exclusion, TypeOK, LockWorkspace, LockTarget, Lock, Free, Go, data, plan, ghosts, Owning, Deleting, Writing, Charging, Writers, Deleters, Ops
<1>3. (PurgesLock /\ DocPurgesLock)'
  BY NamesAssumption DEF IInv, PurgesLock, DocPurgesLock, Exclusion, PcOK, TypeOK, LockWorkspace, LockTarget, Lock, Free, Go, data, plan, ghosts, Owning, Deleting, Writing, Charging, Writers, Deleters, Ops
<1>4. WritersLock'
  BY NamesAssumption DEF IInv, WritersLock, Exclusion, PcOK, TypeOK, LockWorkspace, LockTarget, Lock, Free, Go, data, plan, ghosts, Owning, Deleting, Writing, Charging, Writers, Deleters, Ops
<1>5. Plans'
  <2>1. \A d \in Deleters : pc'[d] \in Deleting => pc'[d] = pc[d]
    BY DEF IInv, TypeOK, LockWorkspace, LockTarget, Lock, Go, Deleting, Ops
  <2> QED
    BY <2>1 DEF IInv, Plans, LockWorkspace, LockTarget, data, plan
<1>6. Uploads'
  BY NamesAssumption DEF IInv, Uploads, PcOK, TypeOK, LockWorkspace, LockTarget, Lock, Free, Go, data, plan, ghosts, Owning, Deleting, Writing, Charging, Writers, Deleters, Ops
<1>7. Missing'
  <2> SUFFICES ASSUME NEW v \in versions', v \notin torn', v \notin objects'
               PROVE  \E d \in Deleters : pc'[d] \in Deleting /\ v \in doomed'[d]
    BY DEF Missing
  <2> QED
    BY NamesAssumption DEF IInv, Missing, PcOK, TypeOK, LockWorkspace, LockTarget, Lock, Free, Go, data, plan, ghosts, Owning, Deleting, Writing, Charging, Writers, Deleters, Ops
<1>8. Strays'
  BY NamesAssumption DEF IInv, Strays, PcOK, TypeOK, LockWorkspace, LockTarget, Lock, Free, Go, data, plan, ghosts, Owning, Deleting, Writing, Charging, Writers, Deleters, Ops
<1>9. Ledger'
  BY NamesAssumption DEF IInv, Ledger, TypeOK, LockWorkspace, LockTarget, Lock, Free, Go, data, plan, ghosts, Owning, Deleting, Writing, Charging, Writers, Deleters, Ops
<1> QED  BY <1>1, <1>p, <1>2, <1>3, <1>4, <1>5, <1>6, <1>7, <1>8, <1>9 DEF IInv

LEMMA LockPurgedDocumentKeeps ==
  ASSUME IInv, NEW o \in Ops, o \in DocPurges, LockPurgedDocument(o) PROVE IInv'
<1>1. TypeOK'
  BY NamesAssumption, BoundsAssumption DEF IInv, TypeOK, PcOK, Pcs, Rows, Versions, LockPurgedDocument, LockTarget, Lock, Free, Go, data, plan, ghosts, Owning, Deleting, Writing, Charging, Writers, Deleters, Ops
<1>p. PcOK'
  BY NamesAssumption DEF IInv, TypeOK, PcOK, LockPurgedDocument, LockTarget, Lock, Free, Go, data, plan, ghosts, Owning, Deleting, Writing, Charging, Writers, Deleters, Ops
<1>2. Exclusion'
  BY NamesAssumption DEF IInv, Exclusion, TypeOK, LockPurgedDocument, LockTarget, Lock, Free, Go, data, plan, ghosts, Owning, Deleting, Writing, Charging, Writers, Deleters, Ops
<1>3. (PurgesLock /\ DocPurgesLock)'
  BY NamesAssumption DEF IInv, PurgesLock, DocPurgesLock, Exclusion, PcOK, TypeOK, LockPurgedDocument, LockTarget, Lock, Free, Go, data, plan, ghosts, Owning, Deleting, Writing, Charging, Writers, Deleters, Ops
<1>4. WritersLock'
  BY NamesAssumption DEF IInv, WritersLock, Exclusion, PcOK, TypeOK, LockPurgedDocument, LockTarget, Lock, Free, Go, data, plan, ghosts, Owning, Deleting, Writing, Charging, Writers, Deleters, Ops
<1>5. Plans'
  <2> SUFFICES ASSUME NEW d \in Deleters, pc'[d] \in Deleting
               PROVE  /\ doomed'[d] = IF d \in Purges THEN versions' ELSE versions' \ Creates
                      /\ todo'[d] \subseteq doomed'[d]
                      /\ pc'[d] # "deleting" => todo'[d] = {}
                      /\ objects' \cap doomed'[d] \subseteq todo'[d]
    BY DEF Plans
  <2> QED
    BY NamesAssumption DEF IInv, Plans, PcOK, TypeOK, LockPurgedDocument, LockTarget, Lock, Free, Go, data, plan, ghosts, Owning, Deleting, Writing, Charging, Writers, Deleters, Ops
<1>6. Uploads'
  BY NamesAssumption DEF IInv, Uploads, PcOK, TypeOK, LockPurgedDocument, LockTarget, Lock, Free, Go, data, plan, ghosts, Owning, Deleting, Writing, Charging, Writers, Deleters, Ops
<1>7. Missing'
  <2> SUFFICES ASSUME NEW v \in versions', v \notin torn', v \notin objects'
               PROVE  \E d \in Deleters : pc'[d] \in Deleting /\ v \in doomed'[d]
    BY DEF Missing
  <2> QED
    BY NamesAssumption DEF IInv, Missing, PcOK, TypeOK, LockPurgedDocument, LockTarget, Lock, Free, Go, data, plan, ghosts, Owning, Deleting, Writing, Charging, Writers, Deleters, Ops
<1>8. Strays'
  BY NamesAssumption DEF IInv, Strays, PcOK, TypeOK, LockPurgedDocument, LockTarget, Lock, Free, Go, data, plan, ghosts, Owning, Deleting, Writing, Charging, Writers, Deleters, Ops
<1>9. Ledger'
  BY NamesAssumption DEF IInv, Ledger, TypeOK, LockPurgedDocument, LockTarget, Lock, Free, Go, data, plan, ghosts, Owning, Deleting, Writing, Charging, Writers, Deleters, Ops
<1> QED  BY <1>1, <1>p, <1>2, <1>3, <1>4, <1>5, <1>6, <1>7, <1>8, <1>9 DEF IInv

LEMMA ReadDocumentsKeeps ==
  ASSUME IInv, NEW o \in Ops, ReadDocuments(o) PROVE IInv'
<1>1. TypeOK'
  BY NamesAssumption, BoundsAssumption DEF IInv, TypeOK, PcOK, Pcs, Rows, Versions, ReadDocuments, ReadRows, Lock, Free, Go, data, plan, ghosts, Owning, Deleting, Writing, Charging, Writers, Deleters, Ops
<1>p. PcOK'
  BY NamesAssumption DEF IInv, TypeOK, PcOK, ReadDocuments, ReadRows, Lock, Free, Go, data, plan, ghosts, Owning, Deleting, Writing, Charging, Writers, Deleters, Ops
<1>2. Exclusion'
  BY NamesAssumption DEF IInv, Exclusion, TypeOK, ReadDocuments, ReadRows, Lock, Free, Go, data, plan, ghosts, Owning, Deleting, Writing, Charging, Writers, Deleters, Ops
<1>3. (PurgesLock /\ DocPurgesLock)'
  BY NamesAssumption DEF IInv, PurgesLock, DocPurgesLock, Exclusion, PcOK, TypeOK, ReadDocuments, ReadRows, Lock, Free, Go, data, plan, ghosts, Owning, Deleting, Writing, Charging, Writers, Deleters, Ops
<1>4. WritersLock'
  BY NamesAssumption DEF IInv, WritersLock, Exclusion, PcOK, TypeOK, ReadDocuments, ReadRows, Lock, Free, Go, data, plan, ghosts, Owning, Deleting, Writing, Charging, Writers, Deleters, Ops
<1>5. Plans'
  <2> SUFFICES ASSUME NEW d \in Deleters, pc'[d] \in Deleting
               PROVE  /\ doomed'[d] = IF d \in Purges THEN versions' ELSE versions' \ Creates
                      /\ todo'[d] \subseteq doomed'[d]
                      /\ pc'[d] # "deleting" => todo'[d] = {}
                      /\ objects' \cap doomed'[d] \subseteq todo'[d]
    BY DEF Plans
  <2>1. o \in Deleters
    BY DEF ReadDocuments, Deleters
  <2>2. CASE d = o
    <3>1. /\ pc'[o] = "deleting" /\ todo'[o] = doomed'[o]
          /\ doomed'[o] = IF o \in Purges THEN versions ELSE versions \ Creates
      BY <2>1 DEF IInv, TypeOK, ReadDocuments, ReadRows, Lock, Go, Ops
    <3> QED  BY <2>2, <3>1 DEF ReadDocuments, ReadRows, data
  <2>3. CASE d # o
    <3>1. pc'[d] = pc[d] /\ todo'[d] = todo[d] /\ doomed'[d] = doomed[d]
      BY <2>1, <2>3 DEF IInv, TypeOK, ReadDocuments, ReadRows, Lock, Go, Ops
    <3> QED  BY <3>1 DEF IInv, Plans, ReadDocuments, ReadRows, data
  <2> QED  BY <2>2, <2>3
<1>6. Uploads'
  BY NamesAssumption DEF IInv, Uploads, PcOK, TypeOK, ReadDocuments, ReadRows, Lock, Free, Go, data, plan, ghosts, Owning, Deleting, Writing, Charging, Writers, Deleters, Ops
<1>7. Missing'
  <2> SUFFICES ASSUME NEW v \in versions', v \notin torn', v \notin objects'
               PROVE  \E d \in Deleters : pc'[d] \in Deleting /\ v \in doomed'[d]
    BY DEF Missing
  <2> QED
    BY NamesAssumption DEF IInv, Missing, PcOK, TypeOK, ReadDocuments, ReadRows, Lock, Free, Go, data, plan, ghosts, Owning, Deleting, Writing, Charging, Writers, Deleters, Ops
<1>8. Strays'
  BY NamesAssumption DEF IInv, Strays, PcOK, TypeOK, ReadDocuments, ReadRows, Lock, Free, Go, data, plan, ghosts, Owning, Deleting, Writing, Charging, Writers, Deleters, Ops
<1>9. Ledger'
  BY NamesAssumption DEF IInv, Ledger, TypeOK, ReadDocuments, ReadRows, Lock, Free, Go, data, plan, ghosts, Owning, Deleting, Writing, Charging, Writers, Deleters, Ops
<1> QED  BY <1>1, <1>p, <1>2, <1>3, <1>4, <1>5, <1>6, <1>7, <1>8, <1>9 DEF IInv

LEMMA ReadDocumentKeeps ==
  ASSUME IInv, NEW o \in Ops, ReadDocument(o) PROVE IInv'
<1>1. TypeOK'
  BY NamesAssumption, BoundsAssumption DEF IInv, TypeOK, PcOK, Pcs, Rows, Versions, ReadDocument, ReadRows, Lock, Free, Go, data, plan, ghosts, Owning, Deleting, Writing, Charging, Writers, Deleters, Ops
<1>p. PcOK'
  BY NamesAssumption DEF IInv, TypeOK, PcOK, ReadDocument, ReadRows, Lock, Free, Go, data, plan, ghosts, Owning, Deleting, Writing, Charging, Writers, Deleters, Ops
<1>2. Exclusion'
  BY NamesAssumption DEF IInv, Exclusion, TypeOK, ReadDocument, ReadRows, Lock, Free, Go, data, plan, ghosts, Owning, Deleting, Writing, Charging, Writers, Deleters, Ops
<1>3. (PurgesLock /\ DocPurgesLock)'
  BY NamesAssumption DEF IInv, PurgesLock, DocPurgesLock, Exclusion, PcOK, TypeOK, ReadDocument, ReadRows, Lock, Free, Go, data, plan, ghosts, Owning, Deleting, Writing, Charging, Writers, Deleters, Ops
<1>4. WritersLock'
  BY NamesAssumption DEF IInv, WritersLock, Exclusion, PcOK, TypeOK, ReadDocument, ReadRows, Lock, Free, Go, data, plan, ghosts, Owning, Deleting, Writing, Charging, Writers, Deleters, Ops
<1>5. Plans'
  <2> SUFFICES ASSUME NEW d \in Deleters, pc'[d] \in Deleting
               PROVE  /\ doomed'[d] = IF d \in Purges THEN versions' ELSE versions' \ Creates
                      /\ todo'[d] \subseteq doomed'[d]
                      /\ pc'[d] # "deleting" => todo'[d] = {}
                      /\ objects' \cap doomed'[d] \subseteq todo'[d]
    BY DEF Plans
  <2>1. o \in Deleters
    BY DEF ReadDocument, Deleters
  <2>2. CASE d = o
    <3>1. /\ pc'[o] = "deleting" /\ todo'[o] = doomed'[o]
          /\ doomed'[o] = IF o \in Purges THEN versions ELSE versions \ Creates
      BY <2>1 DEF IInv, TypeOK, ReadDocument, ReadRows, Lock, Go, Ops
    <3> QED  BY <2>2, <3>1 DEF ReadDocument, ReadRows, data
  <2>3. CASE d # o
    <3>1. pc'[d] = pc[d] /\ todo'[d] = todo[d] /\ doomed'[d] = doomed[d]
      BY <2>1, <2>3 DEF IInv, TypeOK, ReadDocument, ReadRows, Lock, Go, Ops
    <3> QED  BY <3>1 DEF IInv, Plans, ReadDocument, ReadRows, data
  <2> QED  BY <2>2, <2>3
<1>6. Uploads'
  BY NamesAssumption DEF IInv, Uploads, PcOK, TypeOK, ReadDocument, ReadRows, Lock, Free, Go, data, plan, ghosts, Owning, Deleting, Writing, Charging, Writers, Deleters, Ops
<1>7. Missing'
  <2> SUFFICES ASSUME NEW v \in versions', v \notin torn', v \notin objects'
               PROVE  \E d \in Deleters : pc'[d] \in Deleting /\ v \in doomed'[d]
    BY DEF Missing
  <2> QED
    BY NamesAssumption DEF IInv, Missing, PcOK, TypeOK, ReadDocument, ReadRows, Lock, Free, Go, data, plan, ghosts, Owning, Deleting, Writing, Charging, Writers, Deleters, Ops
<1>8. Strays'
  BY NamesAssumption DEF IInv, Strays, PcOK, TypeOK, ReadDocument, ReadRows, Lock, Free, Go, data, plan, ghosts, Owning, Deleting, Writing, Charging, Writers, Deleters, Ops
<1>9. Ledger'
  BY NamesAssumption DEF IInv, Ledger, TypeOK, ReadDocument, ReadRows, Lock, Free, Go, data, plan, ghosts, Owning, Deleting, Writing, Charging, Writers, Deleters, Ops
<1> QED  BY <1>1, <1>p, <1>2, <1>3, <1>4, <1>5, <1>6, <1>7, <1>8, <1>9 DEF IInv

LEMMA DeleteObjectKeeps ==
  ASSUME IInv, NEW o \in Ops, DeleteObject(o) PROVE IInv'
<1>1. o \in Deleters /\ pc[o] = "deleting"
  BY DEF IInv, PcOK, DeleteObject, Writing, Ops
<1>2. PICK v \in Versions : /\ v \in todo[o] /\ objects' = objects \ {v}
                            /\ todo' = [todo EXCEPT ![o] = @ \ {v}]
  BY DEF DeleteObject, Deletable
<1>3. v \in doomed[o] /\ v \in versions
  BY <1>1, <1>2 DEF IInv, Plans, Deleting
<1>4. /\ UNCHANGED <<workspace, document, versions, used, held, pc, doomed>>
      /\ UNCHANGED <<excused, torn, toggles, faults>>
  BY DEF DeleteObject, data, ghosts
<1>5. TypeOK'
  BY <1>1, <1>2, <1>4 DEF IInv, TypeOK, Versions
<1>6. PcOK' /\ Exclusion' /\ PurgesLock' /\ DocPurgesLock' /\ WritersLock' /\ Ledger'
  BY <1>4 DEF IInv, PcOK, Exclusion, PurgesLock, DocPurgesLock, WritersLock, Ledger
<1>7. Plans'
  BY <1>1, <1>2, <1>4 DEF IInv, TypeOK, Plans, Deleting
<1>8. Uploads'
  BY <1>2, <1>3, <1>4 DEF IInv, Uploads, Writing
<1>9. Missing'
  <2>1. pc'[o] \in Deleting /\ v \in doomed'[o]
    BY <1>1, <1>3, <1>4 DEF Deleting
  <2> QED
    BY <1>1, <1>2, <1>4, <2>1 DEF IInv, Missing
<1>10. Strays'
  BY <1>2, <1>4 DEF IInv, Strays
<1> QED  BY <1>5, <1>6, <1>7, <1>8, <1>9, <1>10 DEF IInv

LEMMA DeleteRowsKeeps ==
  ASSUME IInv, NEW o \in Ops, DeleteRows(o) PROVE IInv'
<1>1. TypeOK'
  BY NamesAssumption, BoundsAssumption DEF IInv, TypeOK, PcOK, Pcs, Rows, Versions, DeleteRows, Go, data, plan, ghosts, Owning, Deleting, Writing, Charging, Writers, Deleters, Ops
<1>p. PcOK'
  BY NamesAssumption DEF IInv, TypeOK, PcOK, DeleteRows, Go, data, plan, ghosts, Owning, Deleting, Writing, Charging, Writers, Deleters, Ops
<1>2. Exclusion'
  BY NamesAssumption DEF IInv, Exclusion, TypeOK, DeleteRows, Go, data, plan, ghosts, Owning, Deleting, Writing, Charging, Writers, Deleters, Ops
<1>3. (PurgesLock /\ DocPurgesLock)'
  BY NamesAssumption DEF IInv, PurgesLock, DocPurgesLock, Exclusion, PcOK, TypeOK, DeleteRows, Go, data, plan, ghosts, Owning, Deleting, Writing, Charging, Writers, Deleters, Ops
<1>4. WritersLock'
  BY NamesAssumption DEF IInv, WritersLock, Exclusion, PcOK, TypeOK, DeleteRows, Go, data, plan, ghosts, Owning, Deleting, Writing, Charging, Writers, Deleters, Ops
<1>5. Plans'
  <2> SUFFICES ASSUME NEW d \in Deleters, pc'[d] \in Deleting
               PROVE  /\ doomed'[d] = IF d \in Purges THEN versions' ELSE versions' \ Creates
                      /\ todo'[d] \subseteq doomed'[d]
                      /\ pc'[d] # "deleting" => todo'[d] = {}
                      /\ objects' \cap doomed'[d] \subseteq todo'[d]
    BY DEF Plans
  <2> QED
    BY NamesAssumption DEF IInv, Plans, PcOK, TypeOK, DeleteRows, Go, data, plan, ghosts, Owning, Deleting, Writing, Charging, Writers, Deleters, Ops
<1>6. Uploads'
  BY NamesAssumption DEF IInv, Uploads, PcOK, TypeOK, DeleteRows, Go, data, plan, ghosts, Owning, Deleting, Writing, Charging, Writers, Deleters, Ops
<1>7. Missing'
  <2> SUFFICES ASSUME NEW v \in versions', v \notin torn', v \notin objects'
               PROVE  \E d \in Deleters : pc'[d] \in Deleting /\ v \in doomed'[d]
    BY DEF Missing
  <2> QED
    BY NamesAssumption DEF IInv, Missing, PcOK, TypeOK, DeleteRows, Go, data, plan, ghosts, Owning, Deleting, Writing, Charging, Writers, Deleters, Ops
<1>8. Strays'
  BY NamesAssumption DEF IInv, Strays, PcOK, TypeOK, DeleteRows, Go, data, plan, ghosts, Owning, Deleting, Writing, Charging, Writers, Deleters, Ops
<1>9. Ledger'
  BY NamesAssumption DEF IInv, Ledger, TypeOK, DeleteRows, Go, data, plan, ghosts, Owning, Deleting, Writing, Charging, Writers, Deleters, Ops
<1> QED  BY <1>1, <1>p, <1>2, <1>3, <1>4, <1>5, <1>6, <1>7, <1>8, <1>9 DEF IInv

LEMMA ReleaseKeeps ==
  ASSUME IInv, NEW o \in Ops, Release(o) PROVE IInv'
<1>1. TypeOK'
  BY NamesAssumption, BoundsAssumption DEF IInv, TypeOK, PcOK, Pcs, Rows, Versions, Release, Lock, Free, Go, data, plan, ghosts, Owning, Deleting, Writing, Charging, Writers, Deleters, Ops
<1>p. PcOK'
  BY NamesAssumption DEF IInv, TypeOK, PcOK, Release, Lock, Free, Go, data, plan, ghosts, Owning, Deleting, Writing, Charging, Writers, Deleters, Ops
<1>2. Exclusion'
  BY NamesAssumption DEF IInv, Exclusion, TypeOK, Release, Lock, Free, Go, data, plan, ghosts, Owning, Deleting, Writing, Charging, Writers, Deleters, Ops
<1>3. (PurgesLock /\ DocPurgesLock)'
  BY NamesAssumption DEF IInv, PurgesLock, DocPurgesLock, Exclusion, PcOK, TypeOK, Release, Lock, Free, Go, data, plan, ghosts, Owning, Deleting, Writing, Charging, Writers, Deleters, Ops
<1>4. WritersLock'
  BY NamesAssumption DEF IInv, WritersLock, Exclusion, PcOK, TypeOK, Release, Lock, Free, Go, data, plan, ghosts, Owning, Deleting, Writing, Charging, Writers, Deleters, Ops
<1>5. Plans'
  <2> SUFFICES ASSUME NEW d \in Deleters, pc'[d] \in Deleting
               PROVE  /\ doomed'[d] = IF d \in Purges THEN versions' ELSE versions' \ Creates
                      /\ todo'[d] \subseteq doomed'[d]
                      /\ pc'[d] # "deleting" => todo'[d] = {}
                      /\ objects' \cap doomed'[d] \subseteq todo'[d]
    BY DEF Plans
  <2> QED
    BY NamesAssumption DEF IInv, Plans, PcOK, TypeOK, Release, Lock, Free, Go, data, plan, ghosts, Owning, Deleting, Writing, Charging, Writers, Deleters, Ops
<1>6. Uploads'
  BY NamesAssumption DEF IInv, Uploads, PcOK, TypeOK, Release, Lock, Free, Go, data, plan, ghosts, Owning, Deleting, Writing, Charging, Writers, Deleters, Ops
<1>7. Missing'
  <2> SUFFICES ASSUME NEW v \in versions', v \notin torn', v \notin objects'
               PROVE  \E d \in Deleters : pc'[d] \in Deleting /\ v \in doomed'[d]
    BY DEF Missing
  <2> QED
    BY NamesAssumption DEF IInv, Missing, PcOK, TypeOK, Release, Lock, Free, Go, data, plan, ghosts, Owning, Deleting, Writing, Charging, Writers, Deleters, Ops
<1>8. Strays'
  BY NamesAssumption DEF IInv, Strays, PcOK, TypeOK, Release, Lock, Free, Go, data, plan, ghosts, Owning, Deleting, Writing, Charging, Writers, Deleters, Ops
<1>9. Ledger'
  BY NamesAssumption DEF IInv, Ledger, TypeOK, Release, Lock, Free, Go, data, plan, ghosts, Owning, Deleting, Writing, Charging, Writers, Deleters, Ops
<1> QED  BY <1>1, <1>p, <1>2, <1>3, <1>4, <1>5, <1>6, <1>7, <1>8, <1>9 DEF IInv

LEMMA CommitWriteKeeps ==
  ASSUME IInv, NEW o \in Ops, CommitWrite(o) PROVE IInv'
<1>1. /\ o \in Writers /\ pc[o] = "committing" /\ "workspace" \in held[o]
      /\ workspace # "gone" /\ o \in objects /\ o \notin versions
  BY DEF IInv, CommitWrite, WritersLock, Uploads, Writing
<1>2. /\ versions' = versions \cup {o} /\ used' = used + 1
      /\ held' = [held EXCEPT ![o] = {}] /\ pc' = [pc EXCEPT ![o] = "done"]
      /\ UNCHANGED <<workspace, document, objects, doomed, todo>>
      /\ UNCHANGED <<excused, torn, toggles, faults>>
  BY DEF CommitWrite, Unlock, Go, plan, ghosts
<1>3. \A d \in Deleters : pc[d] \notin Deleting
  BY <1>1, NamesAssumption
     DEF IInv, Exclusion, PurgesLock, DocPurgesLock, Owning, Deleting, Deleters, Ops
<1>4. TypeOK'
  BY <1>1, <1>2 DEF IInv, TypeOK, Versions, Pcs, Ops
<1>5. PcOK' /\ Exclusion'
  BY <1>1, <1>2, NamesAssumption DEF IInv, TypeOK, PcOK, Exclusion, Ops
<1>6. PurgesLock' /\ DocPurgesLock' /\ WritersLock'
  BY <1>1, <1>2, NamesAssumption
     DEF IInv, TypeOK, PurgesLock, DocPurgesLock, WritersLock, Charging, Owning, Deleting, Deleters,
         Writers, Ops
<1>7. \A d \in Deleters : pc'[d] \notin Deleting
  BY <1>1, <1>2, <1>3, NamesAssumption DEF IInv, TypeOK, Ops
<1>8. Plans'
  BY <1>7 DEF Plans
<1>9. Uploads' /\ Strays'
  BY <1>1, <1>2 DEF IInv, TypeOK, Uploads, Strays, Writing, Ops
<1>10. Missing'
  BY <1>1, <1>2, <1>3 DEF IInv, Missing
<1>11. Ledger'
  <2>1. IsFiniteSet(versions)
    BY VersionsFinite DEF IInv, TypeOK
  <2>2. Cardinality(versions \cup {o}) = Cardinality(versions) + 1
    BY <1>1, <2>1, FS_AddElement
  <2> QED  BY <1>1, <1>2, <2>2 DEF IInv, Ledger
<1> QED  BY <1>4, <1>5, <1>6, <1>8, <1>9, <1>10, <1>11 DEF IInv

LEMMA CommitPurgeKeeps ==
  ASSUME IInv, NEW o \in Ops, CommitPurge(o) PROVE IInv'
<1> DEFINE rest == IF o \in Purges THEN {} ELSE versions \cap Creates
<1>1. /\ o \in Deleters /\ pc[o] = "committing"
      /\ "workspace" \in held[o] /\ "document" \in held[o]
  BY DEF IInv, CommitPurge, PurgesLock, DocPurgesLock, Owning, Deleting, Deleters
<1>2. /\ versions' = rest /\ document' = "gone"
      /\ workspace' = IF o \in Purges THEN "gone" ELSE workspace
      /\ used' = Max({0, used - Cardinality(doomed[o])})
      /\ held' = [held EXCEPT ![o] = {}] /\ pc' = [pc EXCEPT ![o] = "done"]
      /\ UNCHANGED <<objects, doomed, todo>>
      /\ UNCHANGED <<excused, torn, toggles, faults>>
  BY DEF CommitPurge, Unlock, Go, plan, ghosts
<1>3. \A p \in Ops \ {o} : "workspace" \notin held[p] /\ "document" \notin held[p]
  BY <1>1 DEF IInv, Exclusion
<1>4. /\ \A p \in Purges \ {o} : pc[p] \notin Owning
      /\ \A q \in DocPurges \ {o} : pc[q] \notin Owning
  BY <1>3 DEF IInv, PurgesLock, DocPurgesLock, Deleters, Ops
<1>5. \A d \in Deleters \ {o} : pc[d] \notin Owning
  BY <1>4 DEF Deleters
<1>6. /\ doomed[o] = versions \ rest /\ rest \subseteq versions
      /\ objects \cap doomed[o] = {}
  BY <1>1 DEF IInv, Plans, Deleting
<1>7. \A d \in Deleters : pc'[d] \notin Owning
  BY <1>1, <1>2, <1>5 DEF IInv, TypeOK, Ops, Owning
<1>8. Ledger'
  <2>1. IsFiniteSet(versions) /\ IsFiniteSet(rest) /\ IsFiniteSet(doomed[o])
    <3>1. versions \in SUBSET Versions /\ rest \in SUBSET Versions /\ doomed[o] \in SUBSET Versions
      BY <1>6 DEF IInv, TypeOK
    <3> QED  BY <3>1, VersionsFinite
  <2>2. versions = rest \cup doomed[o] /\ rest \cap doomed[o] = {}
    BY <1>6
  <2>3. Cardinality(versions) = Cardinality(rest) + Cardinality(doomed[o])
    <3>1. Cardinality(rest \cup doomed[o]) =
              Cardinality(rest) + Cardinality(doomed[o]) - Cardinality(rest \cap doomed[o])
      BY <2>1, FS_Union
    <3>2. Cardinality(rest \cap doomed[o]) = 0
      BY <2>2, FS_EmptySet
    <3>3. Cardinality(rest) \in Nat /\ Cardinality(doomed[o]) \in Nat
      BY <2>1, FS_CardinalityType
    <3>4. Cardinality(versions) = Cardinality(rest \cup doomed[o])
      BY <2>2
    <3>5. Cardinality(rest) + Cardinality(doomed[o]) - 0 =
              Cardinality(rest) + Cardinality(doomed[o])
      BY <3>3
    <3> HIDE DEF rest
    <3> QED  BY <3>1, <3>2, <3>4, <3>5
  <2>4. used - Cardinality(doomed[o]) = Cardinality(rest) /\ Cardinality(rest) \in Nat
    <3>1. Cardinality(rest) \in Nat /\ Cardinality(doomed[o]) \in Nat
      BY <2>1, FS_CardinalityType
    <3> QED  BY <2>3, <3>1 DEF IInv, Ledger
  <2>5. used' = Cardinality(versions')
    BY <1>2, <2>4, MaxOfNat
  <2>6. workspace' = "gone" => versions' = {}
    BY <1>2 DEF IInv, Ledger
  <2> QED  BY <2>5, <2>6 DEF Ledger
<1>9. TypeOK'
  <2>1. used' \in Nat
    <3>1. versions' \in SUBSET Versions
      BY <1>2 DEF IInv, TypeOK
    <3> QED  BY <1>8, <3>1, VersionsFinite, FS_CardinalityType DEF Ledger
  <2> QED  BY <1>1, <1>2, <2>1 DEF IInv, TypeOK, Pcs, Ops
<1>10. PcOK' /\ Exclusion'
  BY <1>1, <1>2, NamesAssumption DEF IInv, TypeOK, PcOK, Exclusion, Ops
<1>11. PurgesLock' /\ DocPurgesLock'
  BY <1>7 DEF PurgesLock, DocPurgesLock, Owning, Deleting, Deleters
<1>12. WritersLock'
  <2>1. \A w \in Writers : pc[w] # "committing"
    BY <1>1, <1>3, NamesAssumption DEF IInv, WritersLock, Ops
  <2>2. \A w \in Writers : pc'[w] = pc[w] /\ held'[w] = held[w]
    BY <1>1, <1>2, NamesAssumption DEF IInv, TypeOK, Ops
  <2> QED  BY <2>1, <2>2 DEF IInv, WritersLock, Writers
<1>13. Plans'
  BY <1>7 DEF Plans, Owning, Deleting
<1>14. Uploads'
  BY <1>1, <1>2, <1>6, NamesAssumption DEF IInv, TypeOK, Uploads, Ops
<1>15. Missing'
  BY <1>2, <1>5, <1>6 DEF IInv, Missing, Owning, Deleting
<1>16. Strays'
  BY <1>1, <1>2, <1>6, NamesAssumption DEF IInv, TypeOK, Strays, Ops
<1> QED
  BY <1>8, <1>9, <1>10, <1>11, <1>12, <1>13, <1>14, <1>15, <1>16 DEF IInv

(* A transaction that is rolled back.                                       *)
LEMMA AbortKeeps ==
  ASSUME IInv, NEW o \in Ops, Abort(o),
         o \in Writers => pc[o] \in Writing,
         excused \subseteq excused', excused' \subseteq Ops,
         toggles' \in 0..MaxToggles, faults' \in 0..MaxFaults
  PROVE  IInv'
<1>1. /\ held' = [held EXCEPT ![o] = {}]
      /\ pc' = [pc EXCEPT ![o] = IF o \in Writers THEN "sweeping" ELSE "failed"]
      /\ torn' = IF o \in Deleters THEN torn \cup (doomed[o] \ objects) ELSE torn
      /\ UNCHANGED <<workspace, document, versions, used, objects, doomed, todo>>
  BY DEF Abort, AfterAbort, Unlock, Go, data, plan
<1>2. TypeOK'
  BY <1>1 DEF IInv, TypeOK, Pcs, Ops
<1>3. PcOK' /\ Exclusion'
  BY <1>1, NamesAssumption DEF IInv, TypeOK, PcOK, Exclusion, Ops
<1>4. PurgesLock' /\ DocPurgesLock' /\ WritersLock'
  BY <1>1, NamesAssumption
     DEF IInv, TypeOK, PurgesLock, DocPurgesLock, WritersLock, Charging, Owning, Deleting, Deleters,
         Writers, Ops
<1>5. \A d \in Deleters : pc'[d] \in Deleting => d # o /\ pc'[d] = pc[d]
  BY <1>1, NamesAssumption DEF IInv, TypeOK, Deleting, Ops
<1>6. Plans'
  BY <1>1, <1>5 DEF IInv, Plans
<1>7. Uploads'
  BY <1>1, NamesAssumption DEF IInv, TypeOK, Uploads, Writing, Ops
<1>8. Missing'
  <2> SUFFICES ASSUME NEW v \in versions, v \notin torn', v \notin objects
               PROVE  \E d \in Deleters : pc'[d] \in Deleting /\ v \in doomed[d]
    BY <1>1 DEF Missing
  <2>1. PICK d \in Deleters : pc[d] \in Deleting /\ v \in doomed[d]
    BY <1>1 DEF IInv, Missing
  <2>2. d # o
    BY <1>1, <2>1
  <2> QED  BY <1>1, <2>1, <2>2 DEF IInv, TypeOK, Ops
<1>9. Strays'
  BY <1>1, NamesAssumption DEF IInv, TypeOK, Strays, Ops
<1>10. Ledger'
  BY <1>1 DEF IInv, Ledger
<1> QED
  BY <1>2, <1>3, <1>4, <1>6, <1>7, <1>8, <1>9, <1>10 DEF IInv

LEMMA FaultKeeps ==
  ASSUME IInv, NEW o \in Ops, Fault(o) PROVE IInv'
<1>1. o \in Writers => pc[o] \in Writing
  BY DEF IInv, PcOK, Fault, InTransaction, Writing
<1>2. faults' \in 0..MaxFaults
  BY BoundsAssumption DEF IInv, TypeOK, Fault
<1> QED
  BY <1>1, <1>2, AbortKeeps DEF IInv, TypeOK, Fault

LEMMA VictimKeeps ==
  ASSUME IInv, NEW o \in Ops, Victim(o) PROVE IInv'
<1>1. \E p \in Ops : Wanted(o) \in held[p]
  BY DEF Victim, Deadlocked, WaitsFor
<1>2. Wanted(o) # None
  BY <1>1, NamesAssumption DEF IInv, TypeOK
<1>3. o \in Writers => pc[o] \in Writing
  BY <1>2, NamesAssumption DEF Wanted, Writing, Deleters, IInv, PcOK
<1> QED
  BY <1>3, AbortKeeps DEF IInv, TypeOK, Victim

LEMMA LockDocumentKeeps ==
  ASSUME IInv, NEW o \in Ops, LockDocument(o) PROVE IInv'
<1>1. o \in Appends /\ o \in Writers /\ pc[o] = "locking"
  BY DEF LockDocument, Writers
<1>2. CASE document # "active"
  BY <1>1, <1>2, AbortKeeps DEF LockDocument, Writing, IInv, TypeOK
<1>3. CASE document = "active"
  <2>1. /\ Free(o, "document")
        /\ held' = [held EXCEPT ![o] = @ \cup {"document"}]
        /\ pc' = [pc EXCEPT ![o] = "charging"]
        /\ UNCHANGED <<workspace, document, versions, used, objects, doomed, todo>>
        /\ UNCHANGED <<excused, torn, toggles, faults>>
    BY <1>3 DEF LockDocument, Lock, Go, data, plan, ghosts
  <2>2. TypeOK'
    BY <2>1 DEF IInv, TypeOK, Pcs, Rows
  <2>3. PcOK' /\ Exclusion'
    BY <1>1, <2>1, NamesAssumption DEF IInv, TypeOK, PcOK, Exclusion, Free, Writing, Ops
  <2>4. PurgesLock' /\ DocPurgesLock' /\ WritersLock'
    BY <1>1, <2>1, NamesAssumption
       DEF IInv, TypeOK, PurgesLock, DocPurgesLock, WritersLock, Charging, Owning, Deleting, Deleters,
           Writers, Ops
  <2>5. \A d \in Deleters : pc'[d] = pc[d]
    BY <1>1, <2>1, NamesAssumption DEF IInv, TypeOK, Ops
  <2>6. Plans' /\ Missing'
    BY <2>1, <2>5 DEF IInv, Plans, Missing
  <2>7. Uploads' /\ Strays'
    BY <1>1, <2>1 DEF IInv, TypeOK, Uploads, Strays, Writing, Ops
  <2> QED  BY <2>1, <2>2, <2>3, <2>4, <2>6, <2>7 DEF IInv, Ledger
<1> QED  BY <1>2, <1>3

LEMMA TouchWorkspaceKeeps ==
  ASSUME IInv, NEW o \in Ops, TouchWorkspace(o) PROVE IInv'
<1>1. o \in Writers /\ pc[o] = "touching"
  BY DEF TouchWorkspace, IInv, PcOK, Owning, Ops
<1>2. CASE workspace = "gone"
  BY <1>1, <1>2, AbortKeeps DEF TouchWorkspace, Writing, IInv, TypeOK
<1>3. CASE workspace # "gone"
  <2>1. /\ Free(o, "workspace")
        /\ held' = [held EXCEPT ![o] = @ \cup {"workspace"}]
        /\ pc' = [pc EXCEPT ![o] = "committing"]
        /\ UNCHANGED <<workspace, document, versions, used, objects, doomed, todo>>
        /\ UNCHANGED <<excused, torn, toggles, faults>>
    BY <1>3 DEF TouchWorkspace, Lock, Go, data, plan, ghosts
  <2>2. TypeOK'
    BY <2>1 DEF IInv, TypeOK, Pcs, Rows
  <2>3. PcOK' /\ Exclusion'
    BY <1>1, <2>1, NamesAssumption DEF IInv, TypeOK, PcOK, Exclusion, Free, Writing, Ops
  <2>4. PurgesLock' /\ DocPurgesLock'
    BY <1>1, <2>1, NamesAssumption
       DEF IInv, TypeOK, PurgesLock, DocPurgesLock, Owning, Deleting, Deleters, Ops
  <2>5. WritersLock'
    BY <1>1, <1>3, <2>1 DEF IInv, TypeOK, WritersLock, Charging, Writers, Ops
  <2>6. \A d \in Deleters : pc'[d] = pc[d]
    BY <1>1, <2>1, NamesAssumption DEF IInv, TypeOK, Ops
  <2>7. Plans' /\ Missing'
    BY <2>1, <2>6 DEF IInv, Plans, Missing
  <2>8. Uploads' /\ Strays'
    BY <1>1, <2>1 DEF IInv, TypeOK, Uploads, Strays, Writing, Ops
  <2> QED  BY <2>1, <2>2, <2>3, <2>4, <2>5, <2>7, <2>8 DEF IInv, Ledger
<1> QED  BY <1>2, <1>3

-----------------------------------------------------------------------------

\* The inductive invariant of every run of the workspace's transactions.
THEOREM PurgeInvariant == Spec => []IInv
<1>1. IInv /\ UNCHANGED vars => IInv'
  BY DEF vars, IInv, TypeOK, PcOK, Exclusion, PurgesLock, DocPurgesLock, WritersLock, Plans, Uploads,
         Missing, Strays, Ledger
<1>2. ASSUME IInv, NEW o \in Ops, Step(o) PROVE IInv'
  BY <1>2, CheckKeeps, PutObjectKeeps, LockDocumentKeeps, ReserveKeeps, TouchWorkspaceKeeps,
     CommitWriteKeeps, SweepKeeps, LockWorkspaceKeeps, LockPurgedDocumentKeeps, ReadDocumentsKeeps,
     ReadDocumentKeeps, DeleteObjectKeeps, DeleteRowsKeeps, ReleaseKeeps, CommitPurgeKeeps DEF Step
<1>3. IInv /\ Next => IInv'
  BY <1>2, ToggleKeeps, BeginKeeps, FaultKeeps, VictimKeeps DEF Next
<1> QED  BY InitIInv, <1>1, <1>3, PTL DEF Spec

\* A workspace out of the trash can be opened whole, whatever purges, uploads
\* and appends run beside each other (purge, workspaces/service.ts:313-420).
THEOREM PurgeKeepsActive == Spec => []ActiveKeepsItsBytes
<1>1. IInv => ActiveKeepsItsBytes
  <2> SUFFICES ASSUME IInv, workspace = "active",
                      NEW v \in versions, v \notin torn, v \notin objects
               PROVE  document # "active" /\ v \notin Creates
    BY DEF ActiveKeepsItsBytes
  <2>1. PICK d \in Deleters : pc[d] \in Deleting /\ v \in doomed[d]
    BY DEF IInv, Missing
  <2>2. d \notin Purges
    BY <2>1 DEF IInv, PurgesLock, Owning, Deleting
  <2>3. document = "trashed"
    BY <2>1, <2>2 DEF IInv, DocPurgesLock, Owning, Deleting, Deleters
  <2> QED  BY <2>1, <2>2, <2>3 DEF IInv, Plans
<1> QED  BY <1>1, PurgeInvariant, PTL

\* A workspace that is gone leaves no charge and no object behind, once its
\* uploads and appends have ended.
THEOREM PurgeIsComplete == Spec => []PurgeLeavesNothing
<1>1. IInv => PurgeLeavesNothing
  BY FS_EmptySet DEF IInv, Ledger, Strays, Writing, PurgeLeavesNothing
<1> QED  BY <1>1, PurgeInvariant, PTL

=============================================================================
