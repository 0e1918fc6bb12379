------------------------ MODULE ThreadContext_proofs ------------------------
(***************************************************************************)
(* What the checkpoints of a thread stand for, for any number of runs and  *)
(* compactions and any Retain > 0: a boundary covers exactly the messages  *)
(* its checkpoint carries, though a message may be committed after a later *)
(* one, and the checkpoint the runs read never carries less than before.   *)
(* And what the model calls of all of them cost the user: the credit is    *)
(* counted in units, each debited for the usage event of one bill.         *)
(***************************************************************************)
EXTENDS ThreadContext, FiniteSetTheorems, SequenceTheorems, WellFoundedInduction, TLAPS

-----------------------------------------------------------------------------
(* Sets of places in the order of messages.                                *)

LEMMA LeastExists ==
  ASSUME NEW S \in SUBSET Nat, S # {}
  PROVE  \E x \in S : \A y \in S : x =< y
<1>1. PICK x \in S : \A y \in S : ~ (<<y, x>> \in OpToRel(<, Nat))
  BY NatLessThanWellFounded, WFMin
<1>2. \A y \in S : ~ (y < x)
  BY <1>1 DEF OpToRel
<1> QED  BY <1>2

LEMMA GreatestIsMax ==
  ASSUME NEW n \in Nat, NEW S \in SUBSET (0..n), S # {}
  PROVE  Max(S) \in S /\ \A y \in S : y =< Max(S)
<1> DEFINE T == {m \in Nat : \A y \in S : y =< m}
<1>1. n \in T
  OBVIOUS
<1>2. PICK x \in T : \A y \in T : x =< y
  BY <1>1, LeastExists
<1>3. x \in S
  <2> SUFFICES ASSUME x \notin S PROVE FALSE
    OBVIOUS
  <2>1. \A y \in S : y \in Nat /\ y < x
    BY <1>2
  <2>2. x - 1 \in Nat
    <3>1. PICK s \in S : s \in Nat /\ s < x
      BY <2>1
    <3> QED  BY <3>1, <1>2
  <2>3. x - 1 \in T
    BY <2>1, <2>2, <1>2
  <2> QED  BY <2>3, <1>2
<1> QED  BY <1>2, <1>3 DEF Max

LEMMA MessagesFinite ==
  /\ IsFiniteSet(Messages)
  /\ \A S \in SUBSET Messages : IsFiniteSet(S)
<1>1. IsFiniteSet(Messages)
  BY FS_Interval, ContextAssumption DEF Messages
<1> QED  BY <1>1, FS_Subset

\* Of the oldest messages none before one of them is missing.
LEMMA OldestIsPrefix ==
  ASSUME NEW S \in SUBSET Messages, NEW n \in Int,
         NEW m \in Oldest(n, S), NEW l \in S, l < m
  PROVE  l \in Oldest(n, S)
<1> DEFINE L == {x \in S : x < l}  M == {x \in S : x < m}
<1>1. L \subseteq M
  <2>1. m \in Int /\ l \in Int /\ S \subseteq Int
    BY ContextAssumption DEF Oldest, Messages
  <2>2. ASSUME NEW x \in S, x < l PROVE x < m
    BY <2>1, <2>2
  <2> QED  BY <2>2
<1>2. IsFiniteSet(M) /\ IsFiniteSet(L)
  BY MessagesFinite
<1>3. Cardinality(L) =< Cardinality(M) /\ Cardinality(L) \in Nat /\ Cardinality(M) \in Nat
  BY <1>1, <1>2, FS_Subset, FS_CardinalityType
<1>4. Cardinality(M) < n
  BY DEF Oldest
<1> QED  BY <1>3, <1>4 DEF Oldest

-----------------------------------------------------------------------------
(* The inductive invariant.                                                *)

ContextTypeOK ==
    /\ taken \in 0..MaxMessages
    /\ messages \in SUBSET (1..taken)
    /\ checkpoints \in Seq(Checkpoints)
    /\ at \in [Tasks -> {"none", "begun", "reading", "loading", "counting",
                         "listing", "asking", "model", "judging", "writing",
                         "done"}]
    /\ own \in [Runs -> 0..MaxMessages]
    /\ base \in [Tasks -> Checkpoints]
    /\ tail \in [Compactions -> 0..MaxMessages]
    /\ picked \in [Compactions -> SUBSET Messages]
    /\ context \in [Runs -> SUBSET Messages]
    /\ before \in [Runs -> SUBSET Messages]

Waiting(r) == at[r] = "begun"

\* One run of the thread is active and one waits for it to end.
OneAtATime ==
    /\ \A r, s \in Runs : Waiting(r) /\ Waiting(s) => r = s
    /\ \A r, s \in Runs : ActiveRun(r) /\ ActiveRun(s) => r = s

\* A message that waits for its commit can be overtaken by one other, the last
\* of the run it waits for.
Overtaken ==
    \A r \in Runs : Waiting(r) =>
        /\ own[r] \in 1..taken /\ own[r] \notin messages
        /\ \A l, m \in messages : l > own[r] /\ m > own[r] => l = m
        /\ (\E s \in Runs : ActiveRun(s)) => \A m \in messages : m < own[r]

\* Nothing that is still to be committed falls behind a boundary.
Passed(boundary) ==
    boundary =< taken /\ \A r \in Runs : Waiting(r) => boundary < own[r]

True(c) == Passed(c.through) /\ c.carries = {m \in messages : m =< c.through}

TrueCheckpoints == \A i \in DOMAIN checkpoints : True(checkpoints[i])

Known == {NoCheckpoint} \cup {checkpoints[i] : i \in DOMAIN checkpoints}

BasesKnown == \A t \in Tasks : base[t] \in Known

\* More messages may have come since a compaction counted, but none is gone.
Counted ==
    \A k \in Compactions :
        at[k] = "listing" => tail[k] =< Cardinality(After(base[k]))

\* What a compaction hands to the model is everything between its base and its
\* own boundary, and stays so.
PickedWhole ==
    \A k \in Compactions :
        at[k] \in {"asking", "model", "judging", "writing"} =>
            /\ Boundary(k) \in picked[k] /\ Passed(Boundary(k))
            /\ picked[k] = {m \in After(base[k]) : m =< Boundary(k)}

IInv ==
    /\ ContextTypeOK /\ OneAtATime /\ Overtaken
    /\ TrueCheckpoints /\ BasesKnown /\ Counted /\ PickedWhole /\ RecentIsRemembered

USE GrantAssumption, ContextAssumption

LEMMA KnownIsTrue ==
  ASSUME ContextTypeOK, Overtaken, TrueCheckpoints, NEW c \in Known
  PROVE  True(c)
<1>1. CASE c = NoCheckpoint
  <2>1. Passed(0)
    BY DEF ContextTypeOK, Overtaken, Passed
  <2>2. {m \in messages : m =< 0} = {}
    <3>1. \A m \in messages : m \in Int /\ 1 =< m
      BY DEF ContextTypeOK
    <3> QED  BY <3>1
  <2> QED  BY <1>1, <2>1, <2>2 DEF True, NoCheckpoint
<1>2. CASE \E i \in DOMAIN checkpoints : c = checkpoints[i]
  BY <1>2 DEF TrueCheckpoints
<1> QED  BY <1>1, <1>2 DEF Known

LEMMA KnownAreCheckpoints == ContextTypeOK => Known \subseteq Checkpoints
<1>1. NoCheckpoint \in Checkpoints
  BY DEF NoCheckpoint, Checkpoints
<1>2. ContextTypeOK => \A i \in DOMAIN checkpoints : checkpoints[i] \in Checkpoints
  BY DEF ContextTypeOK
<1> QED  BY <1>1, <1>2 DEF Known

\* Latest is a checkpoint there is, and none has a boundary beyond its own.
LEMMA LatestIsFurthest ==
  ASSUME ContextTypeOK
  PROVE  /\ Latest \in Known
         /\ \A c \in Known : c.through =< Latest.through
<1>1. CASE checkpoints = <<>>
  BY <1>1 DEF Latest, Known, NoCheckpoint
<1>2. CASE checkpoints # <<>>
  <2> DEFINE Bounds == {checkpoints[i].through : i \in DOMAIN checkpoints}
             AtIt == {i \in DOMAIN checkpoints : checkpoints[i].through = Max(Bounds)}
  <2>1. /\ DOMAIN checkpoints = 1..Len(checkpoints) /\ Len(checkpoints) \in Nat
        /\ 1 \in DOMAIN checkpoints
        /\ \A i \in DOMAIN checkpoints : checkpoints[i].through \in 0..MaxMessages
    <3>1. DOMAIN checkpoints = 1..Len(checkpoints) /\ Len(checkpoints) \in Nat
      BY DEF ContextTypeOK
    <3>2. Len(checkpoints) # 0
      BY <1>2, EmptySeq DEF ContextTypeOK
    <3>3. \A i \in DOMAIN checkpoints : checkpoints[i] \in Checkpoints
      BY DEF ContextTypeOK
    <3> QED  BY <3>1, <3>2, <3>3 DEF Checkpoints
  <2>2. Bounds \in SUBSET (0..MaxMessages) /\ Bounds # {}
    BY <2>1
  <2>3. Max(Bounds) \in Bounds /\ \A y \in Bounds : y =< Max(Bounds)
    BY <2>2, GreatestIsMax
  <2>4. AtIt \in SUBSET (0..Len(checkpoints)) /\ AtIt # {}
    <3>1. PICK i \in DOMAIN checkpoints : checkpoints[i].through = Max(Bounds)
      BY <2>3
    <3>2. i \in AtIt
      BY <3>1
    <3>3. AtIt \subseteq 0..Len(checkpoints)
      BY <2>1
    <3> QED  BY <3>2, <3>3
  <2>5. Max(AtIt) \in AtIt
    <3> HIDE DEF AtIt
    <3> QED  BY <2>1, <2>4, GreatestIsMax
  <2>6. Latest = checkpoints[Max(AtIt)]
    BY <1>2 DEF Latest
  <2>7. Latest \in Known /\ Latest.through = Max(Bounds)
    BY <2>5, <2>6 DEF Known
  <2>8. \A i \in DOMAIN checkpoints : checkpoints[i].through =< Latest.through
    <3> HIDE DEF AtIt
    <3> QED  BY <2>3, <2>7
  <2>9. 0 =< Latest.through
    <3> HIDE DEF AtIt
    <3>1. Max(Bounds) \in 0..MaxMessages
      BY <2>2, <2>3
    <3> QED  BY <2>7, <3>1
  <2>10. ASSUME NEW c \in Known PROVE c.through =< Latest.through
    <3> HIDE DEF AtIt, Bounds
    <3>1. CASE c = NoCheckpoint
      BY <2>9, <3>1 DEF NoCheckpoint
    <3>2. CASE \E i \in DOMAIN checkpoints : c = checkpoints[i]
      BY <2>8, <3>2
    <3> QED  BY <3>1, <3>2 DEF Known
  <2> QED  BY <2>7, <2>10
<1> QED  BY <1>1, <1>2

LEMMA InitIInv == Init => IInv
<1> SUFFICES ASSUME Init PROVE IInv
  OBVIOUS
<1>1. NoCheckpoint \in Checkpoints
  BY DEF NoCheckpoint, Checkpoints
<1>2. ContextTypeOK
  BY <1>1 DEF Init, ContextTypeOK, Tasks
<1>3. OneAtATime /\ Overtaken
  BY DEF Init, OneAtATime, Overtaken, Waiting, ActiveRun, Tasks
<1>4. TrueCheckpoints /\ BasesKnown
  BY DEF Init, TrueCheckpoints, BasesKnown, Known
<1>5. Counted /\ PickedWhole
  BY DEF Init, Counted, PickedWhole, Tasks
<1>6. RecentIsRemembered
  BY DEF Init, RecentIsRemembered, Newest
<1> QED  BY <1>2, <1>3, <1>4, <1>5, <1>6 DEF IInv

-----------------------------------------------------------------------------
(* Messages are added behind nothing.                                      *)

\* A new message after every boundary leaves checkpoints and picks true.
LEMMA NewMessageKeeps ==
  ASSUME IInv, ContextTypeOK', NEW m \in Messages, messages' = messages \cup {m},
         \A n \in 0..MaxMessages : Passed(n) => n < m,
         taken' >= taken, \A r \in Runs : Waiting(r)' => Waiting(r) /\ own'[r] = own[r],
         UNCHANGED <<checkpoints, base, tail, picked>>,
         \A k \in Compactions : at'[k] = at[k] \/ at'[k] = "reading"
  PROVE  TrueCheckpoints' /\ BasesKnown' /\ Counted' /\ PickedWhole'
<1>1. \A n \in 0..MaxMessages : Passed(n) => n < m /\ Passed(n)'
  <2> SUFFICES ASSUME NEW n \in 0..MaxMessages, Passed(n) PROVE n < m /\ Passed(n)'
    OBVIOUS
  <2>1. Passed(n)'
    BY DEF Passed, IInv, ContextTypeOK
  <2> QED  BY <2>1
<1>2. TrueCheckpoints'
  <2> SUFFICES ASSUME NEW i \in DOMAIN checkpoints PROVE True(checkpoints[i])'
    BY DEF TrueCheckpoints
  <2>1. True(checkpoints[i]) /\ checkpoints[i] \in Checkpoints
    BY DEF IInv, TrueCheckpoints, ContextTypeOK
  <2>2. checkpoints[i].through < m /\ Passed(checkpoints[i].through)'
    BY <1>1, <2>1 DEF True, Checkpoints
  <2>3. {l \in messages' : l =< checkpoints[i].through} = {l \in messages : l =< checkpoints[i].through}
    BY <2>1, <2>2 DEF Checkpoints, Messages
  <2> QED  BY <2>1, <2>2, <2>3 DEF True
<1>3. BasesKnown'
  BY DEF IInv, BasesKnown, Known
<1>4. Counted'
  <2> SUFFICES ASSUME NEW k \in Compactions, at'[k] = "listing"
               PROVE  tail[k] =< Cardinality(After(base[k])')
    BY DEF Counted, After
  <2>1. tail[k] =< Cardinality(After(base[k]))
    BY DEF IInv, Counted
  <2>2. After(base[k]) \subseteq After(base[k])' /\ IsFiniteSet(After(base[k])')
    <3>1. messages' \subseteq Messages
      BY DEF ContextTypeOK, Messages
    <3>2. After(base[k])' \in SUBSET Messages
      BY <3>1 DEF After
    <3> QED  BY <3>2, MessagesFinite DEF After
  <2>3. /\ Cardinality(After(base[k])) =< Cardinality(After(base[k])')
        /\ Cardinality(After(base[k])) \in Nat /\ Cardinality(After(base[k])') \in Nat
    BY <2>2, FS_Subset, FS_CardinalityType
  <2> QED  BY <2>1, <2>3 DEF IInv, ContextTypeOK
<1>5. PickedWhole'
  <2> SUFFICES ASSUME NEW k \in Compactions, at'[k] \in {"asking", "model", "judging", "writing"}
               PROVE  /\ Boundary(k) \in picked[k] /\ Passed(Boundary(k))'
                      /\ picked[k] = {l \in After(base[k])' : l =< Boundary(k)}
    BY DEF PickedWhole, Boundary, After
  <2>1. /\ Boundary(k) \in picked[k] /\ Passed(Boundary(k))
        /\ picked[k] = {l \in After(base[k]) : l =< Boundary(k)}
    BY DEF IInv, PickedWhole
  <2>2. Boundary(k) \in Messages /\ Boundary(k) \in 0..MaxMessages
    BY <2>1 DEF IInv, ContextTypeOK, Messages
  <2>3. Boundary(k) < m /\ Passed(Boundary(k))'
    <3>1. \A n \in 0..MaxMessages : n = Boundary(k) => n < m /\ Passed(n)'
      BY <1>1, <2>1
    <3>2. Boundary(k)' = Boundary(k)
      BY DEF Boundary
    <3> QED  BY <2>2, <3>1, <3>2 DEF Passed
  <2>4. {l \in After(base[k])' : l =< Boundary(k)} = {l \in After(base[k]) : l =< Boundary(k)}
    <3>1. ~ (m =< Boundary(k))
      BY <2>2, <2>3 DEF Messages
    <3> QED  BY <3>1 DEF After
  <2> QED  BY <2>1, <2>3, <2>4
<1> QED  BY <1>2, <1>3, <1>4, <1>5

\* A step that neither adds a message or a checkpoint nor begins or ends a run.
LEMMA QuietKeeps ==
  ASSUME IInv, UNCHANGED <<taken, messages, checkpoints, own>>,
         \A r \in Runs : (Waiting(r)' <=> Waiting(r)) /\ (ActiveRun(r)' => ActiveRun(r))
  PROVE  /\ OneAtATime' /\ Overtaken' /\ TrueCheckpoints'
         /\ Known' = Known /\ \A n \in 0..MaxMessages : Passed(n)' <=> Passed(n)
<1>1. OneAtATime'
  BY DEF IInv, OneAtATime
<1>2. Overtaken'
  BY DEF IInv, Overtaken
<1>3. Known' = Known
  BY DEF Known
<1>4. \A n \in 0..MaxMessages : Passed(n)' <=> Passed(n)
  BY DEF Passed
<1>5. TrueCheckpoints'
  <2> SUFFICES ASSUME NEW i \in DOMAIN checkpoints PROVE True(checkpoints[i])'
    BY DEF TrueCheckpoints
  <2>1. True(checkpoints[i])
    BY DEF IInv, TrueCheckpoints
  <2> QED  BY <2>1 DEF True, Passed
<1> QED  BY <1>1, <1>2, <1>3, <1>4, <1>5

LEMMA ReadLatestKeeps ==
  ASSUME IInv, NEW t \in Tasks, NEW to \in {"loading", "counting"}, ReadLatest(t, "reading", to)
  PROVE  IInv'
<1>1. /\ at[t] = "reading" /\ at' = [at EXCEPT ![t] = to] /\ base' = [base EXCEPT ![t] = Latest]
      /\ UNCHANGED <<taken, messages, checkpoints, own, tail, picked, context, before>>
  BY DEF ReadLatest, Move
<1>2. Latest \in Known /\ Latest \in Checkpoints
  BY LatestIsFurthest, KnownAreCheckpoints DEF IInv
<1>3. ContextTypeOK'
  BY <1>1, <1>2 DEF IInv, ContextTypeOK
<1>4. \A r \in Runs : (Waiting(r)' <=> Waiting(r)) /\ (ActiveRun(r)' => ActiveRun(r))
  BY <1>1 DEF IInv, ContextTypeOK, Waiting, ActiveRun, Tasks
<1>5. OneAtATime' /\ Overtaken' /\ TrueCheckpoints' /\ Known' = Known
  BY <1>1, <1>4, QuietKeeps
<1>6. BasesKnown'
  BY <1>1, <1>2, <1>5 DEF IInv, ContextTypeOK, BasesKnown
<1>7. \A k \in Compactions : at'[k] \in {"listing", "asking", "model", "judging", "writing"} =>
          at'[k] = at[k] /\ base'[k] = base[k]
  BY <1>1 DEF IInv, ContextTypeOK, Tasks
<1>8. Counted'
  BY <1>1, <1>7 DEF IInv, Counted, After
<1>9. PickedWhole'
  BY <1>1, <1>4, <1>7 DEF IInv, PickedWhole, After, Boundary, Passed, Waiting, ContextTypeOK
<1>10. RecentIsRemembered'
  BY <1>1 DEF IInv, RecentIsRemembered
<1> QED  BY <1>3, <1>5, <1>6, <1>8, <1>9, <1>10 DEF IInv

Holding == {"asking", "model", "judging", "writing"}

\* A run or a compaction goes on to its next statement, and reads nothing.
LEMMA MoveKeeps ==
  ASSUME IInv, NEW t \in Tasks, NEW to \in Holding \cup {"done"}, Move(t, to), at[t] \in Holding,
         UNCHANGED <<taken, messages, checkpoints, own, base, tail, picked, context, before>>
  PROVE  IInv'
<1>1. /\ at' = [at EXCEPT ![t] = to]
      /\ UNCHANGED <<taken, messages, checkpoints, own, base, tail, picked, context, before>>
  BY DEF Move
<1>2. ContextTypeOK'
  BY <1>1 DEF IInv, ContextTypeOK, Holding
<1>3. \A r \in Runs : (Waiting(r)' <=> Waiting(r)) /\ (ActiveRun(r)' => ActiveRun(r))
  BY <1>1 DEF IInv, ContextTypeOK, Waiting, ActiveRun, Tasks, Holding
<1>4. OneAtATime' /\ Overtaken' /\ TrueCheckpoints' /\ Known' = Known
  BY <1>1, <1>3, QuietKeeps
<1>5. BasesKnown'
  BY <1>1, <1>4 DEF IInv, BasesKnown
<1>6. \A k \in Compactions : /\ at'[k] = "listing" => at[k] = "listing"
                             /\ at'[k] \in Holding => at[k] \in Holding
  BY <1>1 DEF IInv, ContextTypeOK, Tasks, Holding
<1>7. Counted'
  BY <1>1, <1>6 DEF IInv, Counted, After
<1>8. PickedWhole'
  BY <1>1, <1>3, <1>6 DEF IInv, PickedWhole, After, Boundary, Passed, Holding
<1>9. RecentIsRemembered'
  BY <1>1 DEF IInv, RecentIsRemembered
<1> QED  BY <1>2, <1>4, <1>5, <1>7, <1>8, <1>9 DEF IInv

LEMMA CountTailKeeps ==
  ASSUME IInv, NEW k \in Compactions, CountTail(k)
  PROVE  IInv'
<1> DEFINE count == Cardinality(After(base[k]))
<1>1. /\ at' = [at EXCEPT ![k] = "listing"] \/ at' = [at EXCEPT ![k] = "done"]
      /\ tail' = [tail EXCEPT ![k] = count] /\ at[k] = "counting"
      /\ UNCHANGED <<taken, messages, checkpoints, own, base, picked, context, before>>
  BY DEF CountTail, Move
<1>2. count \in 0..MaxMessages
  <2>1. After(base[k]) \subseteq Messages
    <3>1. messages \subseteq Messages
      BY DEF IInv, ContextTypeOK, Messages
    <3> QED  BY <3>1 DEF After
  <2>2. Cardinality(Messages) = MaxMessages
    BY FS_Interval DEF Messages
  <2> QED  BY <2>1, <2>2, MessagesFinite, FS_Subset, FS_CardinalityType
<1>3. ContextTypeOK'
  <2> HIDE DEF count
  <2> QED  BY <1>1, <1>2 DEF IInv, ContextTypeOK
<1>4. \A r \in Runs : (Waiting(r)' <=> Waiting(r)) /\ (ActiveRun(r)' => ActiveRun(r))
  BY <1>1 DEF IInv, ContextTypeOK, Waiting, ActiveRun, Tasks
<1>5. OneAtATime' /\ Overtaken' /\ TrueCheckpoints' /\ Known' = Known
  BY <1>1, <1>4, QuietKeeps
<1>6. BasesKnown'
  BY <1>1, <1>5 DEF IInv, BasesKnown
<1>7. Counted'
  <2> SUFFICES ASSUME NEW j \in Compactions, at'[j] = "listing"
               PROVE  tail'[j] =< Cardinality(After(base[j])')
    BY DEF Counted, After
  <2>1. After(base[j])' = After(base[j])
    BY <1>1 DEF After
  <2>2. CASE j = k
    <3>1. tail'[k] = count
      BY <1>1 DEF IInv, ContextTypeOK
    <3> QED  BY <1>2, <2>1, <2>2, <3>1
  <2>3. CASE j # k
    BY <1>1, <2>1, <2>3 DEF IInv, ContextTypeOK, Counted, Tasks
  <2> QED  BY <2>2, <2>3
<1>8. \A j \in Compactions : at'[j] \in Holding => at[j] \in Holding
  BY <1>1 DEF IInv, ContextTypeOK, Tasks, Holding
<1>9. PickedWhole'
  BY <1>1, <1>4, <1>8 DEF IInv, PickedWhole, After, Boundary, Passed, Holding
<1>10. RecentIsRemembered'
  BY <1>1 DEF IInv, RecentIsRemembered
<1> QED  BY <1>3, <1>5, <1>6, <1>7, <1>9, <1>10 DEF IInv

\* A run reads its rows after its checkpoint; a compaction may have advanced
\* the boundary meanwhile, but the checkpoint it has read stays true.
LEMMA LoadHistoryKeeps ==
  ASSUME IInv, NEW r \in Runs, LoadHistory(r)
  PROVE  IInv'
<1> DEFINE rows == After(base[r]) \ {own[r]}
           all == messages \ {own[r]}
<1>1. /\ at[r] = "loading" /\ at' = [at EXCEPT ![r] = "asking"]
      /\ context' = [context EXCEPT ![r] = base[r].carries \cup Newest(History, rows)]
      /\ before' = [before EXCEPT ![r] = all]
      /\ UNCHANGED <<taken, messages, checkpoints, own, base, tail, picked>>
  BY DEF LoadHistory, Loaded, Move
<1>2. ContextTypeOK'
  <2>1. base[r].carries \subseteq Messages
    BY DEF IInv, ContextTypeOK, Checkpoints, Tasks
  <2>2. all \subseteq Messages /\ Newest(History, rows) \subseteq Messages
    <3>1. messages \subseteq Messages
      BY DEF IInv, ContextTypeOK, Messages
    <3> QED  BY <3>1 DEF Newest, After
  <2>3. base[r].carries \cup Newest(History, rows) \in SUBSET Messages
    BY <2>1, <2>2
  <2> HIDE DEF rows, all
  <2> QED  BY <1>1, <2>2, <2>3 DEF IInv, ContextTypeOK
<1>3. \A s \in Runs : (Waiting(s)' <=> Waiting(s)) /\ (ActiveRun(s)' => ActiveRun(s))
  BY <1>1 DEF IInv, ContextTypeOK, Waiting, ActiveRun, Tasks
<1>4. OneAtATime' /\ Overtaken' /\ TrueCheckpoints' /\ Known' = Known
  BY <1>1, <1>3, QuietKeeps
<1>5. BasesKnown'
  BY <1>1, <1>4 DEF IInv, BasesKnown
<1>6. \A k \in Compactions : at'[k] = at[k]
  BY <1>1 DEF IInv, ContextTypeOK, Tasks
<1>7. Counted'
  BY <1>1, <1>6 DEF IInv, Counted, After
<1>8. PickedWhole'
  BY <1>1, <1>3, <1>6 DEF IInv, PickedWhole, After, Boundary, Passed
<1>9. Newest(History, all) \subseteq base[r].carries \cup Newest(History, rows)
  <2> SUFFICES ASSUME NEW m \in Newest(History, all), m \notin base[r].carries
               PROVE  m \in Newest(History, rows)
    OBVIOUS
  <2>1. True(base[r]) /\ base[r] \in Checkpoints
    BY KnownIsTrue DEF IInv, BasesKnown, ContextTypeOK, Tasks
  <2>2. m \in messages /\ m # own[r] /\ m \in Int /\ base[r].through \in Int
    BY <2>1 DEF Newest, IInv, ContextTypeOK, Checkpoints
  <2>3. m \in rows
    BY <2>1, <2>2 DEF True, After
  <2>4. Cardinality({l \in rows : l > m}) =< Cardinality({l \in all : l > m})
    <3>1. {l \in rows : l > m} \subseteq {l \in all : l > m}
      BY DEF After
    <3>2. messages \subseteq Messages
      BY DEF IInv, ContextTypeOK, Messages
    <3>3. IsFiniteSet({l \in all : l > m})
      BY <3>2, MessagesFinite
    <3> QED  BY <3>1, <3>3, FS_Subset
  <2>5. Cardinality({l \in all : l > m}) < History
    BY DEF Newest
  <2>6. Cardinality({l \in rows : l > m}) \in Nat /\ Cardinality({l \in all : l > m}) \in Nat
    <3>1. messages \subseteq Messages
      BY DEF IInv, ContextTypeOK, Messages
    <3>2. IsFiniteSet({l \in all : l > m}) /\ IsFiniteSet({l \in rows : l > m})
      BY <3>1, MessagesFinite DEF After
    <3> QED  BY <3>2, FS_CardinalityType
  <2> QED  BY <2>3, <2>4, <2>5, <2>6 DEF Newest
<1>10. RecentIsRemembered'
  <2> SUFFICES ASSUME NEW s \in Runs PROVE Newest(History, before'[s]) \subseteq context'[s]
    BY DEF RecentIsRemembered, Newest
  <2>1. CASE s = r
    <3>1. before'[r] = all /\ context'[r] = base[r].carries \cup Newest(History, rows)
      BY <1>1 DEF IInv, ContextTypeOK
    <3> HIDE DEF all, rows
    <3> QED  BY <1>9, <2>1, <3>1
  <2>2. CASE s # r
    <3>1. before'[s] = before[s] /\ context'[s] = context[s]
      BY <1>1, <2>2 DEF IInv, ContextTypeOK
    <3> QED  BY <3>1 DEF IInv, RecentIsRemembered
  <2> QED  BY <2>1, <2>2
<1> QED  BY <1>2, <1>4, <1>5, <1>7, <1>8, <1>10 DEF IInv

LEMMA MinOfTwo ==
  ASSUME NEW a \in Nat, NEW b \in Nat
  PROVE  Min({a, b}) \in Nat /\ Min({a, b}) =< b
<1>1. \E x \in {a, b} : \A y \in {a, b} : x =< y
  OBVIOUS
<1> QED  BY <1>1 DEF Min

\* The messages a compaction may take leave the newest behind, so none of them
\* is the one that may have overtaken a message still to be committed.
LEMMA EligibleIsPassed ==
  ASSUME IInv, NEW k \in Compactions, at[k] = "listing", NEW m \in Eligible(k)
  PROVE  m \in After(base[k]) /\ Passed(m)
<1> DEFINE A == After(base[k])
           earlier == {l \in A : l < m}
<1>1. A \subseteq Messages /\ A \subseteq messages /\ messages \subseteq 1..taken /\ IsFiniteSet(A)
  <2>1. messages \subseteq Messages /\ messages \subseteq 1..taken /\ A \subseteq messages
    BY DEF IInv, ContextTypeOK, Messages, After
  <2> QED  BY <2>1, MessagesFinite
<1>2. tail[k] =< Cardinality(A) /\ tail[k] \in Nat
  BY DEF IInv, Counted, ContextTypeOK
<1>3. m \in A /\ Cardinality(earlier) < Min({Trigger, Kept(tail[k])})
  BY DEF Eligible, Oldest
<1>4. Kept(tail[k]) \in Nat
  BY <1>2 DEF Kept
<1>5. Min({Trigger, Kept(tail[k])}) \in Nat /\ Min({Trigger, Kept(tail[k])}) =< Kept(tail[k])
  BY <1>4, MinOfTwo
<1>6. IsFiniteSet(earlier) /\ Cardinality(earlier) \in Nat /\ Cardinality(A) \in Nat
  BY <1>1, FS_Subset, FS_CardinalityType
<1>8. Cardinality(earlier) + 1 < Cardinality(A)
  BY <1>2, <1>3, <1>4, <1>5, <1>6 DEF Kept
<1>9. \E l \in A : l > m
  <2> SUFFICES ASSUME \A l \in A : ~ (l > m) PROVE FALSE
    OBVIOUS
  <2>1. m \in Int /\ A \subseteq Int
    BY <1>1, <1>3 DEF Messages
  <2>2. A = earlier \cup {m} /\ m \notin earlier
    BY <1>3, <2>1
  <2>3. Cardinality(earlier \cup {m}) = Cardinality(earlier) + 1
    BY <1>6, <2>2, FS_AddElement
  <2> HIDE DEF A, earlier
  <2> QED  BY <1>6, <1>8, <2>2, <2>3
<1>10. m =< taken
  <2>1. m \in 1..taken
    <3> HIDE DEF A
    <3> QED  BY <1>1, <1>3
  <2>2. taken \in Int
    BY DEF IInv, ContextTypeOK
  <2> QED  BY <2>1, <2>2
<1>11. ASSUME NEW r \in Runs, Waiting(r) PROVE m < own[r]
  <2>1. own[r] \in Int /\ own[r] \notin messages
    BY <1>11 DEF IInv, Overtaken, ContextTypeOK
  <2>2. PICK l \in A : l > m
    BY <1>9
  <2>3. m \in messages /\ l \in messages /\ m \in Int /\ l \in Int
    BY <1>1, <1>3 DEF Messages
  <2>4. ~ (l > own[r] /\ m > own[r])
    BY <1>11, <2>2, <2>3 DEF IInv, Overtaken
  <2> QED  BY <2>1, <2>2, <2>3, <2>4
<1> QED  BY <1>3, <1>10, <1>11 DEF Passed

LEMMA PickPrefixKeeps ==
  ASSUME IInv, NEW k \in Compactions, PickPrefix(k)
  PROVE  IInv'
<1>1. PICK n \in 0..Cardinality(Eligible(k)) :
          /\ at[k] = "listing"
          /\ picked' = [picked EXCEPT ![k] = Listed(k, n)]
          /\ at' = [at EXCEPT ![k] = IF n = 0 THEN "done" ELSE "asking"]
          /\ UNCHANGED <<taken, messages, checkpoints, own, base, tail, context, before>>
  BY DEF PickPrefix, Move
<1> DEFINE E == Eligible(k)  L == Listed(k, n)
<1>2. E \subseteq After(base[k]) /\ E \subseteq Messages /\ messages \subseteq Messages
  <2>1. messages \subseteq Messages
    BY DEF IInv, ContextTypeOK, Messages
  <2> QED  BY <2>1 DEF Eligible, Oldest, After
<1>3. L \subseteq E
  BY DEF Listed, Oldest
<1>4. ContextTypeOK'
  <2>1. L \in SUBSET Messages
    BY <1>2, <1>3
  <2>2. at' = [at EXCEPT ![k] = "done"] \/ at' = [at EXCEPT ![k] = "asking"]
    BY <1>1
  <2>3. picked' \in [Compactions -> SUBSET Messages]
    <3>1. picked' = [picked EXCEPT ![k] = L]
      BY <1>1
    <3> HIDE DEF L
    <3> QED  BY <2>1, <3>1 DEF IInv, ContextTypeOK
  <2>4. /\ UNCHANGED <<taken, messages, checkpoints, own, base, tail, context, before>>
        /\ at' = [at EXCEPT ![k] = "done"] \/ at' = [at EXCEPT ![k] = "asking"]
    BY <1>1, <2>2
  <2> QED  BY <2>3, <2>4 DEF IInv, ContextTypeOK
<1>5. \A r \in Runs : (Waiting(r)' <=> Waiting(r)) /\ (ActiveRun(r)' => ActiveRun(r))
  BY <1>1 DEF IInv, ContextTypeOK, Waiting, ActiveRun, Tasks
<1>6. /\ OneAtATime' /\ Overtaken' /\ TrueCheckpoints' /\ Known' = Known
      /\ \A j \in 0..MaxMessages : Passed(j)' <=> Passed(j)
  BY <1>1, <1>5, QuietKeeps
<1>7. BasesKnown'
  BY <1>1, <1>6 DEF IInv, BasesKnown
<1>8. Counted'
  BY <1>1 DEF IInv, ContextTypeOK, Counted, After, Tasks
<1>9. RecentIsRemembered'
  BY <1>1 DEF IInv, RecentIsRemembered
<1>10. ASSUME n # 0
       PROVE  /\ Max(L) \in L /\ Passed(Max(L))
              /\ L = {m \in After(base[k]) : m =< Max(L)}
  <2>1. IsFiniteSet(E) /\ E \subseteq Nat
    BY <1>2, MessagesFinite DEF Messages
  <2>2. E # {}
    BY <1>10, FS_EmptySet
  <2>3. PICK e \in E : \A y \in E : e =< y
    BY <2>1, <2>2, LeastExists
  <2>4. e \in L
    <3>1. {l \in E : l < e} = {}
      BY <2>1, <2>3
    <3>2. Cardinality({l \in E : l < e}) = 0
      BY <3>1, FS_EmptySet
    <3>3. n \in Nat
      BY <2>1, FS_CardinalityType
    <3> QED  BY <1>10, <3>2, <3>3 DEF Listed, Oldest
  <2>5. L \in SUBSET (0..MaxMessages) /\ L # {}
    BY <1>2, <1>3, <2>4 DEF Messages
  <2>6. Max(L) \in L /\ \A y \in L : y =< Max(L)
    <3> HIDE DEF L
    <3> QED  BY <2>5, GreatestIsMax
  <2>7. Passed(Max(L))
    BY <1>1, <1>3, <2>6, EligibleIsPassed
  <2>8. ASSUME NEW m \in After(base[k]), m =< Max(L) PROVE m \in L
    <3>1. m \in Messages /\ Max(L) \in Messages /\ Max(L) \in E
      <4>1. m \in messages
        BY DEF After
      <4> QED  BY <4>1, <1>2, <1>3, <2>6
    <3>2. CASE m = Max(L)
      BY <2>6, <3>2
    <3>3. CASE m < Max(L)
      <4>1. After(base[k]) \in SUBSET Messages
        BY <1>2 DEF After
      <4>2. Min({Trigger, Kept(tail[k])}) \in Int
        <5>1. Kept(tail[k]) \in Nat
          <6>1. tail[k] \in Nat
            BY DEF IInv, ContextTypeOK
          <6> QED  BY <6>1 DEF Kept
        <5> QED  BY <5>1, MinOfTwo
      <4>3. m \in E
        BY <3>1, <3>3, <4>1, <4>2, OldestIsPrefix DEF Eligible
      <4>4. n \in Int
        BY <2>1, FS_CardinalityType
      <4>5. E \in SUBSET Messages
        BY <1>2
      <4> QED  BY <2>6, <3>3, <4>3, <4>4, <4>5, OldestIsPrefix DEF Listed
    <3>4. m \in Int /\ Max(L) \in Int
      BY <3>1 DEF Messages
    <3> HIDE DEF L
    <3> QED  BY <2>8, <3>2, <3>3, <3>4
  <2>9. L = {m \in After(base[k]) : m =< Max(L)}
    <3> HIDE DEF L, E
    <3> QED  BY <1>2, <1>3, <2>6, <2>8
  <2> QED  BY <2>6, <2>7, <2>9
<1>11. PickedWhole'
  <2> SUFFICES ASSUME NEW j \in Compactions, at'[j] \in {"asking", "model", "judging", "writing"}
               PROVE  \E S \in SUBSET Messages, b \in 0..MaxMessages :
                          /\ picked'[j] = S /\ b = Max(S) /\ b \in S /\ Passed(b)
                          /\ S = {m \in After(base[j]) : m =< b}
    <3>1. \A b \in 0..MaxMessages : Passed(b) => Passed(b)'
      BY <1>6
    <3>2. \A j \in Compactions : After(base[j])' = After(base[j])
      BY <1>1 DEF After
    <3>3. ASSUME NEW j \in Compactions, NEW S \in SUBSET Messages, NEW b \in 0..MaxMessages,
                 picked'[j] = S, b = Max(S), b \in S, Passed(b),
                 S = {m \in After(base[j]) : m =< b}
          PROVE  /\ Boundary(j)' \in picked'[j] /\ Passed(Boundary(j))'
                 /\ picked'[j] = {m \in After(base[j])' : m =< Boundary(j)'}
      <4>1. Boundary(j)' = b /\ Passed(b)'
        BY <3>1, <3>3 DEF Boundary
      <4>2. Passed(Boundary(j))'
        BY <4>1 DEF Passed
      <4> QED  BY <3>2, <3>3, <4>1, <4>2
    <3> QED  BY <3>3 DEF PickedWhole
  <2>1. CASE j = k
    <3>1. n # 0 /\ picked'[k] = L
      BY <1>1, <2>1 DEF IInv, ContextTypeOK, Tasks
    <3>2. Max(L) \in 0..MaxMessages /\ L \in SUBSET Messages
      BY <1>2, <1>3, <1>10, <3>1 DEF Messages
    <3> HIDE DEF L
    <3> QED  BY <1>10, <2>1, <3>1, <3>2
  <2>2. CASE j # k
    <3>1. picked'[j] = picked[j] /\ at'[j] = at[j]
      BY <1>1, <2>2 DEF IInv, ContextTypeOK, Tasks
    <3>2. /\ Passed(Max(picked[j])) /\ Max(picked[j]) \in picked[j]
          /\ picked[j] = {m \in After(base[j]) : m =< Max(picked[j])}
      BY <3>1 DEF IInv, PickedWhole, Boundary
    <3>3. picked[j] \in SUBSET Messages /\ Max(picked[j]) \in 0..MaxMessages
      BY <3>2 DEF IInv, ContextTypeOK, Messages
    <3> QED  BY <3>1, <3>2, <3>3
  <2> QED  BY <2>1, <2>2
<1> QED  BY <1>4, <1>6, <1>7, <1>8, <1>9, <1>11 DEF IInv

LEMMA CreateCheckpointKeeps ==
  ASSUME IInv, NEW k \in Compactions, CreateCheckpoint(k)
  PROVE  IInv'
<1> DEFINE c == [through |-> Boundary(k), carries |-> base[k].carries \cup picked[k]]
<1>1. /\ at[k] = "writing" /\ at' = [at EXCEPT ![k] = "done"]
      /\ checkpoints' = Append(checkpoints, c)
      /\ UNCHANGED <<taken, messages, own, base, tail, picked, context, before>>
  BY DEF CreateCheckpoint, Move
<1>2. /\ Boundary(k) \in picked[k] /\ Passed(Boundary(k))
      /\ picked[k] = {m \in After(base[k]) : m =< Boundary(k)}
  BY <1>1 DEF IInv, PickedWhole
<1>3. True(base[k]) /\ base[k] \in Checkpoints
  BY KnownIsTrue DEF IInv, BasesKnown, ContextTypeOK, Tasks
<1>4. picked[k] \subseteq Messages /\ messages \subseteq Messages /\ Boundary(k) \in Messages
  BY <1>2 DEF IInv, ContextTypeOK, Messages
<1>5. base[k].carries \cup picked[k] = {m \in messages : m =< Boundary(k)}
  <2>1. base[k].through < Boundary(k) /\ base[k].through \in Int /\ Boundary(k) \in Int
    BY <1>2, <1>3, <1>4 DEF After, Checkpoints, Messages
  <2>2. \A m \in messages : m \in Int
    BY <1>4 DEF Messages
  <2> QED  BY <1>2, <1>3, <2>1, <2>2 DEF True, After
<1>6. True(c) /\ c \in Checkpoints
  BY <1>2, <1>3, <1>4, <1>5 DEF True, Checkpoints, Messages
<1>7. /\ DOMAIN checkpoints' = DOMAIN checkpoints \cup {Len(checkpoints) + 1}
      /\ \A i \in DOMAIN checkpoints : checkpoints'[i] = checkpoints[i]
      /\ checkpoints'[Len(checkpoints) + 1] = c
      /\ checkpoints' \in Seq(Checkpoints)
  <2> HIDE DEF c
  <2> QED  BY <1>1, <1>6 DEF IInv, ContextTypeOK
<1>8. ContextTypeOK'
  BY <1>1, <1>7 DEF IInv, ContextTypeOK
<1>9. \A r \in Runs : (Waiting(r)' <=> Waiting(r)) /\ (ActiveRun(r)' <=> ActiveRun(r))
  BY <1>1 DEF IInv, ContextTypeOK, Waiting, ActiveRun, Tasks
<1>10. OneAtATime' /\ Overtaken'
  BY <1>1, <1>9 DEF IInv, OneAtATime, Overtaken
<1>11. \A d \in Checkpoints : True(d) => True(d)'
  BY <1>1, <1>9 DEF True, Passed
<1>12. TrueCheckpoints'
  <2> SUFFICES ASSUME NEW i \in DOMAIN checkpoints', NEW d, d = checkpoints'[i] PROVE True(d)'
    BY DEF TrueCheckpoints, True, Passed
  <2>1. d \in Checkpoints /\ True(d)
    <3> HIDE DEF c
    <3> QED  BY <1>6, <1>7 DEF IInv, TrueCheckpoints, ContextTypeOK
  <2> QED  BY <2>1, <1>11
<1>13. BasesKnown'
  <2>1. Known \subseteq Known'
    <3> HIDE DEF c
    <3> QED  BY <1>7 DEF Known
  <2> QED  BY <1>1, <2>1 DEF IInv, BasesKnown
<1>14. Counted'
  BY <1>1 DEF IInv, ContextTypeOK, Counted, After, Tasks
<1>15. \A j \in Compactions : at'[j] \in Holding => at[j] \in Holding
  BY <1>1 DEF IInv, ContextTypeOK, Tasks, Holding
<1>16. PickedWhole'
  BY <1>1, <1>9, <1>15 DEF IInv, PickedWhole, After, Boundary, Passed, Holding
<1>17. RecentIsRemembered'
  BY <1>1 DEF IInv, RecentIsRemembered
<1> QED  BY <1>8, <1>10, <1>12, <1>13, <1>14, <1>16, <1>17 DEF IInv

\* A message takes its place after every boundary.
LEMMA BeginStartKeeps ==
  ASSUME IInv, NEW r \in Runs, BeginStart(r)
  PROVE  IInv'
<1>1. /\ at[r] = "none" /\ at' = [at EXCEPT ![r] = "begun"]
      /\ \A s \in Runs : ~ Waiting(s)
      /\ taken < MaxMessages /\ taken' = taken + 1 /\ own' = [own EXCEPT ![r] = taken + 1]
      /\ UNCHANGED <<messages, checkpoints, base, tail, picked, context, before>>
  BY DEF BeginStart, Move, Waiting
<1>2. messages \subseteq 1..taken /\ taken \in 0..MaxMessages
  BY DEF IInv, ContextTypeOK
<1>3. ContextTypeOK'
  <2>1. taken + 1 \in 0..MaxMessages /\ messages \subseteq 1..(taken + 1)
    BY <1>1, <1>2
  <2> QED  BY <1>1, <2>1 DEF IInv, ContextTypeOK
<1>4. /\ \A s \in Runs : Waiting(s)' => s = r
      /\ own'[r] = taken + 1
      /\ \A s \in Runs : ActiveRun(s)' => ActiveRun(s)
  BY <1>1 DEF IInv, ContextTypeOK, Waiting, ActiveRun, Tasks
<1>5. OneAtATime'
  BY <1>4 DEF IInv, OneAtATime
<1>6. Overtaken'
  BY <1>1, <1>2, <1>4 DEF Overtaken
<1>7. \A n \in 0..MaxMessages : Passed(n) => Passed(n)'
  BY <1>1, <1>2, <1>4 DEF Passed
<1>8. TrueCheckpoints'
  <2> SUFFICES ASSUME NEW i \in DOMAIN checkpoints PROVE True(checkpoints[i])'
    BY <1>1 DEF TrueCheckpoints
  <2>1. True(checkpoints[i]) /\ checkpoints[i] \in Checkpoints
    BY DEF IInv, TrueCheckpoints, ContextTypeOK
  <2> QED  BY <1>1, <1>2, <1>4, <2>1 DEF True, Passed, Checkpoints
<1>9. BasesKnown'
  BY <1>1 DEF IInv, BasesKnown, Known
<1>10. \A k \in Compactions : at'[k] = at[k]
  BY <1>1 DEF IInv, ContextTypeOK, Tasks
<1>11. Counted'
  BY <1>1, <1>10 DEF IInv, Counted, After
<1>12. PickedWhole'
  <2> SUFFICES ASSUME NEW k \in Compactions, at[k] \in {"asking", "model", "judging", "writing"}
               PROVE  /\ Boundary(k)' \in picked[k] /\ Passed(Boundary(k))'
                      /\ picked[k] = {m \in After(base[k])' : m =< Boundary(k)'}
    BY <1>1, <1>10 DEF PickedWhole, After
  <2>1. /\ Boundary(k) \in picked[k] /\ Passed(Boundary(k))
        /\ picked[k] = {m \in After(base[k]) : m =< Boundary(k)}
    BY DEF IInv, PickedWhole
  <2>2. Boundary(k)' = Boundary(k) /\ After(base[k])' = After(base[k])
    BY <1>1 DEF Boundary, After
  <2>3. Boundary(k) \in Int
    BY <2>1 DEF IInv, ContextTypeOK, Messages
  <2>4. Passed(Boundary(k))'
    BY <1>1, <1>2, <1>4, <2>1, <2>2, <2>3 DEF Passed
  <2> QED  BY <2>1, <2>2, <2>4
<1>13. RecentIsRemembered'
  BY <1>1 DEF IInv, RecentIsRemembered
<1> QED  BY <1>3, <1>5, <1>6, <1>8, <1>9, <1>11, <1>12, <1>13 DEF IInv

LEMMA CommitStartKeeps ==
  ASSUME IInv, NEW r \in Runs, CommitStart(r)
  PROVE  IInv'
<1>1. /\ Waiting(r) /\ at' = [at EXCEPT ![r] = "reading"]
      /\ \A s \in Runs : ~ ActiveRun(s)
      /\ messages' = messages \cup {own[r]}
      /\ UNCHANGED <<taken, checkpoints, own, base, tail, picked, context, before>>
  BY DEF CommitStart, Move, Waiting
<1>2. own[r] \in 1..taken /\ own[r] \in Messages
  <2>1. own[r] \in 1..taken /\ taken \in 0..MaxMessages
    BY <1>1 DEF IInv, Overtaken, ContextTypeOK
  <2> QED  BY <2>1 DEF Messages
<1>3. ContextTypeOK'
  BY <1>1, <1>2 DEF IInv, ContextTypeOK
<1>4. \A s \in Runs : ~ Waiting(s)' /\ (ActiveRun(s)' => s = r)
  BY <1>1 DEF IInv, ContextTypeOK, OneAtATime, Waiting, ActiveRun, Tasks
<1>5. OneAtATime' /\ Overtaken'
  BY <1>4 DEF OneAtATime, Overtaken
<1>6. TrueCheckpoints' /\ BasesKnown' /\ Counted' /\ PickedWhole'
  <2>1. \A n \in 0..MaxMessages : Passed(n) => n < own[r]
    BY <1>1 DEF Passed
  <2>2. \A k \in Compactions : at'[k] = at[k]
    BY <1>1 DEF IInv, ContextTypeOK, Tasks
  <2>3. \A s \in Runs : Waiting(s)' => Waiting(s) /\ own'[s] = own[s]
    BY <1>4
  <2>4. taken' >= taken
    BY <1>1 DEF IInv, ContextTypeOK
  <2> QED  BY <1>1, <1>2, <1>3, <2>1, <2>2, <2>3, <2>4, NewMessageKeeps
<1>7. RecentIsRemembered'
  BY <1>1 DEF IInv, RecentIsRemembered
<1> QED  BY <1>3, <1>5, <1>6, <1>7 DEF IInv

LEMMA FinishKeeps ==
  ASSUME IInv, NEW r \in Runs, Finish(r)
  PROVE  IInv'
<1> DEFINE k == CompactionOf[r]
<1> DEFINE Places == {"none", "begun", "reading", "loading", "counting", "listing",
                      "asking", "model", "judging", "writing", "done"}
<1>1. /\ at[r] = "model" /\ at'[r] = "done" /\ at' \in [Tasks -> Places]
      /\ \A t \in Tasks \ {r} : (at'[t] = at[t]) \/ (t \in Compactions /\ at'[t] = "reading")
      /\ UNCHANGED <<checkpoints, own, base, tail, picked, context, before>>
  <2>1. r \in Tasks /\ k \in Compactions /\ k \in Tasks /\ k # r
    BY DEF Tasks
  <2>2. at[r] = "model" /\ UNCHANGED <<checkpoints, own, base, tail, picked, context, before>>
    BY DEF Finish
  <2>3. at \in [Tasks -> Places] /\ "done" \in Places /\ "reading" \in Places
    BY DEF IInv, ContextTypeOK
  <2>4. PICK p \in Places : /\ at' = [at EXCEPT ![r] = "done", ![k] = p]
                            /\ p = at[k] \/ p = "reading"
    <3>1. at[k] \in Places
      BY <2>1, <2>3
    <3>2. CASE Move(r, "done")
      <4>1. at' = [at EXCEPT ![r] = "done", ![k] = at[k]]
        <5> HIDE DEF k, Places
        <5> QED  BY <2>1, <2>3, <3>2 DEF Move
      <4> QED  BY <3>1, <4>1
    <3>3. CASE at' = [at EXCEPT ![r] = "done",
                                ![k] = IF stage[r] = "settled" THEN "reading" ELSE @]
      <4> DEFINE p == IF stage[r] = "settled" THEN "reading" ELSE at[k]
      <4>1. at' = [at EXCEPT ![r] = "done", ![k] = p]
        <5> HIDE DEF k, Places
        <5> QED  BY <2>1, <2>3, <3>3
      <4>2. p \in Places /\ (p = at[k] \/ p = "reading")
        BY <2>3, <3>1
      <4> QED  BY <4>1, <4>2
    <3> QED  BY <3>2, <3>3 DEF Finish
  <2> HIDE DEF k, Places
  <2>5. at'[r] = "done" /\ at' \in [Tasks -> Places]
    BY <2>1, <2>3, <2>4
  <2>6. ASSUME NEW t \in Tasks \ {r}
        PROVE  (at'[t] = at[t]) \/ (t \in Compactions /\ at'[t] = "reading")
    BY <2>1, <2>3, <2>4
  <2> QED  BY <2>2, <2>5, <2>6
<1>2. /\ \A s \in Runs : (Waiting(s)' <=> Waiting(s)) /\ (ActiveRun(s)' => ActiveRun(s))
      /\ \A s \in Runs : ~ ActiveRun(s)' /\ ActiveRun(r)
  <2>1. ActiveRun(r) /\ ~ ActiveRun(r)' /\ ~ Waiting(r) /\ ~ Waiting(r)'
    BY <1>1 DEF ActiveRun, Waiting
  <2>2. \A s \in Runs \ {r} : at'[s] = at[s]
    BY <1>1 DEF Tasks
  <2> QED  BY <2>1, <2>2 DEF IInv, OneAtATime, ActiveRun, Waiting
<1>3. OneAtATime' /\ RecentIsRemembered'
  BY <1>1, <1>2 DEF IInv, OneAtATime, RecentIsRemembered
<1>4. \A j \in Compactions : at'[j] = at[j] \/ at'[j] = "reading"
  BY <1>1 DEF Tasks
<1>5. CASE messages' = messages /\ taken' = taken
  <2>1. /\ OneAtATime' /\ Overtaken' /\ TrueCheckpoints' /\ Known' = Known
    BY <1>1, <1>2, <1>5, QuietKeeps
  <2>2. ContextTypeOK'
    BY <1>1, <1>5 DEF IInv, ContextTypeOK
  <2>3. BasesKnown'
    BY <1>1, <2>1 DEF IInv, BasesKnown
  <2>4. Counted'
    BY <1>1, <1>4, <1>5 DEF IInv, Counted, After
  <2>5. PickedWhole'
    BY <1>1, <1>2, <1>4, <1>5 DEF IInv, PickedWhole, After, Boundary, Passed
  <2> QED  BY <1>3, <2>1, <2>2, <2>3, <2>4, <2>5 DEF IInv
<1>6. CASE taken < MaxMessages /\ taken' = taken + 1 /\ messages' = messages \cup {taken + 1}
  <2>1. taken \in Nat /\ messages \subseteq 1..taken
    BY DEF IInv, ContextTypeOK
  <2>2. taken + 1 \in 0..MaxMessages /\ messages' \subseteq 1..(taken + 1) /\ taken + 1 \in Messages
    BY <1>6, <2>1 DEF Messages
  <2>3. ContextTypeOK'
    BY <1>1, <1>6, <2>2 DEF IInv, ContextTypeOK
  <2>4. Overtaken'
    <3> SUFFICES ASSUME NEW s \in Runs, Waiting(s)
                 PROVE  /\ own[s] \in 1..(taken + 1) /\ own[s] \notin messages'
                        /\ \A l, m \in messages' : l > own[s] /\ m > own[s] => l = m
      BY <1>1, <1>2, <1>6 DEF Overtaken
    <3>1. /\ own[s] \in 1..taken /\ own[s] \notin messages
          /\ \A m \in messages : m < own[s]
      BY <1>2 DEF IInv, Overtaken
    <3> QED  BY <1>6, <2>1, <3>1
  <2>5. TrueCheckpoints' /\ BasesKnown' /\ Counted' /\ PickedWhole'
    <3>1. \A n \in 0..MaxMessages : Passed(n) => n < taken + 1
      BY <2>1 DEF Passed
    <3>2. taken' >= taken
      BY <1>6, <2>1
    <3> QED  BY <1>1, <1>2, <1>4, <1>6, <2>2, <2>3, <3>1, <3>2, NewMessageKeeps
  <2> QED  BY <1>3, <2>3, <2>4, <2>5 DEF IInv
<1> QED  BY <1>5, <1>6 DEF Finish

-----------------------------------------------------------------------------

LEMMA UnchangedKeeps == IInv /\ UNCHANGED threadVars => IInv'
<1> SUFFICES ASSUME IInv, UNCHANGED threadVars PROVE IInv'
  OBVIOUS
<1>1. \A r \in Runs : (Waiting(r)' <=> Waiting(r)) /\ (ActiveRun(r)' => ActiveRun(r))
  BY DEF Waiting, ActiveRun, threadVars
<1>2. OneAtATime' /\ Overtaken' /\ TrueCheckpoints' /\ Known' = Known
  BY <1>1, QuietKeeps DEF threadVars
<1>3. ContextTypeOK' /\ RecentIsRemembered'
  BY DEF IInv, ContextTypeOK, RecentIsRemembered, threadVars
<1>4. BasesKnown' /\ Counted' /\ PickedWhole'
  BY <1>1, <1>2 DEF IInv, BasesKnown, Counted, PickedWhole, After, Boundary, Passed, threadVars
<1> QED  BY <1>2, <1>3, <1>4 DEF IInv

LEMMA NextKeeps == IInv /\ [Next]_vars => IInv'
<1> SUFFICES ASSUME IInv, [Next]_vars PROVE IInv'
  OBVIOUS
<1>1. ASSUME NEW r \in Runs, ReadLatest(r, "reading", "loading") PROVE IInv'
  BY <1>1, ReadLatestKeeps DEF Tasks
<1>2. ASSUME NEW k \in Compactions, ReadLatest(k, "reading", "counting") PROVE IInv'
  BY <1>2, ReadLatestKeeps DEF Tasks
<1>3. ASSUME NEW k \in Compactions, Judge(k) \/ Recheck(k) PROVE IInv'
  <2>1. \E to \in Holding \cup {"done"} :
            /\ Move(k, to) /\ at[k] \in Holding
            /\ UNCHANGED <<taken, messages, checkpoints, own, base, tail, picked, context, before>>
    BY <1>3 DEF Judge, Recheck, Holding
  <2> QED  BY <2>1, MoveKeeps DEF Tasks
<1>4. ASSUME NEW t \in Tasks, Ask(t) PROVE IInv'
  <2>1. /\ Move(t, "model") /\ at[t] \in Holding /\ "model" \in Holding \cup {"done"}
        /\ UNCHANGED <<taken, messages, checkpoints, own, base, tail, picked, context, before>>
    BY <1>4 DEF Ask, Holding
  <2> QED  BY <2>1, MoveKeeps
<1>5. CASE Bill \/ UNCHANGED vars
  BY <1>5, UnchangedKeeps DEF Bill, vars
<1> QED
  BY <1>1, <1>2, <1>3, <1>4, <1>5, BeginStartKeeps, CommitStartKeeps, LoadHistoryKeeps, FinishKeeps,
     CountTailKeeps, PickPrefixKeeps, CreateCheckpointKeeps DEF Next

\* The inductive invariant of a thread.
THEOREM ContextInvariant == Spec => []IInv
BY InitIInv, NextKeeps, PTL DEF Spec

\* A checkpoint carries exactly the messages up to its boundary, whatever is
\* committed late and however many compactions race
\* (context-compaction.ts:159-180, context-projection.ts:130).
THEOREM BoundaryTrue == Spec => []BoundaryIsRepresented
<1>1. IInv => BoundaryIsRepresented
  BY DEF IInv, TrueCheckpoints, True, BoundaryIsRepresented
<1> QED  BY <1>1, ContextInvariant, PTL

\* A run knows the newest messages, read as they are in two statements
\* (agent-context.ts:95-105).
THEOREM RecentKnown == Spec => []RecentIsRemembered
<1>1. IInv => RecentIsRemembered
  BY DEF IInv
<1> QED  BY <1>1, ContextInvariant, PTL

\* Each checkpoint carries what its boundary covers, and none reaches further
\* than the latest.
LatestIsTrue ==
    /\ Latest \in Known
    /\ \A c \in Known :
         /\ c.through \in Int /\ c.through =< Latest.through
         /\ c.carries = {m \in messages : m =< c.through}
    /\ messages \subseteq Int

LEMMA LatestTruth == IInv => LatestIsTrue
<1> SUFFICES ASSUME IInv PROVE LatestIsTrue
  OBVIOUS
<1>1. Latest \in Known /\ \A c \in Known : c.through =< Latest.through
  BY LatestIsFurthest DEF IInv
<1>2. \A c \in Known : c.carries = {m \in messages : m =< c.through}
  BY KnownIsTrue DEF IInv, True
<1>3. \A c \in Known : c.through \in Int
  BY KnownAreCheckpoints DEF IInv, Checkpoints
<1>4. messages \subseteq Int
  BY DEF IInv, ContextTypeOK
<1> QED  BY <1>1, <1>2, <1>3, <1>4 DEF LatestIsTrue

\* What the latest checkpoint carries only grows, however the compactions that
\* read it and the ones that insert the next are interleaved
\* (persistence.ts, getLatestThreadContextCheckpoint).
THEOREM LatestGrows == Spec => LatestAdvances
<1>1. ASSUME LatestIsTrue, LatestIsTrue', ContextTypeOK, [Next]_vars
      PROVE  Latest.carries \subseteq Latest'.carries
  <2>1. CASE checkpoints' = checkpoints
    BY <2>1 DEF Latest
  <2>2. CASE checkpoints' # checkpoints
    <3>1. PICK k \in Compactions : CreateCheckpoint(k)
      BY <1>1, <2>2
         DEF Next, vars, threadVars, BeginStart, CommitStart, ReadLatest, LoadHistory, Finish, CountTail,
             PickPrefix, Judge, Recheck, Ask, Bill
    <3>2. messages' = messages
      BY <3>1 DEF CreateCheckpoint
    <3>3. Known \subseteq Known'
      <4> DEFINE new == [through |-> Boundary(k), carries |-> base[k].carries \cup picked[k]]
      <4>1. checkpoints' = Append(checkpoints, new)
        BY <3>1 DEF CreateCheckpoint
      <4> HIDE DEF new
      <4>2. ASSUME NEW i \in DOMAIN checkpoints
            PROVE  i \in DOMAIN checkpoints' /\ checkpoints'[i] = checkpoints[i]
        <5>1. checkpoints \in Seq(Checkpoints)
          BY <1>1 DEF ContextTypeOK
        <5> QED  BY <4>1, <5>1
      <4> QED  BY <4>2 DEF Known
    <3>4. Latest \in Known'
      BY <1>1, <3>3 DEF LatestIsTrue
    <3>5. /\ Latest.through \in Int /\ Latest.through =< Latest'.through
          /\ Latest.carries = {m \in messages : m =< Latest.through}
      BY <1>1, <3>2, <3>4 DEF LatestIsTrue
    <3>6. /\ Latest'.through \in Int
          /\ Latest'.carries = {m \in messages : m =< Latest'.through}
      BY <1>1, <3>2 DEF LatestIsTrue
    <3>7. \A m \in messages : m \in Int
      BY <1>1 DEF LatestIsTrue
    <3> QED  BY <3>5, <3>6, <3>7
  <2> QED  BY <2>1, <2>2
<1>2. IInv => ContextTypeOK
  BY DEF IInv
<1>3. LatestIsTrue /\ LatestIsTrue' /\ ContextTypeOK /\ [Next]_vars
        => [Latest.carries \subseteq Latest'.carries]_vars
  BY <1>1
<1> QED  BY <1>2, <1>3, LatestTruth, ContextInvariant, PTL DEF Spec, LatestAdvances

-----------------------------------------------------------------------------
(* The credit behind the calls.                                            *)

\* A bill has one event at most: what is left to be billed has none yet, and
\* the one a bill is at is not debited.
OneEvent(b) ==
    /\ stage[b] \in {"idle", "calling", "billing"} => ~attempted[b]
    /\ stage[b] = "billing" => usage[b] # None
    /\ ~attempted[b] => events[b] = <<>>
    /\ stage[b] = "recorded" => Len(events[b]) = 1 /\ debits[b] = {}
    /\ Len(events[b]) =< 1
    /\ debits[b] \subseteq DOMAIN events[b]

Settled(b) == \A i \in DOMAIN events[b] : PaidOrBlocked(b, i)

Drawn == IsFiniteSet(Debited) /\ balance = Grant - Cardinality(Debited)

TrialInv ==
    /\ TrialTypeOK /\ Drawn
    /\ \A b \in Bills : OneEvent(b) /\ Settled(b)

LEMMA InitTrialInv == Init => TrialInv
<1> SUFFICES ASSUME Init PROVE TrialInv
  OBVIOUS
<1>1. TrialTypeOK
  <2>1. events \in [Bills -> Seq(Costs \cup {Unknown})]
    BY DEF Init, TrialInit
  <2>2. debits \in [Bills -> SUBSET Nat]
    BY DEF Init, TrialInit
  <2>3. /\ stage \in [Bills -> Stages]
        /\ usage \in [Bills -> Costs \cup {Unknown, None}]
        /\ attempted \in [Bills -> BOOLEAN]
        /\ catches \in [Bills -> 0..2]
    BY DEF Init, TrialInit, Stages
  <2>4. balance \in Int /\ blocked \in BOOLEAN /\ dropped \in SUBSET Bills
    <3>1. balance = Grant /\ blocked = FALSE /\ dropped = {}
      BY DEF Init, TrialInit
    <3>2. Grant \in Int
      OBVIOUS
    <3>3. balance \in Int
      BY ONLY <3>1, <3>2
    <3>4. blocked \in BOOLEAN /\ dropped \in SUBSET Bills
      BY ONLY <3>1
    <3> QED  BY ONLY <3>3, <3>4
  <2> QED  BY ONLY <2>1, <2>2, <2>3, <2>4, Zenon DEF TrialTypeOK
<1>2. Debited = {}
  BY DEF Init, TrialInit, Debited, Units
<1>3. Drawn
  BY <1>2, FS_EmptySet DEF Drawn, Init, TrialInit
<1>4. ASSUME NEW b \in Bills PROVE OneEvent(b) /\ Settled(b)
  BY DEF Init, TrialInit, OneEvent, Settled
<1> QED  BY <1>1, <1>3, <1>4 DEF TrialInv

\* A step that neither records nor debits.
LEMMA CallerKeeps ==
  ASSUME TrialInv, TrialTypeOK', UNCHANGED <<balance, events, debits>>,
         blocked => blocked', dropped \subseteq dropped',
         NEW c \in Bills,
         \A b \in Bills \ {c} : /\ stage'[b] = stage[b]
                                /\ usage'[b] = usage[b]
                                /\ attempted'[b] = attempted[b],
         OneEvent(c)', Settled(c)'
  PROVE  TrialInv'
<1>1. Drawn'
  BY DEF TrialInv, Drawn, Debited, Units
<1>2. ASSUME NEW b \in Bills PROVE OneEvent(b)' /\ Settled(b)'
  <2>1. CASE b = c
    BY <2>1
  <2>2. CASE b # c
    BY <2>2 DEF TrialInv, OneEvent, Settled, PaidOrBlocked
  <2> QED  BY <2>1, <2>2
<1> QED  BY <1>1, <1>2 DEF TrialInv

\* One more bill is charged for its one event: its units are new ones.
LEMMA DebitDraws ==
  ASSUME TrialInv, NEW c \in Bills, stage[c] = "recorded",
         Last(events[c]) # Unknown, Debit(c, Last(events[c])), UNCHANGED events
  PROVE  Drawn' /\ debits'[c] = {1}
<1> DEFINE cost == events[c][1]
           new == {<<c, 1>>} \X (1 .. cost)
<1>1. /\ Len(events[c]) = 1 /\ debits[c] = {} /\ Last(events[c]) = cost
      /\ cost \in Nat
  <2>1. Len(events[c]) = 1 /\ debits[c] = {} /\ events[c] \in Seq(Costs \cup {Unknown})
    BY DEF TrialInv, OneEvent, TrialTypeOK
  <2>2. Last(events[c]) = cost
    BY <2>1 DEF Last
  <2>3. cost \in Costs \cup {Unknown}
    BY <2>1
  <2> QED  BY <2>1, <2>2, <2>3
<1>2. debits' = [debits EXCEPT ![c] = {1}] /\ balance' = balance - cost
  BY <1>1 DEF Debit
<1>3. debits \in [Bills -> SUBSET Nat]
  BY DEF TrialInv, TrialTypeOK
<1>4. debits'[c] = {1} /\ \A b \in Bills \ {c} : debits'[b] = debits[b]
  BY <1>2, <1>3
<1>5. Units(c) = {} /\ Units(c)' = new
  BY <1>1, <1>4 DEF Units
<1>6. \A b \in Bills \ {c} : Units(b)' = Units(b)
  BY <1>4 DEF Units
<1> HIDE DEF new
<1>7. Debited' = Debited \cup new
  <2>1. ASSUME NEW x \in Debited' PROVE x \in Debited \cup new
    <3>1. PICK b \in Bills : x \in Units(b)'
      BY DEF Debited
    <3> QED  BY <3>1, <1>5, <1>6 DEF Debited
  <2>2. ASSUME NEW x \in Debited PROVE x \in Debited'
    <3>1. PICK b \in Bills : x \in Units(b)
      BY DEF Debited
    <3>2. b # c
      BY <3>1, <1>5
    <3> QED  BY <3>1, <3>2, <1>6 DEF Debited
  <2>3. new \subseteq Debited'
    BY <1>5 DEF Debited
  <2> QED  BY <2>1, <2>2, <2>3
<1>8. Debited \cap new = {}
  <2> SUFFICES ASSUME NEW x \in Debited, x \in new PROVE FALSE
    OBVIOUS
  <2>1. PICK b \in Bills : x \in Units(b)
    BY DEF Debited
  <2>2. PICK i \in debits[b] : x \in {<<b, i>>} \X (1 .. events[b][i])
    BY <2>1 DEF Units
  <2>3. x[1] = <<b, i>> /\ x[1] = <<c, 1>>
    BY <2>2 DEF new
  <2>4. b = c
    BY <2>3
  <2> QED  BY <2>4, <2>2, <1>1
<1>9. IsFiniteSet(new) /\ Cardinality(new) = cost
  <2>1. IsFiniteSet({<<c, 1>>}) /\ Cardinality({<<c, 1>>}) = 1
    BY FS_Singleton
  <2>2. IsFiniteSet(1 .. cost) /\ Cardinality(1 .. cost) = cost
    <3>1. 1 \in Int /\ cost \in Int
      BY <1>1
    <3>2. IsFiniteSet(1 .. cost) /\ Cardinality(1 .. cost) = IF 1 > cost THEN 0 ELSE cost - 1 + 1
      BY <3>1, FS_Interval
    <3> QED  BY <3>2, <1>1
  <2>3. IsFiniteSet(new) /\ Cardinality(new) = 1 * cost
    BY <2>1, <2>2, FS_Product DEF new
  <2> QED  BY <2>3, <1>1
<1>10. IsFiniteSet(Debited) /\ balance = Grant - Cardinality(Debited)
  BY DEF TrialInv, Drawn
<1>11. /\ IsFiniteSet(Debited')
       /\ Cardinality(Debited') = Cardinality(Debited) + Cardinality(new)
  <2>1. /\ IsFiniteSet(Debited \cup new)
        /\ Cardinality(Debited \cup new) = Cardinality(Debited) + Cardinality(new)
                                             - Cardinality(Debited \cap new)
    BY <1>9, <1>10, FS_Union
  <2>2. Cardinality(Debited \cap new) = 0
    BY <1>8, FS_EmptySet
  <2>3. Cardinality(Debited) \in Nat
    BY <1>10, FS_CardinalityType
  <2> QED  BY <2>1, <2>2, <2>3, <1>7, <1>9, <1>1
<1>12. Cardinality(Debited) \in Int /\ Grant \in Int
  BY <1>10, FS_CardinalityType
<1>13. balance' = Grant - Cardinality(Debited')
  BY <1>1, <1>2, <1>9, <1>10, <1>11, <1>12
<1> QED  BY <1>4, <1>11, <1>13 DEF Drawn

-----------------------------------------------------------------------------
(* The steps of a bill.                                                    *)

LEMMA AskKeeps ==
  ASSUME TrialInv, NEW b \in Bills, BeforeManagedCall(b)
  PROVE  TrialInv'
<1>1. /\ stage \in [Bills -> Stages] /\ stage[b] = "idle"
      /\ stage' = [stage EXCEPT ![b] = IF Admits THEN "calling" ELSE "over"]
      /\ UNCHANGED <<account, usage, attempted, catches>>
  BY DEF BeforeManagedCall, TrialInv, TrialTypeOK
<1>2. TrialTypeOK'
  <2>1. stage' \in [Bills -> Stages]
    BY <1>1 DEF Stages
  <2> QED  BY <2>1, <1>1 DEF TrialInv, TrialTypeOK, account
<1>3. OneEvent(b)' /\ Settled(b)'
  BY <1>1 DEF TrialInv, OneEvent, Settled, PaidOrBlocked, account
<1>4. \A c \in Bills \ {b} : stage'[c] = stage[c]
  BY <1>1
<1> QED  BY <1>1, <1>2, <1>3, <1>4, CallerKeeps DEF account

LEMMA AskTitleKeeps ==
  ASSUME TrialInv, NEW t \in Titles, NEW r \in Runs, AskTitle(t, r)
  PROVE  TrialInv'
<1>1. /\ stage \in [Bills -> Stages] /\ stage[t] = "idle" /\ t \in Bills
      /\ stage' = [stage EXCEPT ![t] = "calling"]
      /\ UNCHANGED <<account, usage, attempted, catches>>
  BY DEF AskTitle, TrialInv, TrialTypeOK, Bills
<1>2. TrialTypeOK'
  <2>1. stage' \in [Bills -> Stages]
    BY <1>1 DEF Stages
  <2> QED  BY <2>1, <1>1 DEF TrialInv, TrialTypeOK, account
<1>3. OneEvent(t)' /\ Settled(t)'
  BY <1>1 DEF TrialInv, OneEvent, Settled, PaidOrBlocked, account
<1>4. \A c \in Bills \ {t} : stage'[c] = stage[c]
  BY <1>1
<1> QED  BY <1>1, <1>2, <1>3, <1>4, CallerKeeps DEF account

LEMMA ModelAnswersKeeps ==
  ASSUME TrialInv, NEW b \in Bills, ModelAnswers(b)
  PROVE  TrialInv'
<1>1. /\ stage \in [Bills -> Stages] /\ stage[b] = "calling"
      /\ usage \in [Bills -> Costs \cup {Unknown, None}]
      /\ stage' = [stage EXCEPT ![b] = "billing"]
      /\ UNCHANGED <<account, attempted, catches>>
  BY DEF ModelAnswers, TrialInv, TrialTypeOK
<1>2. PICK cost \in Costs \cup {Unknown} : usage' = [usage EXCEPT ![b] = cost]
  BY DEF ModelAnswers
<1>3. TrialTypeOK'
  <2>1. stage' \in [Bills -> Stages]
    BY <1>1 DEF Stages
  <2>2. usage' \in [Bills -> Costs \cup {Unknown, None}]
    BY <1>1, <1>2
  <2> QED  BY <2>1, <2>2, <1>1 DEF TrialInv, TrialTypeOK, account
<1>4. OneEvent(b)' /\ Settled(b)'
  <2>1. usage'[b] # None
    BY <1>1, <1>2 DEF None, Unknown
  <2> QED  BY <1>1, <2>1 DEF TrialInv, OneEvent, Settled, PaidOrBlocked, account
<1>5. \A c \in Bills \ {b} : stage'[c] = stage[c] /\ usage'[c] = usage[c]
  BY <1>1, <1>2
<1> QED  BY <1>1, <1>3, <1>4, <1>5, CallerKeeps DEF account

LEMMA CallThrowsKeeps ==
  ASSUME TrialInv, NEW b \in Bills, CallThrows(b)
  PROVE  TrialInv'
<1>1. /\ stage \in [Bills -> Stages] /\ stage[b] = "calling"
      /\ stage' = [stage EXCEPT ![b] = "over"]
      /\ UNCHANGED <<account, usage, attempted, catches>>
  BY DEF CallThrows, TrialInv, TrialTypeOK
<1>2. TrialTypeOK'
  <2>1. stage' \in [Bills -> Stages]
    BY <1>1 DEF Stages
  <2> QED  BY <2>1, <1>1 DEF TrialInv, TrialTypeOK, account
<1>3. OneEvent(b)' /\ Settled(b)'
  BY <1>1 DEF TrialInv, OneEvent, Settled, PaidOrBlocked, account
<1>4. \A c \in Bills \ {b} : stage'[c] = stage[c]
  BY <1>1
<1> QED  BY <1>1, <1>2, <1>3, <1>4, CallerKeeps DEF account

LEMMA RunThrowsKeeps ==
  ASSUME TrialInv, NEW b \in Bills, RunThrows(b)
  PROVE  TrialInv'
<1>1. /\ stage \in [Bills -> Stages] /\ stage[b] = "calling"
      /\ usage \in [Bills -> Costs \cup {Unknown, None}]
      /\ catches \in [Bills -> 0..2]
      /\ stage' = [stage EXCEPT ![b] = "unwinding"]
      /\ catches' = [catches EXCEPT ![b] = 2]
      /\ UNCHANGED <<account, attempted>>
  BY DEF RunThrows, TrialInv, TrialTypeOK
<1>2. PICK cost \in Costs \cup {Unknown, None} : usage' = [usage EXCEPT ![b] = cost]
  BY DEF RunThrows
<1>3. TrialTypeOK'
  <2>1. stage' \in [Bills -> Stages]
    BY <1>1 DEF Stages
  <2>2. usage' \in [Bills -> Costs \cup {Unknown, None}]
    BY <1>1, <1>2
  <2>3. catches' \in [Bills -> 0..2]
    BY <1>1
  <2> QED  BY <2>1, <2>2, <2>3, <1>1 DEF TrialInv, TrialTypeOK, account
<1>4. OneEvent(b)' /\ Settled(b)'
  BY <1>1 DEF TrialInv, OneEvent, Settled, PaidOrBlocked, account
<1>5. \A c \in Bills \ {b} : stage'[c] = stage[c] /\ usage'[c] = usage[c]
  BY <1>1, <1>2
<1> QED  BY <1>1, <1>3, <1>4, <1>5, CallerKeeps DEF account

\* Every catch block that bills looks at the attempts first.
LEMMA UnwindKeeps ==
  ASSUME TrialInv, NEW b \in Bills, Unwind(b)
  PROVE  TrialInv'
<1> DEFINE to == IF catches[b] = 0 THEN "over"
                 ELSE IF MayRecord(b) THEN "billing" ELSE "unwinding"
<1>1. /\ stage \in [Bills -> Stages] /\ stage[b] = "unwinding"
      /\ catches \in [Bills -> 0..2]
      /\ stage' = [stage EXCEPT ![b] = to]
      /\ catches' = [catches EXCEPT ![b] = IF @ = 0 THEN 0 ELSE @ - 1]
      /\ UNCHANGED <<account, usage, attempted>>
  BY DEF Unwind, TrialInv, TrialTypeOK
<1>2. to \in {"over", "billing", "unwinding"} /\ (to = "billing" => MayRecord(b))
  OBVIOUS
<1> HIDE DEF to
<1>3. TrialTypeOK'
  <2>1. stage' \in [Bills -> Stages]
    BY <1>1, <1>2 DEF Stages
  <2>2. catches' \in [Bills -> 0..2]
    BY <1>1
  <2> QED  BY <2>1, <2>2, <1>1 DEF TrialInv, TrialTypeOK, account
<1>4. OneEvent(b)' /\ Settled(b)'
  <2>1. stage'[b] = to
    BY <1>1
  <2> QED  BY <1>1, <1>2, <2>1 DEF TrialInv, OneEvent, Settled, PaidOrBlocked, account, MayRecord
<1>5. \A c \in Bills \ {b} : stage'[c] = stage[c]
  BY <1>1
<1> QED  BY <1>1, <1>3, <1>4, <1>5, CallerKeeps DEF account

LEMMA ErrorIsCaught ==
  ASSUME TrialInv, NEW b \in Bills, CatchAccountingError(b)
  PROVE  /\ stage' \in [Bills -> Stages] /\ stage'[b] \in {"unwinding", "settled"}
         /\ usage' \in [Bills -> Costs \cup {Unknown, None}]
         /\ catches' \in [Bills -> 0..2]
         /\ \A c \in Bills \ {b} : stage'[c] = stage[c] /\ usage'[c] = usage[c]
<1>1. /\ stage \in [Bills -> Stages] /\ usage \in [Bills -> Costs \cup {Unknown, None}]
      /\ catches \in [Bills -> 0..2]
  BY DEF TrialInv, TrialTypeOK
<1> DEFINE to == IF b \in Runs THEN "unwinding" ELSE "settled"
<1>2. stage' = [stage EXCEPT ![b] = to] /\ to \in {"unwinding", "settled"}
  BY DEF CatchAccountingError
<1> HIDE DEF to
<1>3. \/ UNCHANGED <<catches, usage>>
      \/ catches' = [catches EXCEPT ![b] = 1] /\ usage' = [usage EXCEPT ![b] = None]
  BY DEF CatchAccountingError
<1>4. /\ stage' \in [Bills -> Stages] /\ stage'[b] \in {"unwinding", "settled"}
      /\ \A c \in Bills \ {b} : stage'[c] = stage[c]
  BY <1>1, <1>2 DEF Stages
<1>5. /\ usage' \in [Bills -> Costs \cup {Unknown, None}] /\ catches' \in [Bills -> 0..2]
      /\ \A c \in Bills \ {b} : usage'[c] = usage[c]
  BY <1>1, <1>3
<1> QED  BY <1>4, <1>5

\* The one event of a bill, whether its insert succeeds or not.
LEMMA RecordUsageKeeps ==
  ASSUME TrialInv, NEW b \in Bills, RecordUsage(b)
  PROVE  TrialInv'
<1>1. /\ stage[b] = "billing" /\ ~attempted[b] /\ usage[b] # None /\ events[b] = <<>>
      /\ debits[b] = {}
  <2>1. stage[b] = "billing" /\ OneEvent(b)
    BY DEF RecordUsage, TrialInv
  <2> QED  BY <2>1 DEF OneEvent
<1>2. /\ attempted \in [Bills -> BOOLEAN] /\ attempted' = [attempted EXCEPT ![b] = TRUE]
      /\ UNCHANGED <<balance, blocked, debits>>
  BY DEF RecordUsage, TrialInv, TrialTypeOK
<1>3. /\ attempted' \in [Bills -> BOOLEAN] /\ attempted'[b]
      /\ \A c \in Bills \ {b} : attempted'[c] = attempted[c]
  BY <1>2
<1>4. CASE /\ events' = [events EXCEPT ![b] = Append(@, usage[b])]
           /\ stage' = [stage EXCEPT ![b] = "recorded"]
           /\ UNCHANGED <<catches, usage, dropped>>
  <2>1. /\ events \in [Bills -> Seq(Costs \cup {Unknown})] /\ stage \in [Bills -> Stages]
        /\ usage[b] \in Costs \cup {Unknown}
    BY <1>1 DEF TrialInv, TrialTypeOK
  <2>2. /\ events' = [events EXCEPT ![b] = <<usage[b]>>]
        /\ <<usage[b]>> \in Seq(Costs \cup {Unknown})
    BY <1>1, <1>4, <2>1
  <2>3. /\ events' \in [Bills -> Seq(Costs \cup {Unknown})]
        /\ events'[b] = <<usage[b]>>
        /\ \A c \in Bills \ {b} : events'[c] = events[c]
    BY <2>1, <2>2
  <2>4. /\ stage' \in [Bills -> Stages] /\ stage'[b] = "recorded"
        /\ \A c \in Bills \ {b} : stage'[c] = stage[c]
    BY <1>4, <2>1 DEF Stages
  <2>5. TrialTypeOK'
    BY <1>2, <1>3, <1>4, <2>3, <2>4 DEF TrialInv, TrialTypeOK
  <2>6. Drawn'
    <3>1. ASSUME NEW c \in Bills PROVE Units(c)' = Units(c)
      <4>1. CASE c = b
        BY <1>1, <1>2, <4>1 DEF Units
      <4>2. CASE c # b
        BY <1>2, <2>3, <4>2 DEF Units
      <4> QED  BY <4>1, <4>2
    <3>2. Debited' = Debited
      BY <3>1 DEF Debited
    <3> QED  BY <3>2, <1>2 DEF Drawn, TrialInv
  <2>7. ASSUME NEW c \in Bills PROVE OneEvent(c)' /\ Settled(c)'
    <3>1. CASE c = b
      <4>1. Len(events'[b]) = 1 /\ DOMAIN events'[b] = {1}
        BY <2>3
      <4>2. OneEvent(b)'
        BY <1>1, <1>2, <1>3, <2>4, <4>1 DEF OneEvent
      <4>3. Settled(b)'
        BY <2>4, <4>1 DEF Settled, PaidOrBlocked
      <4> QED  BY <3>1, <4>2, <4>3
    <3>2. CASE c # b
      <4>1. /\ events'[c] = events[c] /\ stage'[c] = stage[c] /\ usage'[c] = usage[c]
            /\ attempted'[c] = attempted[c] /\ debits'[c] = debits[c]
            /\ blocked' = blocked /\ dropped' = dropped
        BY <1>2, <1>3, <1>4, <2>3, <2>4, <3>2
      <4>2. OneEvent(c) /\ Settled(c)
        BY DEF TrialInv
      <4>3. OneEvent(c)'
        BY <4>1, <4>2 DEF OneEvent
      <4>4. Settled(c)'
        BY <4>1, <4>2 DEF Settled, PaidOrBlocked
      <4> QED  BY <4>3, <4>4
    <3> QED  BY <3>1, <3>2
  <2> QED  BY <2>5, <2>6, <2>7 DEF TrialInv
<1>5. CASE /\ dropped' = dropped \cup {b}
           /\ CatchAccountingError(b)
           /\ UNCHANGED events
  <2>1. /\ stage' \in [Bills -> Stages] /\ stage'[b] \in {"unwinding", "settled"}
        /\ usage' \in [Bills -> Costs \cup {Unknown, None}] /\ catches' \in [Bills -> 0..2]
        /\ \A c \in Bills \ {b} : stage'[c] = stage[c] /\ usage'[c] = usage[c]
    BY <1>5, ErrorIsCaught
  <2>2. TrialTypeOK'
    BY <1>2, <1>3, <1>5, <2>1 DEF TrialInv, TrialTypeOK
  <2>3. OneEvent(b)' /\ Settled(b)'
    BY <1>1, <1>2, <1>3, <1>5, <2>1 DEF OneEvent, Settled
  <2> QED  BY <1>2, <1>3, <1>5, <2>1, <2>2, <2>3, CallerKeeps
<1> QED  BY <1>4, <1>5 DEF RecordUsage

\* The account is debited for the event, or blocked, or the statement failed.
LEMMA AfterUsageRecordedKeeps ==
  ASSUME TrialInv, NEW b \in Bills, AfterUsageRecorded(b)
  PROVE  TrialInv'
<1>1. /\ stage[b] = "recorded" /\ Len(events[b]) = 1 /\ debits[b] = {} /\ attempted[b]
      /\ events[b] \in Seq(Costs \cup {Unknown})
  <2>1. stage[b] = "recorded" /\ OneEvent(b)
    BY DEF AfterUsageRecorded, TrialInv
  <2>2. events[b] \in Seq(Costs \cup {Unknown}) /\ attempted[b] \in BOOLEAN
    BY DEF TrialInv, TrialTypeOK
  <2>3. Len(events[b]) = 1 /\ debits[b] = {} /\ (~attempted[b] => events[b] = <<>>)
    BY <2>1 DEF OneEvent
  <2>4. events[b] # <<>>
    BY <2>3
  <2> QED  BY <2>1, <2>2, <2>3, <2>4
<1>2. DOMAIN events[b] = {1} /\ Last(events[b]) = events[b][1]
  BY <1>1 DEF Last
<1>3. UNCHANGED <<events, attempted>>
  BY DEF AfterUsageRecorded
<1>4. CASE /\ Last(events[b]) # Unknown
           /\ Debit(b, Last(events[b]))
           /\ stage' = [stage EXCEPT ![b] = IF catches[b] > 0 THEN "unwinding"
                                                          ELSE "settled"]
           /\ UNCHANGED <<catches, usage, dropped>>
  <2>1. Drawn' /\ debits'[b] = {1}
    BY <1>1, <1>3, <1>4, DebitDraws
  <2>2. /\ debits \in [Bills -> SUBSET Nat]
        /\ debits' = [debits EXCEPT ![b] = @ \cup {Len(events[b])}]
    BY <1>4 DEF Debit, TrialInv, TrialTypeOK
  <2>3. /\ debits' \in [Bills -> SUBSET Nat]
        /\ \A c \in Bills \ {b} : debits'[c] = debits[c]
    BY <1>1, <2>2
  <2>4. /\ stage' \in [Bills -> Stages] /\ stage'[b] \in {"unwinding", "settled"}
        /\ \A c \in Bills \ {b} : stage'[c] = stage[c]
    <3>1. stage \in [Bills -> Stages]
      BY DEF TrialInv, TrialTypeOK
    <3> QED  BY <1>4, <3>1 DEF Stages
  <2>5. balance' \in Int /\ UNCHANGED blocked
    <3>1. balance \in Int /\ Costs \cup {Unknown} \subseteq Int
      BY DEF TrialInv, TrialTypeOK, Unknown
    <3>2. events[b][1] \in Costs \cup {Unknown}
      BY <1>1
    <3>3. balance' = balance - events[b][1] /\ UNCHANGED blocked
      BY <1>2, <1>4 DEF Debit
    <3> QED  BY <3>1, <3>2, <3>3
  <2>6. TrialTypeOK'
    BY <1>3, <1>4, <2>3, <2>4, <2>5 DEF TrialInv, TrialTypeOK
  <2>7. ASSUME NEW c \in Bills PROVE OneEvent(c)' /\ Settled(c)'
    <3>1. CASE c = b
      <4>1. OneEvent(b)'
        <5>1. events'[b] = events[b] /\ attempted'[b] = attempted[b]
          BY <1>3
        <5>2. debits'[b] \subseteq DOMAIN events'[b]
          BY <1>2, <2>1, <5>1
        <5>3. stage'[b] \notin {"idle", "calling", "billing", "recorded"}
          BY <2>4
        <5>4. attempted'[b] /\ Len(events'[b]) = 1
          BY <1>1, <5>1
        <5>5. Len(events'[b]) =< 1
          BY <5>4
        <5> QED  BY <5>2, <5>3, <5>4, <5>5, Zenon DEF OneEvent
      <4>2. Settled(b)'
        BY <1>2, <1>3, <2>1 DEF Settled, PaidOrBlocked
      <4> QED  BY <3>1, <4>1, <4>2
    <3>2. CASE c # b
      <4>1. /\ events'[c] = events[c] /\ stage'[c] = stage[c] /\ usage'[c] = usage[c]
            /\ attempted'[c] = attempted[c] /\ debits'[c] = debits[c]
            /\ blocked' = blocked /\ dropped' = dropped
        BY <1>3, <1>4, <2>3, <2>4, <2>5, <3>2
      <4>2. OneEvent(c) /\ Settled(c)
        BY DEF TrialInv
      <4>3. OneEvent(c)'
        BY <4>1, <4>2 DEF OneEvent
      <4>4. Settled(c)'
        BY <4>1, <4>2 DEF Settled, PaidOrBlocked
      <4> QED  BY <4>3, <4>4
    <3> QED  BY <3>1, <3>2
  <2> QED  BY <2>1, <2>6, <2>7 DEF TrialInv
<1>5. CASE /\ \/ Last(events[b]) = Unknown /\ blocked' = TRUE /\ dropped' = dropped
              \/ dropped' = dropped \cup {b} /\ blocked' = blocked
           /\ CatchAccountingError(b)
           /\ UNCHANGED <<balance, debits>>
  <2>1. /\ stage' \in [Bills -> Stages] /\ stage'[b] \in {"unwinding", "settled"}
        /\ usage' \in [Bills -> Costs \cup {Unknown, None}] /\ catches' \in [Bills -> 0..2]
        /\ \A c \in Bills \ {b} : stage'[c] = stage[c] /\ usage'[c] = usage[c]
    BY <1>5, ErrorIsCaught
  <2>2. /\ blocked' \in BOOLEAN /\ (blocked => blocked')
        /\ dropped' \in SUBSET Bills /\ dropped \subseteq dropped'
    <3>1. blocked \in BOOLEAN /\ dropped \in SUBSET Bills
      BY DEF TrialInv, TrialTypeOK
    <3>2. CASE dropped' = dropped \cup {b} /\ blocked' = blocked
      BY <3>1, <3>2
    <3>3. CASE blocked' = TRUE /\ dropped' = dropped
      BY <3>1, <3>3
    <3> QED  BY <1>5, <3>2, <3>3
  <2>3. TrialTypeOK'
    BY <1>3, <1>5, <2>1, <2>2 DEF TrialInv, TrialTypeOK
  <2>4. OneEvent(b)'
    <3>1. OneEvent(b)
      BY DEF TrialInv
    <3> QED  BY <1>1, <1>3, <1>5, <2>1, <3>1 DEF OneEvent
  <2>5. Settled(b)'
    BY <1>2, <1>3, <1>5 DEF Settled, PaidOrBlocked
  <2> QED  BY <1>3, <1>5, <2>1, <2>2, <2>3, <2>4, <2>5, CallerKeeps
<1> QED  BY <1>4, <1>5 DEF AfterUsageRecorded

LEMMA TrialUnchanged == TrialInv /\ UNCHANGED trialVars => TrialInv'
BY DEF trialVars, account, caller, TrialInv, TrialTypeOK, Drawn, Debited, Units, OneEvent,
       Settled, PaidOrBlocked

LEMMA NextTrialInv == TrialInv /\ [Next]_vars => TrialInv'
<1> SUFFICES ASSUME TrialInv, [Next]_vars PROVE TrialInv'
  OBVIOUS
<1>1. CASE UNCHANGED trialVars
  BY <1>1, TrialUnchanged
<1>2. ASSUME NEW t \in Tasks, Ask(t) PROVE TrialInv'
  BY <1>2, AskKeeps DEF Ask, Tasks, Bills
<1>3. CASE Bill
  <2>1. ASSUME NEW t \in Titles, NEW r \in Runs, AskTitle(t, r) PROVE TrialInv'
    BY <2>1, AskTitleKeeps
  <2>2. ASSUME NEW b \in Bills,
               ModelAnswers(b) \/ CallThrows(b) \/ RunThrows(b) \/ RecordUsage(b)
                 \/ AfterUsageRecorded(b) \/ Unwind(b)
        PROVE  TrialInv'
    BY <2>2, ModelAnswersKeeps, CallThrowsKeeps, RunThrowsKeeps, RecordUsageKeeps,
       AfterUsageRecordedKeeps, UnwindKeeps
  <2> QED  BY <1>3, <2>1, <2>2 DEF Bill
<1>4. CASE UNCHANGED vars
  BY <1>4, <1>1 DEF vars
<1>5. CASE \E r \in Runs : \/ BeginStart(r) \/ CommitStart(r)
                           \/ ReadLatest(r, "reading", "loading")
                           \/ LoadHistory(r) \/ Finish(r)
  BY <1>5, <1>1 DEF BeginStart, CommitStart, ReadLatest, LoadHistory, Finish
<1>6. CASE \E k \in Compactions : \/ ReadLatest(k, "reading", "counting")
                                  \/ CountTail(k) \/ PickPrefix(k) \/ Judge(k)
                                  \/ Recheck(k) \/ CreateCheckpoint(k)
  BY <1>6, <1>1 DEF ReadLatest, CountTail, PickPrefix, Judge, Recheck, CreateCheckpoint
<1> QED  BY <1>2, <1>3, <1>4, <1>5, <1>6 DEF Next

\* A bill has at most one event and is debited for it at most once
\* (usage-accounting.ts:22, managed-trial/repository.ts:25).
THEOREM TrialInvariant == Spec => []TrialInv
BY InitTrialInv, NextTrialInv, PTL DEF Spec

\* The types of the bills and of the thread, together.
THEOREM TypesHold == Spec => []TypeOK
<1>1. IInv /\ TrialInv => TypeOK
  BY DEF IInv, ContextTypeOK, TrialInv, TypeOK
<1> QED  BY <1>1, ContextInvariant, TrialInvariant, PTL

\* The balance is the grant less what was debited, every bill is debited at
\* most once, and what it used is paid for unless the account is blocked or a
\* statement of its own accounting failed -- on every path a call ends on
\* (execution.ts:638).
THEOREM CreditIsChargedOnce == Spec => []ChargedOnce
<1>1. TrialInv => ChargedOnce
  <2> SUFFICES ASSUME TrialInv PROVE ChargedOnce
    OBVIOUS
  <2>1. balance = Grant - Cardinality(Debited)
    BY DEF TrialInv, Drawn
  <2>2. ASSUME NEW b \in Bills PROVE Cardinality(debits[b]) =< 1
    <3>1. debits[b] \subseteq {1}
      <4>1. /\ events[b] \in Seq(Costs \cup {Unknown}) /\ Len(events[b]) =< 1
            /\ debits[b] \subseteq DOMAIN events[b]
        BY DEF TrialInv, TrialTypeOK, OneEvent
      <4> QED  BY <4>1
    <3>2. IsFiniteSet({1}) /\ Cardinality({1}) = 1
      BY FS_Singleton
    <3> QED  BY <3>1, <3>2, FS_Subset
  <2>3. \A b \in Bills : \A i \in DOMAIN events[b] : PaidOrBlocked(b, i)
    BY DEF TrialInv, Settled
  <2> QED  BY <2>1, <2>2, <2>3 DEF ChargedOnce
<1> QED  BY <1>1, TrialInvariant, PTL

=============================================================================
