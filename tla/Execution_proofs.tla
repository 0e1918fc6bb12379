--------------------------- MODULE Execution_proofs --------------------------
(***************************************************************************)
(* What holds of an execution: of the loop of its turns, for every set of  *)
(* keys and every bound; of the panel that follows it, for any threads,    *)
(* runs, lost streams and failing calls; and of its lease, for every set   *)
(* of users and calls and all times that satisfy TimesAssumption.          *)
(***************************************************************************)
EXTENDS ExecutionLease, TurnLoop, AgentPanel, TLAPS

-----------------------------------------------------------------------------
(* The turn loop.  The order of the calls of a turn is the heart of it: a  *)
(* mutation begins when the ones before it have a result, reads when the   *)
(* context changes have one, and the other mutations when the reads have   *)
(* one (Ordered, ReadsAfter, ChangesAfter).  Everything else rests on it.  *)

\* A mutation that began left none before it without a result.
Ordered ==
    \A i, j \in Mutations : i < j /\ call[j] # "waiting" => call[i] \in Results

\* Unless a failed mutation is recorded, every mutation with a result succeeded.
FailureBlocks ==
    ~ Blocked => \A i \in Mutations : call[i] \in Results => call[i] = "ok"

\* Reads that began left no context change without a result.
ReadsAfter == \A r \in Reads : call[r] # "waiting" => Settled(ContextChanges)

\* Reads that were executed saw every context change succeed.
ReadsFresh ==
    \A r \in Reads : Executed(r) => \A i \in ContextChanges : call[i] = "ok"

\* A later mutation that began left no read without a result.
ChangesAfter ==
    \A i \in Mutations \ ContextChanges : call[i] # "waiting" => Settled(Reads)

\* Where no call is pending, and where a resumable stop is.
Boundary ==
    /\ pc = "model" => DOMAIN batch = {}
    /\ pc = "top" => Settled(DOMAIN batch)
    /\ stop \in {"max_turns", "deadline"} => pc = "top"

\* The fuse counts every failed attempt, and lets no mutation run at its limit.
Fused ==
    /\ \A k \in Keys : tried[k] =< failures[k] /\ tried[k] =< MaxAttempts
    /\ \A i \in Mutations : call[i] = "running" => failures[Key(i)] < MaxAttempts

Order == Ordered /\ FailureBlocks /\ ReadsAfter /\ ReadsFresh /\ ChangesAfter
-----------------------------------------------------------------------------
(* Facts about one state, and about two with the same calls.               *)

\* The calls are numbered from 1, and each has a key and a state.
LEMMA Shape ==
    ASSUME TypeOK
    PROVE  /\ DOMAIN call = DOMAIN batch
           /\ \A i \in DOMAIN batch :
                 i \in Nat /\ i # 0 /\ Key(i) \in Keys /\ call[i] \in CallStates
           /\ Mutations \subseteq DOMAIN batch /\ Reads \subseteq DOMAIN batch
           /\ ContextChanges \subseteq Mutations
<1>1. PICK n \in 0 .. MaxBatch :
         batch \in [1 .. n -> Calls] /\ call \in [1 .. n -> CallStates]
  BY DEF TypeOK
<1>2. \A c \in Calls : c.key \in Keys
  BY DEF Calls, CallSet
<1> QED BY <1>1, <1>2, BoundsAssumption DEF Key, Mutations, Reads, ContextChanges

\* What a call is does not change while the calls of the turn do not.
LEMMA SameCalls ==
    ASSUME batch' = batch
    PROVE  /\ Mutations' = Mutations /\ Reads' = Reads
           /\ ContextChanges' = ContextChanges
           /\ \A i : Key(i)' = Key(i)
BY DEF Mutations, Reads, ContextChanges, Key, Kind

\* While a mutation runs, those before it have a result, those after it wait,
\* and the reads wait or are done.
LEMMA Alone ==
    ASSUME TypeOK, Order
    PROVE  MutationsRunAlone
<1> SUFFICES ASSUME NEW i \in Mutations, call[i] = "running",
                    NEW j \in DOMAIN batch, j # i
             PROVE  call[j] # "running"
  BY DEF MutationsRunAlone
<1>0. "running" \notin Results /\ "running" # "waiting"
  BY DEF Results
<1>1. CASE j \in Mutations
  <2>1. i < j \/ j < i
    BY Shape
  <2> QED BY <1>0, <1>1, <2>1 DEF Order, Ordered
<1>2. CASE j \in Reads
  <2>1. CASE i \in ContextChanges
    BY <1>0, <1>2, <2>1 DEF Order, ReadsAfter, Settled
  <2>2. CASE i \notin ContextChanges
    BY <1>0, <1>2, <2>2 DEF Order, ChangesAfter, Settled
  <2> QED BY <2>1, <2>2
<1> QED BY <1>1, <1>2 DEF Reads
-----------------------------------------------------------------------------
(* Types.                                                                  *)

\* The initial state is well typed.
LEMMA TypeInit == Init => TypeOK
<1> SUFFICES ASSUME Init PROVE TypeOK
  OBVIOUS
<1>1. /\ batch \in [1 .. 0 -> Calls]
      /\ call \in [1 .. 0 -> CallStates]
      /\ failedAt \in 0 .. 0 /\ 0 \in 0 .. MaxBatch
  BY BoundsAssumption DEF Init, Empty
<1>2. failures \in [Keys -> Nat] /\ tried \in [Keys -> Nat]
  BY DEF Init
<1>3. \E n \in 0 .. MaxBatch :
         /\ batch \in [1 .. n -> Calls] /\ call \in [1 .. n -> CallStates]
         /\ failedAt \in 0 .. n
  BY <1>1
<1>4. aborted \in BOOLEAN
  BY Zenon DEF Init
<1>5. pc \in {"top", "model", "calls"} /\ stop \in Stops \cup {"none"}
  BY DEF Init
<1>6. turns \in 0 .. MaxTurns /\ segments \in Nat
  BY BoundsAssumption DEF Init
<1> QED BY <1>2, <1>3, <1>4, <1>5, <1>6 DEF TypeOK

\* Steps that leave the calls of the turn alone.
Quiet ==
    \/ TurnAborted \/ TurnLimit \/ Deadline
    \/ ModelFails \/ ModelCut \/ ModelStops
    \/ \E i \in DOMAIN batch : AbortBeforeMutation(i)
    \/ Finish \/ NextTurn \/ Abort \/ Resume \/ UNCHANGED vars

\* A quiet step changes neither the calls nor the fuse.
LEMMA QuietChangesNoCall == Quiet => UNCHANGED <<turn, fuse>>
BY DEF Quiet, TurnAborted, TurnLimit, Deadline, ModelFails, ModelCut, ModelStops,
       AbortBeforeMutation, Finish, NextTurn, Abort, Resume, End, vars, turn, fuse

\* The ways a step can go, the quiet ones taken together.
LEMMA Steps ==
    ASSUME [Next]_vars
    PROVE  \/ Quiet \/ StartTurn \/ StartReads
           \/ \E b \in Batches : ModelCalls(b)
           \/ \E i \in DOMAIN batch :
                 \/ SkipMutation(i) \/ FuseMutation(i) \/ StartMutation(i)
                 \/ Succeed(i) \/ Fail(i) \/ ThrowAborted(i)
BY DEF Next, Loop, Mutate, Return, Quiet

\* What a step on call i leaves well typed.
LEMMA TypeOfCall ==
    ASSUME TypeOK,
           NEW i \in DOMAIN batch, NEW c \in CallStates, Become(i, c),
           failedAt' \in {failedAt, i}, stop' \in {stop, "cancelled"},
           failures' \in [Keys -> Nat], tried' \in [Keys -> Nat],
           UNCHANGED <<pc, turns, batch, aborted, segments>>
    PROVE  TypeOK'
<1>1. PICK n \in 0 .. MaxBatch :
         /\ batch \in [1 .. n -> Calls] /\ call \in [1 .. n -> CallStates]
         /\ failedAt \in 0 .. n
  BY DEF TypeOK
<1>2. call' \in [1 .. n -> CallStates] /\ failedAt' \in 0 .. n
  BY <1>1, BoundsAssumption DEF Become
<1>3. stop' \in Stops \cup {"none"}
  BY DEF TypeOK, Stops
<1> QED BY <1>1, <1>2, <1>3 DEF TypeOK

\* Every step leaves the state well typed.
LEMMA TypeStep == TypeOK /\ [Next]_vars => TypeOK'
<1> SUFFICES ASSUME TypeOK, [Next]_vars PROVE TypeOK'
  OBVIOUS
<1> USE BoundsAssumption
<1>1. CASE Quiet
  <2>1. UNCHANGED <<turn, fuse>>
    BY <1>1, QuietChangesNoCall
  <2>2. /\ pc' \in {"top", "model", "calls"} /\ stop' \in Stops \cup {"none"}
        /\ turns' \in 0 .. MaxTurns /\ aborted' \in BOOLEAN /\ segments' \in Nat
    <3>1. CASE Resume \/ Abort
      <4>1. aborted' \in BOOLEAN
        BY <3>1, Zenon DEF Resume, Abort
      <4>2. pc' \in {"top", "model", "calls"} /\ stop' \in Stops \cup {"none"}
        BY <3>1 DEF Resume, Abort, TypeOK
      <4>3. turns' \in 0 .. MaxTurns /\ segments' \in Nat
        BY <3>1 DEF Resume, Abort, TypeOK
      <4> QED BY <4>1, <4>2, <4>3
    <3>2. CASE NextTurn \/ UNCHANGED vars
      BY <3>2 DEF NextTurn, vars, TypeOK
    <3>3. CASE \E s \in Stops : End(s)
      BY <3>3 DEF End, TypeOK
    <3>4. Resume \/ Abort \/ NextTurn \/ UNCHANGED vars \/ \E s \in Stops : End(s)
      BY <1>1 DEF Quiet, TurnAborted, TurnLimit, Deadline, ModelFails, ModelCut,
         ModelStops, AbortBeforeMutation, Finish, Stops
    <3> QED BY <3>1, <3>2, <3>3, <3>4
  <2> QED BY <2>1, <2>2 DEF TypeOK, turn, fuse
<1>2. CASE StartTurn
  <2>1. /\ batch' \in [1 .. 0 -> Calls] /\ call' \in [1 .. 0 -> CallStates]
        /\ failedAt' \in 0 .. 0 /\ 0 \in 0 .. MaxBatch
    BY <1>2 DEF StartTurn, Empty
  <2>2. turns' \in 0 .. MaxTurns
    BY <1>2 DEF StartTurn, TurnsLeft, TypeOK
  <2> QED BY <1>2, <2>1, <2>2 DEF StartTurn, TypeOK, fuse
<1>3. ASSUME NEW b \in Batches, ModelCalls(b) PROVE TypeOK'
  <2>1. PICK n \in 1 .. MaxBatch : b \in [1 .. n -> Calls]
    BY DEF Batches
  <2>2. call' \in [1 .. n -> CallStates] /\ batch' \in [1 .. n -> Calls]
    BY <1>3, <2>1 DEF ModelCalls, CallStates
  <2>3. failedAt' \in 0 .. n
    BY <1>3 DEF ModelCalls
  <2> QED BY <1>3, <2>1, <2>2, <2>3 DEF ModelCalls, TypeOK, fuse<1>4. CASE StartReads
  <2>1. PICK n \in 0 .. MaxBatch :
           /\ batch \in [1 .. n -> Calls] /\ call \in [1 .. n -> CallStates]
           /\ failedAt \in 0 .. n
    BY DEF TypeOK
  <2>2. call' \in [1 .. n -> CallStates]
    BY <1>4, <2>1 DEF StartReads, Started, CallStates, Results
  <2> QED BY <1>4, <2>1, <2>2 DEF StartReads, TypeOK, fuse
<1>5. ASSUME NEW i \in DOMAIN batch,
             SkipMutation(i) \/ FuseMutation(i) \/ StartMutation(i) \/ Succeed(i)
      PROVE  TypeOK'
  <2>1. PICK c \in CallStates : Become(i, c)
    BY <1>5 DEF SkipMutation, FuseMutation, StartMutation, Succeed, CallStates, Results
  <2>2. /\ failedAt' \in {failedAt, i}
        /\ UNCHANGED <<failures, tried, pc, stop, turns, batch, aborted, segments>>
    BY <1>5 DEF SkipMutation, FuseMutation, StartMutation, Succeed, fuse
  <2>3. failures' \in [Keys -> Nat] /\ tried' \in [Keys -> Nat]
    BY <2>2 DEF TypeOK
  <2> QED BY <2>1, <2>2, <2>3, TypeOfCall
<1>6. ASSUME NEW i \in DOMAIN batch, Fail(i) PROVE TypeOK'
  <2>1. PICK c \in CallStates : Become(i, c)
    BY <1>6 DEF Fail, CallStates, Results
  <2>2. failures' \in [Keys -> Nat] /\ tried' \in [Keys -> Nat]
    <3>1. failures \in [Keys -> Nat] /\ tried \in [Keys -> Nat]
      BY DEF TypeOK
    <3>2. /\ failures' = [failures EXCEPT ![Key(i)] = @ + 1]
          /\ tried' = tried \/ tried' = [tried EXCEPT ![Key(i)] = @ + 1]
      BY <1>6 DEF Fail
    <3>3. Key(i) \in Keys
      BY Shape
    <3> QED BY <3>1, <3>2, <3>3
  <2>3. /\ failedAt' \in {failedAt, i}
        /\ UNCHANGED <<pc, stop, turns, batch, aborted, segments>>
    BY <1>6 DEF Fail
  <2> QED BY <2>1, <2>2, <2>3, TypeOfCall
<1>7. ASSUME NEW i \in DOMAIN batch, ThrowAborted(i) PROVE TypeOK'
  <2>1. /\ Become(i, "lost") /\ "lost" \in CallStates
        /\ stop' \in {stop, "cancelled"}
        /\ UNCHANGED <<failures, tried, pc, turns, batch, failedAt, aborted, segments>>
    BY <1>7 DEF ThrowAborted, CallStates, fuse
  <2>2. failures' \in [Keys -> Nat] /\ tried' \in [Keys -> Nat]
    BY <2>1 DEF TypeOK
  <2> QED BY <2>1, <2>2, TypeOfCall
<1> QED BY <1>1, <1>2, <1>3, <1>4, <1>5, <1>6, <1>7, Steps

\* Every reachable state is well typed.
THEOREM LoopTypeOK == Spec => []TypeOK
BY TypeInit, TypeStep, PTL DEF Spec
-----------------------------------------------------------------------------
(* The order of the calls.                                                 *)

\* The steps that change what became of one call: it is due, or it runs.
CallStep(i, c) ==
    /\ batch' = batch /\ call' = [call EXCEPT ![i] = c]
    /\ failedAt' \in {failedAt, i}
    /\ \/ Due(i) /\ c = "skipped" /\ failedAt' # 0
       \/ Due(i) /\ c = "running" /\ ~ Blocked /\ failedAt' = failedAt
       \/ call[i] = "running" /\ c = "ok" /\ failedAt' = failedAt
       \/ call[i] = "running" /\ c = "lost" /\ failedAt' = failedAt
       \/ /\ call[i] = "running" /\ c \in {"soft", "thrown"}
          /\ failedAt' = IF i \in Mutations THEN i ELSE failedAt

\* Every step on a call is a CallStep.
LEMMA CallSteps ==
    ASSUME TypeOK, NEW i \in DOMAIN batch,
           \/ SkipMutation(i) \/ FuseMutation(i) \/ StartMutation(i)
           \/ Succeed(i) \/ Fail(i) \/ ThrowAborted(i)
    PROVE  \E c \in CallStates : CallStep(i, c)
<1>0. i \in Nat /\ i # 0
  BY Shape
<1>1. CASE SkipMutation(i)
  <2>1. CallStep(i, "skipped")
    BY <1>1 DEF SkipMutation, Ready, Become, Blocked, CallStep
  <2> QED BY <2>1 DEF CallStates, Results
<1>2. CASE FuseMutation(i)
  <2>1. CallStep(i, "skipped")
    BY <1>0, <1>2 DEF FuseMutation, Ready, Become, CallStep
  <2> QED BY <2>1 DEF CallStates, Results
<1>3. CASE StartMutation(i)
  <2>1. CallStep(i, "running")
    BY <1>3 DEF StartMutation, Ready, Become, CallStep
  <2> QED BY <2>1 DEF CallStates
<1>4. CASE Succeed(i)
  <2>1. CallStep(i, "ok")
    BY <1>4 DEF Succeed, Become, CallStep
  <2> QED BY <2>1 DEF CallStates, Results
<1>5. CASE Fail(i)
  <2>1. CallStep(i, "soft") \/ CallStep(i, "thrown")
    BY <1>5 DEF Fail, Become, CallStep
  <2> QED BY <2>1 DEF CallStates, Results
<1>6. CASE ThrowAborted(i)
  <2>1. CallStep(i, "lost")
    BY <1>6 DEF ThrowAborted, Become, CallStep
  <2> QED BY <2>1 DEF CallStates
<1> QED BY <1>1, <1>2, <1>3, <1>4, <1>5, <1>6

\* A step on a call keeps the order.
LEMMA OrderCall ==
    ASSUME TypeOK, Order, MutationsFormAPrefix,
           NEW i \in DOMAIN batch, NEW c \in CallStates, CallStep(i, c)
    PROVE  Order' /\ MutationsFormAPrefix'
<1>1. /\ Mutations' = Mutations /\ Reads' = Reads
      /\ ContextChanges' = ContextChanges
      /\ \A j \in DOMAIN batch : call'[j] = IF j = i THEN c ELSE call[j]
  BY SameCalls, Shape DEF CallStep
<1>2. /\ Mutations \subseteq DOMAIN batch /\ Reads = DOMAIN batch \ Mutations
      /\ ContextChanges \subseteq Mutations /\ DOMAIN batch \subseteq Nat
      /\ i # 0
  BY Shape DEF Reads
\* A call that has a result keeps it.
<1>3. /\ call[i] \notin Results /\ c # "waiting"
      /\ c \in Results => c \in {"ok", "soft", "thrown", "skipped"}
      /\ call[i] \in {"waiting", "running"}
  BY DEF CallStep, Due, Results
<1>4. \A j \in DOMAIN batch : call[j] \in Results => call'[j] = call[j]
  BY <1>1, <1>3
<1>5. /\ Settled(Reads) => Settled(Reads)'
      /\ Settled(ContextChanges) => Settled(ContextChanges)'
  BY <1>1, <1>2, <1>4 DEF Settled
<1>6. call[i] = "waiting" => Due(i)
  BY DEF CallStep
<1>7. Ordered'
  <2> SUFFICES ASSUME NEW a \in Mutations, NEW b \in Mutations, a < b,
                      call'[b] # "waiting"
               PROVE  call'[a] \in Results
    BY <1>1 DEF Ordered
  <2>1. CASE b # i
    BY <1>1, <1>2, <1>4, <2>1 DEF Order, Ordered
  <2>2. CASE b = i /\ call[i] = "running"
    BY <1>2, <1>4, <2>2 DEF Order, Ordered
  <2>3. CASE b = i /\ call[i] = "waiting"
    BY <1>2, <1>4, <1>6, <2>3 DEF Due, Settled
  <2> QED BY <1>3, <2>1, <2>2, <2>3
<1>8. FailureBlocks'
  <2> SUFFICES ASSUME ~ Blocked', NEW a \in Mutations, call'[a] \in Results
               PROVE  call'[a] = "ok"
    BY <1>1 DEF FailureBlocks
  <2>1. failedAt' = 0
    BY DEF Blocked
  <2>2. failedAt = 0 /\ (a = i => c = "ok")
    BY <1>1, <1>2, <2>1 DEF CallStep, Results
  <2> QED BY <1>1, <1>2, <2>2 DEF Order, FailureBlocks, Blocked
<1>9. ReadsAfter'
  <2> SUFFICES ASSUME NEW r \in Reads, call'[r] # "waiting"
               PROVE  Settled(ContextChanges)'
    BY <1>1 DEF ReadsAfter, Settled
  <2>1. call[r] # "waiting"
    BY <1>1, <1>2, <1>3, <1>6 DEF Due
  <2> QED BY <1>5, <2>1 DEF Order, ReadsAfter
<1>10. ReadsFresh'
  <2> SUFFICES ASSUME NEW r \in Reads, call'[r] \notin {"waiting", "skipped"},
                      NEW a \in ContextChanges
               PROVE  call'[a] = "ok"
    BY <1>1 DEF ReadsFresh, Executed
  <2>1. call[r] \notin {"waiting", "skipped"}
    BY <1>1, <1>2, <1>3, <1>6 DEF Due
  <2>2. call[a] = "ok" /\ "ok" \in Results
    BY <2>1 DEF Order, ReadsFresh, Executed, Results
  <2> QED BY <1>2, <1>4, <2>2
<1>11. ChangesAfter'
  <2> SUFFICES ASSUME NEW a \in Mutations \ ContextChanges, call'[a] # "waiting"
               PROVE  Settled(Reads)'
    BY <1>1 DEF ChangesAfter, Settled
  <2>1. Settled(Reads)
    BY <1>1, <1>2, <1>3, <1>6 DEF Due, Order, ChangesAfter
  <2> QED BY <1>5, <2>1
<1>12. MutationsFormAPrefix'
  <2> SUFFICES ASSUME NEW a \in Mutations, NEW b \in Mutations, a < b,
                      call'[b] \notin {"waiting", "skipped"}
               PROVE  call'[a] = "ok"
    BY <1>1 DEF MutationsFormAPrefix, Executed
  <2>0. "ok" \in Results
    BY DEF Results
  <2>1. CASE call[b] \notin {"waiting", "skipped"}
    BY <1>2, <1>4, <2>0, <2>1 DEF MutationsFormAPrefix, Executed
  <2>2. CASE call[b] \in {"waiting", "skipped"}
    <3>1. b = i /\ Due(i) /\ ~ Blocked
      BY <1>1, <1>2, <1>3, <2>2 DEF CallStep
    <3>2. call[a] \in Results
      BY <1>2, <3>1 DEF Due, Settled
    <3> QED BY <1>2, <1>4, <3>1, <3>2 DEF Order, FailureBlocks
  <2> QED BY <2>1, <2>2
<1> QED BY <1>7, <1>8, <1>9, <1>10, <1>11, <1>12 DEF Order
\* The reads start when the context changes have a result: the order is kept.
LEMMA OrderReads ==
    ASSUME TypeOK, Order, MutationsFormAPrefix, StartReads
    PROVE  Order' /\ MutationsFormAPrefix'
<1>1. /\ Mutations' = Mutations /\ Reads' = Reads
      /\ ContextChanges' = ContextChanges /\ failedAt' = failedAt
      /\ \A j \in Mutations : call'[j] = call[j]
      /\ \A j \in Reads : call'[j] = IF Blocked \/ Tripped(j) THEN "skipped" ELSE "running"
  BY SameCalls, Shape DEF StartReads, Started, Reads
<1>2. ContextChanges \subseteq Mutations /\ Settled(ContextChanges)
  BY Shape DEF StartReads, ReadsDue
<1>3. Ordered' /\ FailureBlocks' /\ MutationsFormAPrefix'
  BY <1>1 DEF Order, Ordered, FailureBlocks, Blocked, MutationsFormAPrefix, Executed
<1>4. ReadsAfter'
  BY <1>1, <1>2 DEF ReadsAfter, Settled
<1>5. ReadsFresh'
  BY <1>1, <1>2 DEF ReadsFresh, Executed, Order, FailureBlocks, Settled
\* No later mutation has begun: a read still waits.
<1>6. \A i \in Mutations \ ContextChanges : call[i] = "waiting"
  BY DEF StartReads, ReadsDue, Order, ChangesAfter, Settled, Results
<1>7. ChangesAfter'
  BY <1>1, <1>6 DEF ChangesAfter
<1> QED BY <1>3, <1>4, <1>5, <1>7 DEF Order

\* A turn without a call, or one whose calls all wait.
LEMMA OrderFresh ==
    ASSUME \A i \in DOMAIN batch' : call'[i] = "waiting"
    PROVE  Order' /\ MutationsFormAPrefix'
<1>1. \A i \in Mutations' \cup Reads' : call'[i] = "waiting"
  BY DEF Mutations, Reads
<1>2. ContextChanges' \subseteq Mutations'
  BY DEF ContextChanges
<1> QED BY <1>1, <1>2 DEF Order, Ordered, FailureBlocks, ReadsAfter, ReadsFresh,
           ChangesAfter, MutationsFormAPrefix, Executed, Results

\* Every step keeps the order.
LEMMA OrderStep ==
    ASSUME TypeOK, Order, MutationsFormAPrefix, [Next]_vars
    PROVE  Order' /\ MutationsFormAPrefix'
<1>1. CASE Quiet
  <2>1. UNCHANGED <<batch, call, failedAt>>
    BY <1>1, QuietChangesNoCall DEF turn
  <2>2. /\ Mutations' = Mutations /\ Reads' = Reads
        /\ ContextChanges' = ContextChanges
    BY <2>1, SameCalls
  <2> QED BY <2>1, <2>2 DEF Order, Ordered, FailureBlocks, Blocked, ReadsAfter,
             ReadsFresh, ChangesAfter, MutationsFormAPrefix, Executed, Settled
<1>2. CASE StartTurn
  BY <1>2, OrderFresh DEF StartTurn, Empty
<1>3. ASSUME NEW b \in Batches, ModelCalls(b) PROVE Order' /\ MutationsFormAPrefix'
  BY <1>3, OrderFresh DEF ModelCalls
<1>4. CASE StartReads
  BY <1>4, OrderReads
<1>5. ASSUME NEW i \in DOMAIN batch,
             \/ SkipMutation(i) \/ FuseMutation(i) \/ StartMutation(i)
             \/ Succeed(i) \/ Fail(i) \/ ThrowAborted(i)
      PROVE  Order' /\ MutationsFormAPrefix'
  BY <1>5, CallSteps, OrderCall
<1> QED BY <1>1, <1>2, <1>3, <1>4, <1>5, Steps
\* Before the first turn there is no call.
LEMMA OrderInit == Init => Order /\ MutationsFormAPrefix
<1> SUFFICES ASSUME Init PROVE Order /\ MutationsFormAPrefix
  OBVIOUS
<1>1. Mutations = {} /\ Reads = {} /\ ContextChanges = {}
  BY DEF Init, Empty, Mutations, Reads, ContextChanges
<1> QED BY <1>1 DEF Order, Ordered, FailureBlocks, ReadsAfter, ReadsFresh,
           ChangesAfter, MutationsFormAPrefix

Calm == TypeOK /\ Order /\ MutationsFormAPrefix

\* The order is an invariant, and with it what a reader of the loop is after.
THEOREM LoopOrder == Spec => []Calm
<1>1. Init => Calm
  BY TypeInit, OrderInit DEF Calm
<1>2. Calm /\ [Next]_vars => Calm'
  BY TypeStep, OrderStep DEF Calm
<1> QED BY <1>1, <1>2, PTL DEF Spec

\* The executed mutations of a turn are the first ones it asked for, and each
\* begins after the one before it succeeded.
THEOREM LoopPrefix == Spec => []MutationsFormAPrefix
<1>1. Calm => MutationsFormAPrefix
  BY DEF Calm
<1> QED BY <1>1, LoopOrder, PTL

\* A mutation never runs beside another call.
THEOREM LoopAlone == Spec => []MutationsRunAlone
<1>1. Calm => MutationsRunAlone
  BY Alone DEF Calm
<1> QED BY <1>1, LoopOrder, PTL

\* A read runs after every context change succeeded and before a later mutation.
THEOREM LoopSelection == Spec => []ReadsSeeTheSelection
<1>1. Calm => ReadsSeeTheSelection
  BY DEF Calm, Order, ReadsFresh, ChangesAfter, Settled, Results, ReadsSeeTheSelection
<1> QED BY <1>1, LoopOrder, PTL
-----------------------------------------------------------------------------
(* How a run ends.                                                         *)

\* The loop is at its top only with no call pending, and stops resumably only there.
LEMMA BoundaryStep ==
    ASSUME TypeOK, Boundary, [Next]_vars
    PROVE  Boundary'
<1>1. CASE Quiet
  <2>1. batch' = batch /\ call' = call
    BY <1>1, QuietChangesNoCall DEF turn
  <2>2. \/ pc' = pc /\ stop' \in {stop} \cup (Stops \ {"max_turns", "deadline"})
        \/ pc = "top" /\ pc' = pc
        \/ pc' = "top" /\ BatchDone
        \/ pc' = "top" /\ stop \in {"max_turns", "deadline"}
    BY <1>1 DEF Quiet, TurnAborted, TurnLimit, Deadline, ModelFails, ModelCut,
       ModelStops, AbortBeforeMutation, Due, Finish, NextTurn, Abort, Resume, End, At,
       vars, Stops
  <2> QED BY <2>1, <2>2 DEF Boundary, BatchDone, Settled
<1>2. CASE StartTurn
  BY <1>2 DEF StartTurn, Empty, At, Boundary
<1>3. ASSUME NEW b \in Batches, ModelCalls(b) PROVE Boundary'
  BY <1>3 DEF ModelCalls, At, Boundary
<1>4. CASE StartReads
  BY <1>4 DEF StartReads, At, Boundary
<1>5. ASSUME NEW i \in DOMAIN batch,
             \/ SkipMutation(i) \/ FuseMutation(i) \/ StartMutation(i)
             \/ Succeed(i) \/ Fail(i) \/ ThrowAborted(i)
      PROVE  Boundary'
  <2>1. pc = "calls" \/ call[i] = "running"
    BY <1>5 DEF SkipMutation, FuseMutation, StartMutation, Ready, Due, At, Succeed,
       Fail, ThrowAborted
  <2>2. pc = "calls"
    BY <2>1 DEF Boundary, Settled, Results, TypeOK
  <2>3. pc' = pc /\ stop' \in {stop, "cancelled"}
    BY <1>5 DEF SkipMutation, FuseMutation, StartMutation, Succeed, Fail, ThrowAborted
  <2> QED BY <2>2, <2>3 DEF Boundary
<1> QED BY <1>1, <1>2, <1>3, <1>4, <1>5, Steps

\* A run that can be continued owes no result of a call.
THEOREM LoopSafeBoundary == Spec => []SafeBoundary
<1>1. Init => TypeOK /\ Boundary
  BY TypeInit DEF Init, Empty, Boundary, Settled
<1>2. TypeOK /\ Boundary /\ [Next]_vars => (TypeOK /\ Boundary)'
  BY TypeStep, BoundaryStep
<1>3. TypeOK /\ Boundary => SafeBoundary
  BY DEF Boundary, SafeBoundary
<1> QED BY <1>1, <1>2, <1>3, PTL DEF Spec

\* Only Finish ends a run as finish_tool, and nothing is running then.
LEMMA FinishedStep ==
    ASSUME Calm, FinishedWhole, [Next]_vars
    PROVE  FinishedWhole'
<1> SUFFICES ASSUME stop' = "finish_tool"
             PROVE  \A i \in Mutations' : call'[i] = "ok"
  BY DEF FinishedWhole
<1>1. CASE stop = "finish_tool"
  <2>1. \A i \in Mutations : call[i] = "ok"
    BY <1>1 DEF FinishedWhole
  <2>2. CASE Quiet
    <3>1. UNCHANGED <<batch, call>>
      BY <2>2, QuietChangesNoCall DEF turn
    <3> QED BY <2>1, <3>1, SameCalls
  <2>3. CASE \E i \in DOMAIN batch : Succeed(i) \/ Fail(i) \/ ThrowAborted(i)
    <3>1. PICK i \in DOMAIN batch, c \in CallStates :
             call[i] = "running" /\ Become(i, c) /\ batch' = batch
      BY <2>3 DEF Succeed, Fail, ThrowAborted, CallStates, Results
    <3> QED BY <2>1, <3>1, SameCalls DEF Become
  <2> QED BY <1>1, <2>2, <2>3, Steps DEF StartTurn, StartReads, ModelCalls,
             SkipMutation, FuseMutation, StartMutation, Ready, Due, At
<1>2. CASE stop # "finish_tool"
  <2>1. Finish
    BY <1>2 DEF Next, Loop, Mutate, Return, TurnAborted, TurnLimit, Deadline,
       StartTurn, ModelFails, ModelCut, ModelStops, ModelCalls, AbortBeforeMutation,
       SkipMutation, FuseMutation, StartMutation, StartReads, Succeed, Fail,
       ThrowAborted, NextTurn, Abort, Resume, End, vars
  <2>2. \A i \in Mutations : call[i] = "ok"
    BY <2>1, Shape DEF Finish, BatchDone, Settled, Calm, Order, FailureBlocks
  <2>3. UNCHANGED <<batch, call>>
    BY <2>1 DEF Finish, End, turn
  <2> QED BY <2>2, <2>3, SameCalls
<1> QED BY <1>1, <1>2

\* A run that a terminal tool ends made every change its last turn asked for.
THEOREM LoopFinishedWhole == Spec => []FinishedWhole
<1>1. Init => FinishedWhole
  BY DEF Init, FinishedWhole
<1>2. Calm /\ FinishedWhole /\ [Next]_vars => FinishedWhole'
  BY FinishedStep
<1> QED BY <1>1, <1>2, LoopOrder, PTL DEF Spec

\* No mutation begins once the run was aborted.
THEOREM LoopNoMutationAfterAbort == Spec => NoMutationAfterAbort
<1>1. TypeOK /\ [Next]_vars =>
        [\A i \in Mutations :
            aborted /\ call[i] = "waiting" /\ batch' = batch => call'[i] # "running"]_vars
  <2> SUFFICES ASSUME TypeOK, [Next]_vars, NEW i \in Mutations,
                      aborted, call[i] = "waiting", batch' = batch
               PROVE  call'[i] # "running"
    OBVIOUS
  <2>0. i \in DOMAIN batch /\ DOMAIN call = DOMAIN batch
    BY Shape
  <2>1. CASE Quiet
    BY <2>1, QuietChangesNoCall DEF turn
  <2>2. CASE StartTurn
    BY <2>2 DEF StartTurn
  <2>3. ASSUME NEW b \in Batches, ModelCalls(b) PROVE call'[i] # "running"
    BY <2>0, <2>3 DEF ModelCalls
  <2>4. CASE StartReads
    BY <2>0, <2>4 DEF StartReads, Reads
  <2>5. ASSUME NEW j \in DOMAIN batch,
               \/ SkipMutation(j) \/ FuseMutation(j) \/ StartMutation(j)
               \/ Succeed(j) \/ Fail(j) \/ ThrowAborted(j)
        PROVE  call'[i] # "running"
    BY <2>0, <2>5 DEF SkipMutation, FuseMutation, StartMutation, Ready, Succeed, Fail,
       ThrowAborted, Become
  <2> QED BY <2>1, <2>2, <2>3, <2>4, <2>5, Steps
<1> QED BY <1>1, LoopTypeOK, PTL DEF Spec, NoMutationAfterAbort

-----------------------------------------------------------------------------
(* The failure fuse.                                                       *)

\* A mutation that runs has failed fewer than MaxAttempts times.
LEMMA FusedStep ==
    ASSUME Calm, Fused, [Next]_vars
    PROVE  Fused'
<1> USE BoundsAssumption
<1>0. /\ TypeOK /\ failures \in [Keys -> Nat] /\ tried \in [Keys -> Nat]
      /\ \A i \in DOMAIN batch : Key(i) \in Keys
      /\ DOMAIN call = DOMAIN batch /\ Mutations \subseteq DOMAIN batch
  BY Shape DEF Calm, TypeOK
<1>1. CASE Quiet \/ StartReads
  <2>1. /\ UNCHANGED <<batch, failures, tried>>
        /\ \A i \in Mutations : call'[i] = call[i]
    BY <1>0, <1>1, QuietChangesNoCall DEF turn, fuse, StartReads, Reads
  <2> QED BY <2>1, SameCalls DEF Fused
<1>2. CASE StartTurn
  <2>1. Mutations' = {} /\ UNCHANGED <<failures, tried>>
    BY <1>2 DEF StartTurn, Empty, Mutations, fuse
  <2> QED BY <2>1 DEF Fused
<1>3. ASSUME NEW b \in Batches, ModelCalls(b) PROVE Fused'
  <2>1. UNCHANGED <<failures, tried>> /\ \A i \in Mutations' : call'[i] = "waiting"
    BY <1>3 DEF ModelCalls, Mutations, fuse
  <2> QED BY <2>1 DEF Fused
<1>4. ASSUME NEW i \in DOMAIN batch,
             \/ SkipMutation(i) \/ FuseMutation(i) \/ StartMutation(i)
             \/ Succeed(i) \/ ThrowAborted(i)
      PROVE  Fused'
  <2>1. UNCHANGED <<batch, failures, tried>>
    BY <1>4 DEF SkipMutation, FuseMutation, StartMutation, Succeed, ThrowAborted, fuse
  <2>2. ASSUME NEW j \in Mutations, call'[j] = "running"
        PROVE  failures[Key(j)] < MaxAttempts
    <3>1. CASE call[j] = "running"
      BY <3>1 DEF Fused
    <3>2. CASE call[j] # "running"
      <4>1. j = i /\ StartMutation(i)
        BY <1>0, <1>4, <2>2, <3>2 DEF SkipMutation, FuseMutation, StartMutation, Succeed,
           ThrowAborted, Become
      <4> QED BY <1>0, <4>1 DEF StartMutation, Tripped
    <3> QED BY <3>1, <3>2
  <2> QED BY <2>1, <2>2, SameCalls DEF Fused
<1>5. ASSUME NEW i \in DOMAIN batch, Fail(i) PROVE Fused'
  <2>1. /\ batch' = batch /\ failures' = [failures EXCEPT ![Key(i)] = @ + 1]
        /\ IF i \in Mutations THEN tried' = [tried EXCEPT ![Key(i)] = @ + 1]
                             ELSE tried' = tried
        /\ call[i] = "running"
        /\ \A j \in DOMAIN batch : call'[j] = "running" => j # i /\ call[j] = "running"
    BY <1>0, <1>5 DEF Fail, Become
  \* A mutation that runs is alone: it was no other call that failed.
  <2>2. \A j \in Mutations : call'[j] # "running"
    <3>1. MutationsRunAlone
      BY <1>0, Alone DEF Calm
    <3> QED BY <1>0, <2>1, <3>1 DEF MutationsRunAlone
  <2>3. ASSUME NEW k \in Keys
        PROVE  tried'[k] =< failures'[k] /\ tried'[k] =< MaxAttempts
    <3>1. tried[k] =< failures[k] /\ tried[k] =< MaxAttempts
      BY DEF Fused
    <3>2. i \in Mutations => failures[Key(i)] < MaxAttempts
      BY <2>1 DEF Fused
    <3> QED BY <1>0, <2>1, <3>1, <3>2
  <2> QED BY <2>1, <2>2, <2>3, SameCalls DEF Fused
<1> QED BY <1>1, <1>2, <1>3, <1>4, <1>5, Steps

\* An identical change is not tried more than MaxAttempts times after failing.
THEOREM LoopFuseHolds == Spec => []FuseHolds
<1>1. Init => Fused
  <2>1. Init => Mutations = {}
    BY DEF Init, Empty, Mutations
  <2> QED BY <2>1, BoundsAssumption DEF Init, Fused
<1>2. Calm /\ Fused /\ [Next]_vars => Fused'
  BY FusedStep
<1>3. Fused => FuseHolds
  BY DEF Fused, FuseHolds
<1> QED BY <1>1, <1>2, <1>3, LoopOrder, PTL DEF Spec

-----------------------------------------------------------------------------
(* The panel that follows the run.  Its handlers hold what they read before *)
(* they waited, so the invariant says of each of them what is still true of *)
(* it: that its run has begun, that no other handler will follow it again,  *)
(* and that a run it read as ended has ended (a run never lives again).     *)

Begun(r) == status[r] # "none"
Gone(r)  == status[r] = "ended"

\* A waiting probe will show r as live: it read it as live, or will follow it again.
StaleProbe(r) ==
    /\ probe # None /\ probe.run = r
    /\ probe.step = "timer" \/ (probe.step = "got" /\ probe.live)

\* Every run the panel or one of its handlers names has begun, in its thread.
Known ==
    /\ \A r \in Runs : home[r] = None <=> ~ Begun(r)
    /\ runIdRef # None => Begun(runIdRef)
    /\ sub # None => Begun(sub)
    /\ active # None => Begun(active.run)
    /\ probe # None => Begun(probe.run)
    /\ abandon # None => Begun(abandon.run)
    /\ cancel # None => Begun(cancel.run)
    /\ submit # None =>
         /\ submit.run = None <=> submit.step = "post"
         /\ submit.run # None => Begun(submit.run)
    /\ newChat # None /\ newChat.stop # None => Begun(newChat.stop)

\* What a handler of handleSelectThread read with the messages of its thread.
Opened ==
    \A s \in selects :
        /\ s.latest # None => Begun(s.latest.run)
        /\ s.latest # None /\ ~ s.latest.live => Gone(s.latest.run)
        /\ s.step = "snapshot" => s.latest # None /\ ~ s.latest.live

\* A stream is followed or probed, not both, and tried again Retries times.
Following ==
    /\ probe # None => sub = None
    /\ sub # None \/ probe # None => attempts =< Retries

ProbeTrue == probe # None /\ probe.step = "got" /\ ~ probe.live => Gone(probe.run)

\* Final reads are of ended runs, which no probe takes for live.
FinalsTrue ==
    ~ severed => \A f \in finals :
        Gone(f.run) /\ (f.step # "get" => ~ f.live) /\ ~ StaleProbe(f.run)

\* A panel that waits for its Stop follows nothing.
Stopping == ~ Excused /\ cancel # None => sub = None /\ probe = None

\* A Stop was answered truly: its run has ended, or it is not one the panel
\* knows to have ended, when the answer comes.
Heard == cancel # None /\ ~ cancel.live => Gone(cancel.run)
LateLive ==
    ~ Excused /\ cancel # None /\ cancel.step = "got" /\ cancel.live =>
        /\ \A f \in finals : f.run # cancel.run
        /\ active # None /\ active.run = cancel.run => active.live

\* A run shown as ended has ended, and no probe of it is current.
ShownTrue ==
    ~ Excused /\ active # None /\ ~ active.live =>
        Gone(active.run) /\ ~ (StaleProbe(active.run) /\ runIdRef = active.run)

Truth == ProbeTrue /\ FinalsTrue /\ Stopping /\ Heard /\ LateLive /\ ShownTrue
PanelInv == PanelTypeOK /\ Known /\ Opened /\ Following /\ Truth

LEMMA PanelInvInit == PanelInit => PanelInv
<1> SUFFICES ASSUME PanelInit PROVE PanelInv
  OBVIOUS
<1>1. PanelTypeOK
  <2>1. view \in Threads
    BY ThreadsAssumption DEF PanelInit
  <2>2. status \in [Runs -> {"none", "live", "ended"}] /\ home \in [Runs -> Opt(Threads)]
    BY DEF PanelInit, Opt
  <2>3. /\ None \in Opt(Snapshots) /\ None \in Opt(Runs) /\ None \in Opt(Probes) /\ None \in Opt(Abandons)
        /\ None \in Opt(Cancels) /\ None \in Opt(Submits) /\ None \in Opt(Chats)
    BY DEF Opt
  <2>4. phase \in {"loading", "ready", "error"} /\ attempts = 0 /\ finals = {} /\ selects = {}
    BY DEF PanelInit
  <2>5. {switches, losses, faults} \subseteq Nat /\ crossed = FALSE /\ severed = FALSE /\ unheeded = FALSE
    BY DEF PanelInit
  <2>6. /\ active = None /\ runIdRef = None /\ sub = None /\ probe = None /\ abandon = None
        /\ cancel = None /\ submit = None /\ newChat = None
    BY DEF PanelInit
  <2>7. attempts \in 0..(Retries + 1)
    BY <2>4, PanelBoundsAssumption
  <2> QED BY <2>1, <2>2, <2>3, <2>4, <2>5, <2>6, <2>7 DEF PanelTypeOK
<1>2. Known /\ Opened /\ Following /\ Truth
  BY DEF PanelInit, Known, Opened, Following, Begun, Gone, Truth, ProbeTrue, FinalsTrue, Stopping, Heard, LateLive,
         ShownTrue
<1> QED BY <1>1, <1>2 DEF PanelInv

\* A run that has begun stays in its thread, one that has ended stays so, and
\* an excuse is not taken back.
Ahead ==
    /\ \A r \in Runs : Begun(r) => Begun(r)' /\ home'[r] = home[r]
    /\ \A r \in Runs : Gone(r) => Gone(r)'
    /\ Excused => Excused'
    /\ severed => severed'

\* The run a step ends, where it ends one.
LEMMA EndsARun ==
    ASSUME PanelTypeOK, NEW r \in Runs, Begun(r), home' = home,
           status' = [status EXCEPT ![r] = "ended"],
           Excused => Excused', severed => severed'
    PROVE  Ahead
  BY DEF PanelTypeOK, Ahead, Begun, Gone

\* The cancel route ends its run or leaves every run as it is.
LEMMA Cancelling ==
    ASSUME NEW r, CancelRoute(r)
    PROVE  status' = status \/ status' = [status EXCEPT ![r] = "ended"]
  BY DEF CancelRoute

LEMMA StaysAhead ==
    ASSUME UNCHANGED server, Excused => Excused', severed => severed'
    PROVE  Ahead
  BY DEF Ahead, Begun, Gone, server

LEMMA CancelAhead ==
    ASSUME PanelTypeOK, NEW r \in Runs, Begun(r), home' = home, CancelRoute(r),
           Excused => Excused', severed => severed'
    PROVE  Ahead
  BY Cancelling, EndsARun, StaysAhead DEF server

LEMMA PanelAhead ==
    ASSUME PanelTypeOK, Known, PanelNext PROVE Ahead
<1> USE DEF Excused, Cross, history, bounds, ProbeOf, Final, FinalAt, ApplyTerminal, Attach
<1>0. crossed \in BOOLEAN /\ severed \in BOOLEAN
  BY DEF PanelTypeOK
<1>1. ASSUME NEW r \in Runs, RunStarted(r) PROVE Ahead
  BY <1>1 DEF RunStarted, PanelTypeOK, Ahead, Begun, Gone
<1>2. ASSUME NEW r \in Runs, EndRun(r) PROVE Ahead
  BY <1>2, EndsARun DEF EndRun, Begun
<1>3. CASE StopAnswered
  <2>1. cancel.run \in Runs
    BY <1>3 DEF StopAnswered, PanelTypeOK, Opt, Cancels
  <2> QED BY <1>3, <2>1, CancelAhead DEF StopAnswered, Known
<1>4. CASE StopFails
  <2>1. cancel.run \in Runs
    BY <1>4 DEF StopFails, PanelTypeOK, Opt, Cancels
  <2> QED BY <1>4, <2>1, CancelAhead, StaysAhead DEF StopFails, Known, server
<1>5. CASE AbandonRun
  <2>1. abandon.run \in Runs /\ Begun(abandon.run)
    BY <1>5 DEF AbandonRun, PanelTypeOK, Opt, Abandons, Known
  <2> QED BY <1>5, <2>1, CancelAhead, StaysAhead DEF AbandonRun, server
<1>6. ASSUME NEW t \in Threads, NewChatCreated(t) PROVE Ahead
  <2>1. newChat.stop # None => newChat.stop \in Runs /\ Begun(newChat.stop)
    BY <1>6 DEF NewChatCreated, PanelTypeOK, Opt, Chats, Known
  <2> QED BY <1>6, <2>1, CancelAhead, StaysAhead DEF NewChatCreated, server
<1>7. TerminalEvent \/ ProbeRead \/ ProbeAnswered \/ Reconnect => Ahead
  <2>1. TerminalEvent \/ ProbeRead => Ahead
    BY <1>0, StaysAhead DEF TerminalEvent, ProbeRead
  <2>2. ProbeAnswered \/ Reconnect => Ahead
    BY <1>0, StaysAhead DEF ProbeAnswered, Reconnect
  <2> QED BY <2>1, <2>2
<1>8. \A f \in finals : FinalRead(f) \/ FinalAnswered(f) \/ FinalApplied(f) \/ FinalFails(f) => Ahead
  <2> SUFFICES ASSUME NEW f \in finals PROVE FinalRead(f) \/ FinalAnswered(f) \/ FinalApplied(f) \/ FinalFails(f) => Ahead
    OBVIOUS
  <2>1. FinalRead(f) \/ FinalAnswered(f) => Ahead
    BY <1>0, StaysAhead DEF FinalRead, FinalAnswered
  <2>2. FinalApplied(f) \/ FinalFails(f) => Ahead
    BY <1>0, StaysAhead DEF FinalApplied, FinalFails
  <2> QED BY <2>1, <2>2
<1>9. \A s \in selects : Selected(s) \/ SelectedEnded(s) \/ SelectFails(s) => Ahead
  <2> SUFFICES ASSUME NEW s \in selects PROVE Selected(s) \/ SelectedEnded(s) \/ SelectFails(s) => Ahead
    OBVIOUS
  <2>1. Selected(s) => Ahead
    BY <1>0, StaysAhead DEF Selected
  <2>2. SelectedEnded(s) \/ SelectFails(s) => Ahead
    BY <1>0, StaysAhead DEF SelectedEnded, SelectFails
  <2> QED BY <2>1, <2>2
<1>10. \A t \in Threads : Select(t) \/ Load(t) => Ahead
  BY <1>0, StaysAhead DEF Select, Load
<1>11. Stop \/ Stopped \/ StopApplied \/ RunBusy \/ Submitted \/ SubmitFails \/ Submit => Ahead
  <2>1. Stop \/ Stopped \/ StopApplied => Ahead
    BY <1>0, StaysAhead DEF Stop, Stopped, StopApplied, LateStop
  <2>2. RunBusy \/ Submitted => Ahead
    BY <1>0, StaysAhead DEF RunBusy, SubmitRefused, Submitted
  <2>3. SubmitFails \/ Submit => Ahead
    BY <1>0, StaysAhead DEF SubmitFails, SubmitRefused, Submit
  <2> QED BY <2>1, <2>2, <2>3
<1>12. LoseStream \/ ProbeFails \/ NewChat \/ NewChatFails => Ahead
  <2>1. LoseStream \/ ProbeFails => Ahead
    BY <1>0, StaysAhead DEF LoseStream, ProbeFails
  <2>2. NewChat \/ NewChatFails => Ahead
    BY <1>0, StaysAhead DEF NewChat, NewChatFails
  <2> QED BY <2>1, <2>2
<1> QED BY <1>1, <1>2, <1>3, <1>4, <1>5, <1>6, <1>7, <1>8, <1>9, <1>10, <1>11, <1>12 DEF PanelNext, Answers

-----------------------------------------------------------------------------
(* Types, and what the handlers know.                                      *)

\* What a handler holds, where there is one.
LEMMA Holding ==
    ASSUME PanelTypeOK
    PROVE  /\ probe # None => probe \in Probes /\ probe.run \in Runs /\ probe.live \in BOOLEAN
           /\ active # None => active \in Snapshots /\ active.run \in Runs /\ active.live \in BOOLEAN
           /\ abandon # None => abandon \in Abandons /\ abandon.run \in Runs
           /\ cancel # None => cancel \in Cancels /\ cancel.run \in Runs /\ cancel.thread \in Threads /\ cancel.live \in BOOLEAN
           /\ submit # None => submit \in Submits /\ submit.run \in Opt(Runs) /\ submit.thread \in Threads /\ submit.continue \in BOOLEAN
           /\ newChat # None => newChat \in Chats /\ newChat.stop \in Opt(Runs)
           /\ \A f \in finals : f \in Finals /\ f.run \in Runs /\ f.thread \in Threads
           /\ \A f \in finals : f.live \in BOOLEAN /\ f.lost \in BOOLEAN
           /\ \A s \in selects : s \in Openings /\ s.thread \in Threads /\ s.latest \in Opt(Snapshots)
           /\ \A s \in selects : s.latest # None => s.latest.run \in Runs /\ s.latest.live \in BOOLEAN
  BY DEF PanelTypeOK, Opt, Probes, Snapshots, Abandons, Cancels, Submits, Chats, Finals, Openings

\* The latest run of a thread.
LEMMA LatestIs ==
    ASSUME PanelTypeOK, NEW t \in Threads
    PROVE  LET l == LatestOf(t) IN
           /\ l \in Opt(Snapshots)
           /\ l # None => /\ l.run \in Runs /\ home[l.run] = t
                          /\ l.live <=> status[l.run] = "live"
<1> DEFINE S == {r \in Runs : home[r] = t}
           c == CHOOSE r \in S : status[r] = "live" \/ S \cap Live = {}
<1>1. CASE S = {}
  BY <1>1 DEF LatestOf, Opt
<1>2. CASE S # {}
  <2>1. \E r \in S : status[r] = "live" \/ S \cap Live = {}
    BY <1>2 DEF Live
  <2>2. c \in S
    BY <2>1
  <2>3. LatestOf(t) = [run |-> c, live |-> c \in Live]
    BY <1>2 DEF LatestOf
  <2> HIDE DEF c
  <2>4. c \in Runs /\ home[c] = t
    BY <2>2
  <2> DEFINE b == c \in Live
  <2>6. b \in BOOLEAN /\ (b <=> status[c] = "live")
    BY <2>4 DEF Live
  <2>7. LatestOf(t) = [run |-> c, live |-> b]
    BY <2>3
  <2> HIDE DEF b
  <2>5. LatestOf(t) \in Snapshots /\ LatestOf(t).run = c /\ (LatestOf(t).live <=> status[c] = "live")
    BY <2>4, <2>6, <2>7 DEF Snapshots
  <2> QED BY <2>4, <2>5 DEF Opt
<1> QED BY <1>1, <1>2

\* A run has a thread once it has begun.
LEMMA HomeOf ==
    ASSUME PanelTypeOK, Known, NEW r \in Runs, Begun(r) PROVE home[r] \in Threads
  BY DEF PanelTypeOK, Known, Opt

LEMMA FinalTyped ==
    ASSUME NEW r \in Runs, NEW t \in Threads, NEW b \in BOOLEAN
    PROVE  Final(r, t, b) \in Finals
  BY DEF Final, Finals

\* Where the server is as it was, the panel's types are the rest.
PanelTypes ==
    /\ view \in Threads /\ phase \in {"loading", "ready", "error"} /\ active \in Opt(Snapshots)
    /\ runIdRef \in Opt(Runs) /\ sub \in Opt(Runs) /\ attempts \in 0..(Retries + 1)
JobTypes ==
    /\ probe \in Opt(Probes) /\ finals \subseteq Finals /\ abandon \in Opt(Abandons)
    /\ cancel \in Opt(Cancels) /\ selects \subseteq Openings
    /\ submit \in Opt(Submits) /\ newChat \in Opt(Chats)
ServerTypes ==
    /\ status \in [Runs -> {"none", "live", "ended"}]
    /\ home \in [Runs -> Opt(Threads)]
BoundTypes ==
    /\ {switches, losses, faults} \subseteq Nat
    /\ {crossed, severed, unheeded} \subseteq BOOLEAN

LEMMA TypesAre == PanelTypeOK <=> ServerTypes /\ PanelTypes /\ JobTypes /\ BoundTypes
  BY DEF PanelTypeOK, ServerTypes, PanelTypes, JobTypes, BoundTypes

LEMMA ServerStep == PanelInv /\ [PanelNext]_panelVars => ServerTypes'
<1> SUFFICES ASSUME PanelInv, [PanelNext]_panelVars PROVE ServerTypes'
  OBVIOUS
<1> USE DEF server
<1>0. ServerTypes /\ PanelTypeOK
  BY TypesAre DEF PanelInv
<1>1. UNCHANGED server => ServerTypes'
  BY <1>0 DEF ServerTypes
<1>2. \A r \in Runs : home' = home /\ status' = [status EXCEPT ![r] = "ended"] => ServerTypes'
  BY <1>0 DEF ServerTypes
<1>3. ASSUME NEW r \in Runs, RunStarted(r) PROVE ServerTypes'
  <2>1. submit.thread \in Threads
    BY <1>0, <1>3, Holding DEF RunStarted
  <2> QED BY <2>1, <1>0, <1>3 DEF RunStarted, ServerTypes, Opt
<1>4. \A r \in Runs : EndRun(r) => ServerTypes'
  BY <1>2 DEF EndRun
<1>5. StopAnswered \/ StopFails => ServerTypes'
  BY <1>0, <1>1, <1>2, Holding, Cancelling DEF StopAnswered, StopFails
<1>6. AbandonRun => ServerTypes'
  BY <1>0, <1>1, <1>2, Holding, Cancelling DEF AbandonRun
<1>7. \A t \in Threads : NewChatCreated(t) => ServerTypes'
  BY <1>0, <1>1, <1>2, Holding, Cancelling DEF NewChatCreated, Opt
<1>8. TerminalEvent \/ ProbeRead \/ ProbeAnswered \/ Reconnect => ServerTypes'
  BY <1>1 DEF TerminalEvent, ProbeRead, ProbeAnswered, Reconnect
<1>9. \A f \in finals : FinalRead(f) \/ FinalAnswered(f) \/ FinalApplied(f) \/ FinalFails(f) => ServerTypes'
  BY <1>1 DEF FinalRead, FinalAnswered, FinalApplied, FinalFails
<1>10. \A s \in selects : Selected(s) \/ SelectedEnded(s) \/ SelectFails(s) => ServerTypes'
  BY <1>1 DEF Selected, SelectedEnded, SelectFails
<1>11. \A t \in Threads : Select(t) \/ Load(t) => ServerTypes'
  BY <1>1 DEF Select, Load
<1>12. Stop \/ Stopped \/ StopApplied \/ RunBusy \/ Submitted \/ SubmitFails \/ Submit => ServerTypes'
  BY <1>1 DEF Stop, Stopped, StopApplied, RunBusy, Submitted, SubmitFails, Submit
<1>13. LoseStream \/ ProbeFails \/ NewChat \/ NewChatFails => ServerTypes'
  BY <1>1 DEF LoseStream, ProbeFails, NewChat, NewChatFails
<1>14. UNCHANGED panelVars => ServerTypes'
  BY <1>1 DEF panelVars
<1> QED BY <1>3, <1>4, <1>5, <1>6, <1>7, <1>8, <1>9, <1>10, <1>11, <1>12, <1>13, <1>14 DEF PanelNext, Answers

LEMMA BoundStep == PanelInv /\ [PanelNext]_panelVars => BoundTypes'
<1> SUFFICES ASSUME PanelInv, [PanelNext]_panelVars PROVE BoundTypes'
  OBVIOUS
<1> USE DEF bounds, history, Cross, Fault, ProbeOf, Final, FinalAt, ApplyTerminal, Attach, BoundTypes
<1>0. BoundTypes
  BY TypesAre DEF PanelInv
<1>1. \A r \in Runs : RunStarted(r) \/ EndRun(r) => BoundTypes'
  BY <1>0 DEF RunStarted, EndRun
<1>2. StopAnswered \/ Stopped \/ StopFails \/ AbandonRun => BoundTypes'
  <2>0. StopAnswered => BoundTypes'
    BY <1>0 DEF StopAnswered
  <2>1. Stopped => BoundTypes'
    BY <1>0 DEF Stopped, LateStop
  <2>2. StopFails => BoundTypes'
    BY <1>0 DEF StopFails
  <2>3. AbandonRun => BoundTypes'
    BY <1>0 DEF AbandonRun
  <2> QED BY <2>0, <2>1, <2>2, <2>3
<1>3. \A t \in Threads : NewChatCreated(t) => BoundTypes'
  BY <1>0 DEF NewChatCreated
<1>4. TerminalEvent \/ ProbeRead \/ ProbeAnswered \/ Reconnect => BoundTypes'
  BY <1>0 DEF TerminalEvent, ProbeRead, ProbeAnswered, Reconnect
<1>5. \A f \in finals : FinalRead(f) \/ FinalAnswered(f) \/ FinalApplied(f) \/ FinalFails(f) => BoundTypes'
  <2> SUFFICES ASSUME NEW f \in finals
               PROVE  FinalRead(f) \/ FinalAnswered(f) \/ FinalApplied(f) \/ FinalFails(f) => BoundTypes'
    OBVIOUS
  <2>1. FinalRead(f) => BoundTypes'
    BY <1>0 DEF FinalRead
  <2>2. FinalAnswered(f) => BoundTypes'
    BY <1>0 DEF FinalAnswered
  <2>3. FinalApplied(f) => BoundTypes'
    BY <1>0 DEF FinalApplied
  <2>4. FinalFails(f) => BoundTypes'
    <3>1. FinalFails(f) => severed' = TRUE \/ severed' = severed
      BY Zenon DEF FinalFails
    <3>2. FinalFails(f) => crossed' = crossed /\ unheeded' = unheeded /\ switches' = switches /\ losses' = losses /\ faults' = faults + 1
      BY DEF FinalFails
    <3>3. FinalFails(f) => {crossed', severed', unheeded'} \subseteq BOOLEAN
      BY <1>0, <3>1, <3>2, Zenon
    <3>4. FinalFails(f) => {switches', losses', faults'} \subseteq Nat
      BY <1>0, <3>2
    <3> QED BY <3>3, <3>4
  <2> QED BY <2>1, <2>2, <2>3, <2>4
<1>6. \A s \in selects : Selected(s) \/ SelectedEnded(s) \/ SelectFails(s) => BoundTypes'
  <2> SUFFICES ASSUME NEW s \in selects PROVE Selected(s) \/ SelectedEnded(s) \/ SelectFails(s) => BoundTypes'
    OBVIOUS
  <2>1. Selected(s) => BoundTypes'
    BY <1>0 DEF Selected
  <2>2. SelectedEnded(s) => BoundTypes'
    BY <1>0 DEF SelectedEnded
  <2>3. SelectFails(s) => BoundTypes'
    BY <1>0 DEF SelectFails
  <2> QED BY <2>1, <2>2, <2>3
<1>7. \A t \in Threads : Select(t) \/ Load(t) => BoundTypes'
  BY <1>0 DEF Select, Load
<1>8. Stop \/ StopApplied \/ RunBusy \/ Submitted \/ SubmitFails \/ Submit => BoundTypes'
  <2>1. Stop => BoundTypes'
    BY <1>0 DEF Stop
  <2>2. StopApplied => BoundTypes'
    BY <1>0 DEF StopApplied, LateStop
  <2>3. RunBusy => BoundTypes'
    BY <1>0 DEF RunBusy, SubmitRefused
  <2>4. Submitted => BoundTypes'
    BY <1>0 DEF Submitted
  <2>5. SubmitFails => BoundTypes'
    BY <1>0 DEF SubmitFails, SubmitRefused
  <2>6. Submit => BoundTypes'
    BY <1>0 DEF Submit
  <2> QED BY <2>1, <2>2, <2>3, <2>4, <2>5, <2>6
<1>9. LoseStream \/ ProbeFails \/ NewChat \/ NewChatFails => BoundTypes'
  <2>1. LoseStream => BoundTypes'
    BY <1>0 DEF LoseStream
  <2>2. ProbeFails => BoundTypes'
    BY <1>0 DEF ProbeFails
  <2>3. NewChat => BoundTypes'
    BY <1>0 DEF NewChat
  <2>4. NewChatFails => BoundTypes'
    BY <1>0 DEF NewChatFails
  <2> QED BY <2>1, <2>2, <2>3, <2>4
<1>10. UNCHANGED panelVars => BoundTypes'
  BY <1>0 DEF panelVars
<1> QED BY <1>1, <1>2, <1>3, <1>4, <1>5, <1>6, <1>7, <1>8, <1>9, <1>10 DEF PanelNext, Answers

LEMMA PanelTypesStep == PanelInv /\ [PanelNext]_panelVars => PanelTypes'
<1> SUFFICES ASSUME PanelInv, [PanelNext]_panelVars PROVE PanelTypes'
  OBVIOUS
<1> USE DEF panel, ApplyTerminal, Attach, StopSse, Leave, PanelTypes
<1>0. PanelTypes /\ PanelTypeOK /\ Known
  BY TypesAre DEF PanelInv
<1>a. 0 \in 0..(Retries + 1)
  BY PanelBoundsAssumption
<1>b. \A r \in Runs, b \in BOOLEAN : [run |-> r, live |-> b] \in Opt(Snapshots) /\ r \in Opt(Runs)
  BY DEF Opt, Snapshots
<1>c. None \in Opt(Snapshots) /\ None \in Opt(Runs)
  BY DEF Opt
<1>1. \A r \in Runs : RunStarted(r) \/ EndRun(r) => PanelTypes'
  BY <1>0 DEF RunStarted, EndRun
<1>2. StopAnswered \/ Stopped \/ StopFails \/ AbandonRun => PanelTypes'
  BY <1>0, <1>a, <1>b, <1>c, Holding DEF StopAnswered, Stopped, StopFails, AbandonRun
<1>3. \A t \in Threads : NewChatCreated(t) => PanelTypes'
  BY <1>0, <1>a, <1>c DEF NewChatCreated
<1>4. TerminalEvent \/ ProbeRead => PanelTypes'
  BY <1>0, <1>c DEF TerminalEvent, ProbeRead
<1>5. CASE ProbeAnswered
  <2>1. attempts' \in 0..(Retries + 1)
    <3>1. attempts \in 0..(Retries + 1) /\ attempts =< Retries
      BY <1>0, <1>5 DEF ProbeAnswered, PanelInv, Following
    <3>2. attempts' = attempts \/ attempts' = attempts + 1
      BY <1>5 DEF ProbeAnswered
    <3> QED BY <3>1, <3>2, PanelBoundsAssumption
  <2>2. active' \in Opt(Snapshots)
    BY <1>0, <1>5, <1>b, Holding DEF ProbeAnswered, Probes
  <2> QED BY <1>0, <1>5, <2>1, <2>2 DEF ProbeAnswered
<1>6. CASE Reconnect
  BY <1>0, <1>6, <1>b, Holding DEF Reconnect
<1>7. \A f \in finals : FinalRead(f) \/ FinalAnswered(f) \/ FinalApplied(f) \/ FinalFails(f) => PanelTypes'
  BY <1>0, <1>a, <1>b, <1>c, Holding DEF FinalRead, FinalAnswered, FinalApplied, FinalFails
<1>8. \A s \in selects : Selected(s) \/ SelectedEnded(s) \/ SelectFails(s) => PanelTypes'
  <2> SUFFICES ASSUME NEW s \in selects PROVE Selected(s) \/ SelectedEnded(s) \/ SelectFails(s) => PanelTypes'
    OBVIOUS
  <2>1. Selected(s) => PanelTypes'
    BY <1>0, <1>a, <1>b, <1>c, Holding DEF Selected
  <2>2. SelectedEnded(s) \/ SelectFails(s) => PanelTypes'
    BY <1>0, <1>a, <1>c, Holding DEF SelectedEnded, SelectFails
  <2> QED BY <2>1, <2>2
<1>9. \A t \in Threads : Select(t) \/ Load(t) => PanelTypes'
  BY <1>0, <1>a, <1>c DEF Select, Load
<1>10. Stop \/ StopApplied \/ SubmitFails \/ Submit => PanelTypes'
  BY <1>0, <1>a, <1>c DEF Stop, StopApplied, SubmitFails, SubmitRefused, Submit
<1>11. RunBusy => PanelTypes'
  <2>1. \A r \in Live : home[r] \in Threads
    BY <1>0, HomeOf DEF Live, Begun
  <2> QED BY <1>0, <1>a, <1>c, <2>1 DEF RunBusy, SubmitRefused
<1>12. Submitted => PanelTypes'
  <2> SUFFICES ASSUME Submitted PROVE PanelTypes'
    OBVIOUS
  <2>1. submit.run \in Runs
    BY <1>0, Holding DEF Submitted, Known, Opt
  <2> QED BY <1>0, <1>a, <1>b, <2>1 DEF Submitted
<1>13. LoseStream \/ ProbeFails \/ NewChat \/ NewChatFails => PanelTypes'
  BY <1>0, <1>c DEF LoseStream, ProbeFails, NewChat, NewChatFails
<1>14. UNCHANGED panelVars => PanelTypes'
  BY <1>0 DEF panelVars
<1> QED BY <1>1, <1>2, <1>3, <1>4, <1>5, <1>6, <1>7, <1>8, <1>9, <1>10, <1>11, <1>12, <1>13, <1>14 DEF PanelNext, Answers

LEMMA OpeningTyped ==
    ASSUME PanelTypeOK, NEW t \in Threads PROVE Opening(t) \in Openings
<1>1. LatestOf(t) \in Opt(Snapshots)
  BY LatestIs
<1> QED BY <1>1 DEF Opening, Openings

LEMMA JobTypesStep == PanelInv /\ [PanelNext]_panelVars => JobTypes'
<1> SUFFICES ASSUME PanelInv, [PanelNext]_panelVars PROVE JobTypes'
  OBVIOUS
<1> USE DEF jobs, JobTypes
<1>0. JobTypes /\ PanelTypes /\ PanelTypeOK /\ Known
  BY TypesAre DEF PanelInv
<1>a. /\ None \in Opt(Probes) /\ None \in Opt(Abandons) /\ None \in Opt(Cancels)
      /\ None \in Opt(Submits) /\ None \in Opt(Chats)
  BY DEF Opt
<1>b. \A r \in Runs, b \in BOOLEAN : /\ ProbeOf(r, "get", b) \in Opt(Probes)
                                     /\ ProbeOf(r, "got", b) \in Opt(Probes)
                                     /\ ProbeOf(r, "timer", b) \in Opt(Probes)
  BY DEF Opt, Probes, ProbeOf
<1>c. \A r \in Runs : Begun(r) /\ Abandon(r) => abandon' \in Opt(Abandons)
  BY <1>0, HomeOf DEF Opt, Abandons, Abandon
<1>1. \A r \in Runs : RunStarted(r) \/ EndRun(r) => JobTypes'
  <2> SUFFICES ASSUME NEW r \in Runs PROVE RunStarted(r) \/ EndRun(r) => JobTypes'
    OBVIOUS
  <2>1. CASE RunStarted(r)
    <3>1. submit' \in Opt(Submits)
      BY <1>0, <2>1, Holding DEF RunStarted, Submits, Opt
    <3> QED BY <1>0, <2>1, <3>1 DEF RunStarted
  <2>2. EndRun(r) => JobTypes'
    BY <1>0 DEF EndRun
  <2> QED BY <2>1, <2>2
<1>2. CASE Stopped \/ StopAnswered
  <2>1. CASE Stopped
    <3>1. cancel' \in Opt(Cancels)
      BY <1>0, <2>1, Holding DEF Stopped, StopOf, Cancels, Opt
    <3> QED BY <1>0, <2>1, <3>1 DEF Stopped
  <2>2. CASE StopAnswered
    <3> DEFINE live == status'[cancel.run] = "live"
    <3>1. live \in BOOLEAN
      OBVIOUS
    <3>2. cancel' = [run |-> cancel.run, thread |-> cancel.thread, step |-> "got", live |-> live]
      BY <2>2 DEF StopAnswered, StopOf
    <3> HIDE DEF live
    <3>3. cancel' \in Opt(Cancels)
      BY <1>0, <2>2, <3>1, <3>2, Holding DEF StopAnswered, Cancels, Opt
    <3> QED BY <1>0, <2>2, <3>3 DEF StopAnswered
  <2> QED BY <1>2, <2>1, <2>2
<1>3. CASE StopFails
  <2>1. Final(cancel.run, cancel.thread, FALSE) \in Finals
    BY <1>0, <1>3, Holding, FinalTyped DEF StopFails
  <2> QED BY <1>0, <1>a, <1>3, <2>1 DEF StopFails
<1>4. AbandonRun => JobTypes'
  BY <1>0, <1>a DEF AbandonRun
<1>5. \A t \in Threads : NewChatCreated(t) => JobTypes'
  BY <1>0, <1>a DEF NewChatCreated
<1>6. CASE TerminalEvent
  <2>1. sub \in Runs /\ home[sub] \in Threads
    BY <1>0, <1>6, HomeOf DEF TerminalEvent, Begun, PanelTypes, Opt
  <2>2. Final(sub, home[sub], FALSE) \in Finals
    BY <2>1, FinalTyped
  <2> QED BY <1>0, <1>a, <1>6, <2>2 DEF TerminalEvent, StopSse
<1>7. CASE ProbeRead
  <2>1. (probe.run \in Live) \in BOOLEAN
    OBVIOUS
  <2>2. probe' \in Opt(Probes)
    BY <1>0, <1>b, <1>7, <2>1, Holding DEF ProbeRead
  <2> QED BY <1>0, <1>7, <2>2 DEF ProbeRead
<1>8. CASE ProbeAnswered
  <2>1. probe.run \in Runs /\ Begun(probe.run) /\ home[probe.run] \in Threads
    BY <1>0, <1>8, Holding, HomeOf DEF ProbeAnswered, Known
  <2>2. Final(probe.run, home[probe.run], TRUE) \in Finals
    BY <2>1, FinalTyped
  <2>3. probe' \in Opt(Probes)
    BY <1>0, <1>a, <1>b, <1>8, <2>1 DEF ProbeAnswered
  <2>4. abandon' \in Opt(Abandons)
    BY <1>0, <1>c, <1>8, <2>1 DEF ProbeAnswered
  <2>5. finals' \subseteq Finals
    BY <1>0, <1>8, <2>2 DEF ProbeAnswered
  <2> QED BY <1>0, <1>8, <2>3, <2>4, <2>5 DEF ProbeAnswered
<1>9. Reconnect => JobTypes'
  BY <1>0, <1>a DEF Reconnect, Attach
<1>10. \A f \in finals : FinalRead(f) \/ FinalAnswered(f) \/ FinalApplied(f) \/ FinalFails(f) => JobTypes'
  <2> SUFFICES ASSUME NEW f \in finals
               PROVE  FinalRead(f) \/ FinalAnswered(f) \/ FinalApplied(f) \/ FinalFails(f) => JobTypes'
    OBVIOUS
  <2>1. f \in Finals /\ f.run \in Runs
    BY <1>0, Holding
  <2>2. \A step \in {"got", "refresh"}, b \in BOOLEAN : FinalAt(f, step, b) \in Finals
    BY <1>0, Holding DEF FinalAt, Finals
  <2>3. CASE FinalRead(f)
    <3>1. (f.run \in Live) \in BOOLEAN
      OBVIOUS
    <3>2. finals' \subseteq Finals
      BY <1>0, <2>2, <2>3, <3>1 DEF FinalRead
    <3> QED BY <1>0, <2>3, <3>2 DEF FinalRead
  <2>4. CASE FinalAnswered(f)
    <3>1. f.live \in BOOLEAN
      BY <1>0, Holding
    <3>2. finals' \subseteq Finals
      BY <1>0, <2>2, <2>4, <3>1 DEF FinalAnswered
    <3> QED BY <1>0, <2>4, <3>2 DEF FinalAnswered
  <2>5. CASE FinalApplied(f)
    BY <1>0, <2>5 DEF FinalApplied
  <2>6. CASE FinalFails(f)
    <3>1. Begun(runIdRef) => [run |-> runIdRef, thread |-> home[runIdRef]] \in Opt(Abandons) \/ runIdRef \notin Runs
      BY <1>0, HomeOf DEF Opt, Abandons
    <3>2. f.lost \in BOOLEAN
      BY <1>0, Holding
    <3>3. f.run # None
      BY <2>1, NoneAssumption
    <3>4. abandon' = abandon \/ (abandon' = [run |-> f.run, thread |-> home[f.run]] /\ runIdRef = f.run)
      BY <2>6, <3>2 DEF FinalFails, isCurrent, Abandon
    <3>5. abandon' \in Opt(Abandons)
      BY <1>0, <2>1, <3>1, <3>3, <3>4 DEF Known
    <3> QED BY <1>0, <2>6, <3>5 DEF FinalFails
  <2> QED BY <2>3, <2>4, <2>5, <2>6
<1>11. \A s \in selects : Selected(s) \/ SelectedEnded(s) \/ SelectFails(s) => JobTypes'
  <2> SUFFICES ASSUME NEW s \in selects
               PROVE  Selected(s) \/ SelectedEnded(s) \/ SelectFails(s) => JobTypes'
    OBVIOUS
  <2>1. [thread |-> s.thread, step |-> "snapshot", latest |-> s.latest] \in Openings
    BY <1>0, Holding DEF Openings
  <2>2. Selected(s) => JobTypes'
    BY <1>0, <1>a, <2>1 DEF Selected, Attach
  <2>3. SelectedEnded(s) \/ SelectFails(s) => JobTypes'
    BY <1>0, <1>a DEF SelectedEnded, SelectFails
  <2> QED BY <2>2, <2>3
<1>12. \A t \in Threads : Select(t) \/ Load(t) => JobTypes'
  BY <1>0, <1>a, OpeningTyped DEF Select, Load, Leave, StopSse
<1>13. CASE Stop
  <2>1. cancel' \in Opt(Cancels)
    BY <1>0, <1>13, Holding DEF Stop, PanelTypes, Opt, Cancels
  <2> QED BY <1>0, <1>a, <1>13, <2>1 DEF Stop, StopSse
<1>14. StopApplied \/ SubmitFails \/ Submitted => JobTypes'
  BY <1>0, <1>a DEF StopApplied, SubmitFails, SubmitRefused, Submitted, Attach
<1>15. CASE Submit
  <2>1. submit' \in Opt(Submits)
    <3>1. PICK continue \in {FALSE, active # None} :
              submit' = [thread |-> view, run |-> None, step |-> "post", continue |-> continue]
      BY <1>15 DEF Submit
    <3>2. continue \in BOOLEAN
      OBVIOUS
    <3> QED BY <1>0, <3>1, <3>2 DEF PanelTypes, Opt, Submits
  <2> QED BY <1>0, <1>15, <2>1 DEF Submit
<1>16. CASE RunBusy
  <2>1. \A r \in Live : home[r] \in Threads /\ Opening(home[r]) \in Openings
    BY <1>0, HomeOf, OpeningTyped DEF Live, Begun
  <2> QED BY <1>0, <1>a, <1>16, <2>1 DEF RunBusy, SubmitRefused, Leave, StopSse
<1>17. CASE LoseStream
  <2>1. probe' \in Opt(Probes)
    BY <1>0, <1>b, <1>17 DEF LoseStream, PanelTypes, Opt
  <2> QED BY <1>0, <1>17, <2>1 DEF LoseStream
<1>18. CASE ProbeFails
  <2>1. abandon' \in Opt(Abandons)
    BY <1>0, <1>c, <1>18, Holding DEF ProbeFails, Known
  <2> QED BY <1>0, <1>a, <1>18, <2>1 DEF ProbeFails
<1>19. CASE NewChat
  <2>1. newChat' \in Opt(Chats)
    BY <1>0, <1>19, Holding DEF NewChat, PanelTypes, Opt, Chats, ShowsLive
  <2> QED BY <1>0, <1>a, <1>19, <2>1 DEF NewChat, StopSse
<1>20. NewChatFails => JobTypes'
  BY <1>0, <1>a DEF NewChatFails
<1>21. UNCHANGED panelVars => JobTypes'
  BY <1>0 DEF panelVars
<1> QED BY <1>1, <1>2, <1>3, <1>4, <1>5, <1>6, <1>7, <1>8, <1>9, <1>10, <1>11, <1>12, <1>13, <1>14, <1>15,
           <1>16, <1>17, <1>18, <1>19, <1>20, <1>21 DEF PanelNext, Answers

HomesKnown == \A r \in Runs : home[r] = None <=> ~ Begun(r)
PanelKnown ==
    /\ runIdRef # None => Begun(runIdRef)
    /\ sub # None => Begun(sub)
    /\ active # None => Begun(active.run)
JobsKnown ==
    /\ probe # None => Begun(probe.run)
    /\ abandon # None => Begun(abandon.run)
    /\ cancel # None => Begun(cancel.run)
    /\ submit # None =>
         /\ submit.run = None <=> submit.step = "post"
         /\ submit.run # None => Begun(submit.run)
    /\ newChat # None /\ newChat.stop # None => Begun(newChat.stop)

LEMMA KnownIs == Known <=> HomesKnown /\ PanelKnown /\ JobsKnown
  BY DEF Known, HomesKnown, PanelKnown, JobsKnown

\* What is known of a handler stays known.
LEMMA KnownAhead ==
    ASSUME PanelInv, Ahead
    PROVE  /\ \A r \in Runs : Begun(r) => Begun(r)'
           /\ runIdRef # None => status'[runIdRef] # "none"
           /\ sub # None => status'[sub] # "none"
           /\ active # None => status'[active.run] # "none"
           /\ probe # None => status'[probe.run] # "none"
           /\ abandon # None => status'[abandon.run] # "none"
           /\ cancel # None => status'[cancel.run] # "none"
           /\ submit # None /\ submit.run # None => status'[submit.run] # "none"
           /\ newChat # None /\ newChat.stop # None => status'[newChat.stop] # "none"
           /\ \A f \in finals : Begun(f.run) => status'[f.run] # "none"
           /\ \A s \in selects : s.latest # None => status'[s.latest.run] # "none"
<1>1. PanelTypeOK /\ Known /\ Opened
  BY DEF PanelInv
<1>2. (runIdRef # None => runIdRef \in Runs) /\ (sub # None => sub \in Runs)
  BY <1>1 DEF PanelTypeOK, Opt
<1>3. \A r \in Runs : status[r] # "none" => status'[r] # "none"
  BY DEF Ahead, Begun
<1>4. /\ runIdRef # None => Begun(runIdRef)
      /\ sub # None => Begun(sub)
      /\ active # None => Begun(active.run)
      /\ probe # None => Begun(probe.run)
      /\ abandon # None => Begun(abandon.run)
      /\ cancel # None => Begun(cancel.run)
      /\ submit # None /\ submit.run # None => Begun(submit.run)
      /\ newChat # None /\ newChat.stop # None => Begun(newChat.stop)
      /\ \A s \in selects : s.latest # None => Begun(s.latest.run)
  BY <1>1 DEF Known, Opened
<1>5. /\ active # None => active.run \in Runs
      /\ probe # None => probe.run \in Runs
      /\ abandon # None => abandon.run \in Runs
      /\ cancel # None => cancel.run \in Runs
      /\ submit # None /\ submit.run # None => submit.run \in Runs
      /\ newChat # None /\ newChat.stop # None => newChat.stop \in Runs
      /\ \A f \in finals : f.run \in Runs
      /\ \A s \in selects : s.latest # None => s.latest.run \in Runs
  BY <1>1, Holding DEF Opt
<1>6. /\ runIdRef # None => status'[runIdRef] # "none"
      /\ sub # None => status'[sub] # "none"
      /\ active # None => status'[active.run] # "none"
      /\ probe # None => status'[probe.run] # "none"
  BY <1>2, <1>3, <1>4, <1>5 DEF Begun
<1>7. /\ abandon # None => status'[abandon.run] # "none"
      /\ cancel # None => status'[cancel.run] # "none"
      /\ submit # None /\ submit.run # None => status'[submit.run] # "none"
      /\ newChat # None /\ newChat.stop # None => status'[newChat.stop] # "none"
  BY <1>3, <1>4, <1>5 DEF Begun
<1>8. /\ \A f \in finals : Begun(f.run) => status'[f.run] # "none"
      /\ \A s \in selects : s.latest # None => status'[s.latest.run] # "none"
  BY <1>3, <1>4, <1>5 DEF Begun
<1>9. \A r \in Runs : Begun(r) => Begun(r)'
  BY <1>3 DEF Begun
<1> QED BY <1>6, <1>7, <1>8, <1>9

LEMMA HomesStep == PanelInv /\ PanelNext => HomesKnown'
<1> SUFFICES ASSUME PanelInv, PanelNext PROVE HomesKnown'
  OBVIOUS
<1>0. PanelTypeOK /\ HomesKnown /\ Known /\ Ahead
  BY KnownIs, PanelAhead DEF PanelInv
<1>2. UNCHANGED server => HomesKnown'
  BY <1>0 DEF HomesKnown, Begun, server
<1>3. \A r \in Runs : Begun(r) /\ home' = home /\ status' = [status EXCEPT ![r] = "ended"] => HomesKnown'
  BY <1>0 DEF HomesKnown, Begun, PanelTypeOK
<1>4. ASSUME NEW r \in Runs, RunStarted(r) PROVE HomesKnown'
  <2>1. submit.thread # None
    BY <1>0, <1>4, Holding, NoneAssumption DEF RunStarted
  <2> QED BY <2>1, <1>0, <1>4 DEF RunStarted, HomesKnown, Begun, PanelTypeOK
<1>5. \A r \in Runs : EndRun(r) => HomesKnown'
  BY <1>3 DEF EndRun, Begun
<1>6. StopAnswered \/ StopFails => HomesKnown'
  BY <1>0, <1>2, <1>3, Holding, Cancelling DEF StopAnswered, StopFails, Known, server
<1>7. AbandonRun => HomesKnown'
  BY <1>0, <1>2, <1>3, Holding, Cancelling DEF AbandonRun, Known, server
<1>8. \A t \in Threads : NewChatCreated(t) => HomesKnown'
  BY <1>0, <1>2, <1>3, Holding, Cancelling DEF NewChatCreated, Opt, Known, server
<1>9. TerminalEvent \/ ProbeRead \/ ProbeAnswered \/ Reconnect => HomesKnown'
  BY <1>2 DEF TerminalEvent, ProbeRead, ProbeAnswered, Reconnect
<1>10. \A f \in finals : FinalRead(f) \/ FinalAnswered(f) \/ FinalApplied(f) \/ FinalFails(f) => HomesKnown'
  BY <1>2 DEF FinalRead, FinalAnswered, FinalApplied, FinalFails
<1>11. \A s \in selects : Selected(s) \/ SelectedEnded(s) \/ SelectFails(s) => HomesKnown'
  BY <1>2 DEF Selected, SelectedEnded, SelectFails
<1>12. \A t \in Threads : Select(t) \/ Load(t) => HomesKnown'
  BY <1>2 DEF Select, Load
<1>13. Stop \/ Stopped \/ StopApplied \/ RunBusy \/ Submitted \/ SubmitFails \/ Submit => HomesKnown'
  BY <1>2 DEF Stop, Stopped, StopApplied, RunBusy, Submitted, SubmitFails, Submit
<1>14. LoseStream \/ ProbeFails \/ NewChat \/ NewChatFails => HomesKnown'
  BY <1>2 DEF LoseStream, ProbeFails, NewChat, NewChatFails
<1> QED BY <1>4, <1>5, <1>6, <1>7, <1>8, <1>9, <1>10, <1>11, <1>12, <1>13, <1>14 DEF PanelNext, Answers

LEMMA PanelKnownStep == PanelInv /\ PanelNext => PanelKnown'
<1> SUFFICES ASSUME PanelInv, PanelNext PROVE PanelKnown'
  OBVIOUS
<1> USE DEF panel, ApplyTerminal, Attach, StopSse, Leave, PanelKnown, Begun
<1>0. PanelTypeOK /\ PanelKnown /\ JobsKnown /\ Ahead
  BY KnownIs, PanelAhead DEF PanelInv
<1>1. \A r \in Runs : RunStarted(r) \/ EndRun(r) => PanelKnown'
  BY <1>0, KnownAhead DEF RunStarted, EndRun
<1>2. StopAnswered \/ Stopped \/ StopFails \/ AbandonRun => PanelKnown'
  <2>0. CASE StopAnswered
    BY <1>0, <2>0, KnownAhead DEF StopAnswered
  <2>1. CASE Stopped
    <3>1. status'[cancel.run] # "none" /\ active'.run = cancel.run
      BY <1>0, <2>1, KnownAhead DEF Stopped
    <3> QED BY <1>0, <2>1, <3>1, KnownAhead DEF Stopped
  <2>2. CASE StopFails
    BY <1>0, <2>2, KnownAhead DEF StopFails
  <2>3. CASE AbandonRun
    BY <1>0, <2>3, KnownAhead DEF AbandonRun
  <2> QED BY <2>0, <2>1, <2>2, <2>3
<1>3. \A t \in Threads : NewChatCreated(t) => PanelKnown'
  BY <1>0, KnownAhead DEF NewChatCreated
<1>4. TerminalEvent \/ ProbeRead => PanelKnown'
  BY <1>0, KnownAhead DEF TerminalEvent, ProbeRead
<1>5. CASE ProbeAnswered
  BY <1>0, <1>5, KnownAhead DEF ProbeAnswered
<1>6. CASE Reconnect
  BY <1>0, <1>6, KnownAhead DEF Reconnect
<1>7. \A f \in finals : FinalRead(f) \/ FinalAnswered(f) \/ FinalApplied(f) \/ FinalFails(f) => PanelKnown'
  <2> SUFFICES ASSUME NEW f \in finals
               PROVE  FinalRead(f) \/ FinalAnswered(f) \/ FinalApplied(f) \/ FinalFails(f) => PanelKnown'
    OBVIOUS
  <2>1. FinalRead(f) \/ FinalFails(f) => PanelKnown'
    BY <1>0, KnownAhead DEF FinalRead, FinalFails
  <2>2. CASE FinalAnswered(f)
    <3>1. f.run # None
      BY <1>0, Holding, NoneAssumption
    <3> QED BY <1>0, <2>2, <3>1, KnownAhead DEF FinalAnswered, StillCurrent
  <2>3. CASE FinalApplied(f)
    BY <1>0, <2>3, KnownAhead DEF FinalApplied
  <2> QED BY <2>1, <2>2, <2>3
<1>8. \A s \in selects : Selected(s) \/ SelectedEnded(s) \/ SelectFails(s) => PanelKnown'
  <2> SUFFICES ASSUME NEW s \in selects PROVE Selected(s) \/ SelectedEnded(s) \/ SelectFails(s) => PanelKnown'
    OBVIOUS
  <2>1. CASE Selected(s)
    BY <1>0, <2>1, KnownAhead DEF Selected
  <2>2. CASE SelectedEnded(s)
    BY <1>0, <2>2, KnownAhead DEF SelectedEnded
  <2>3. CASE SelectFails(s)
    BY <1>0, <2>3, KnownAhead DEF SelectFails
  <2> QED BY <2>1, <2>2, <2>3
<1>9. \A t \in Threads : Select(t) \/ Load(t) => PanelKnown'
  BY <1>0, KnownAhead DEF Select, Load
<1>10. Stop \/ StopApplied \/ SubmitFails \/ Submit => PanelKnown'
  BY <1>0, KnownAhead DEF Stop, StopApplied, SubmitFails, SubmitRefused, Submit
<1>11. RunBusy => PanelKnown'
  BY <1>0, KnownAhead DEF RunBusy, SubmitRefused
<1>12. CASE Submitted
  BY <1>0, <1>12, KnownAhead DEF Submitted, JobsKnown
<1>13. LoseStream \/ ProbeFails \/ NewChat \/ NewChatFails => PanelKnown'
  BY <1>0, KnownAhead DEF LoseStream, ProbeFails, NewChat, NewChatFails
<1> QED BY <1>1, <1>2, <1>3, <1>4, <1>5, <1>6, <1>7, <1>8, <1>9, <1>10, <1>11, <1>12, <1>13 DEF PanelNext, Answers

LEMMA JobsKnownStep == PanelInv /\ PanelNext => JobsKnown'
<1> SUFFICES ASSUME PanelInv, PanelNext PROVE JobsKnown'
  OBVIOUS
<1> USE DEF jobs, JobsKnown, Begun
<1>0. PanelTypeOK /\ PanelKnown /\ JobsKnown /\ Ahead
  BY KnownIs, PanelAhead DEF PanelInv
<1>1. \A r \in Runs : RunStarted(r) \/ EndRun(r) => JobsKnown'
  <2> SUFFICES ASSUME NEW r \in Runs PROVE RunStarted(r) \/ EndRun(r) => JobsKnown'
    OBVIOUS
  <2>1. CASE RunStarted(r)
    <3>1. status'[r] # "none" /\ r # None
      BY <1>0, <2>1, NoneAssumption DEF RunStarted, PanelTypeOK
    <3> QED BY <1>0, <2>1, <3>1, KnownAhead DEF RunStarted
  <2>2. EndRun(r) => JobsKnown'
    BY <1>0, KnownAhead DEF EndRun
  <2> QED BY <2>1, <2>2
<1>2. CASE Stopped \/ StopAnswered
  <2>1. cancel # None /\ cancel'.run = cancel.run /\ UNCHANGED <<probe, abandon, submit, newChat>>
    BY <1>2 DEF Stopped, StopAnswered, StopOf
  <2> QED BY <1>0, <2>1, KnownAhead
<1>3. CASE StopFails
  BY <1>0, <1>3, KnownAhead DEF StopFails
<1>4. CASE AbandonRun
  BY <1>0, <1>4, KnownAhead DEF AbandonRun
<1>5. \A t \in Threads : NewChatCreated(t) => JobsKnown'
  BY <1>0, KnownAhead DEF NewChatCreated
<1>6. CASE TerminalEvent
  BY <1>0, <1>6, KnownAhead DEF TerminalEvent, StopSse
<1>7. CASE ProbeRead
  <2>1. probe'.run = probe.run
    BY <1>7 DEF ProbeRead, ProbeOf
  <2> QED BY <1>0, <1>7, <2>1, KnownAhead DEF ProbeRead
<1>8. CASE ProbeAnswered
  <2>0. probe.live \in BOOLEAN
    BY <1>0, <1>8, Holding DEF ProbeAnswered
  <2>1. probe' = None \/ probe'.run = probe.run
    BY <1>8, <2>0 DEF ProbeAnswered, ProbeOf, Final, isCurrent, Abandon
  <2>2. abandon' = abandon \/ abandon'.run = probe.run
    BY <1>8, <2>0 DEF ProbeAnswered, ProbeOf, Final, isCurrent, Abandon
  <2>3. probe # None /\ UNCHANGED <<cancel, submit, newChat>>
    BY <1>8 DEF ProbeAnswered
  <2> QED BY <1>0, <2>1, <2>2, <2>3, KnownAhead
<1>9. CASE Reconnect
  BY <1>0, <1>9, KnownAhead DEF Reconnect, Attach
<1>10. \A f \in finals : FinalRead(f) \/ FinalAnswered(f) \/ FinalApplied(f) \/ FinalFails(f) => JobsKnown'
  <2> SUFFICES ASSUME NEW f \in finals, FinalRead(f) \/ FinalAnswered(f) \/ FinalApplied(f) \/ FinalFails(f)
               PROVE  JobsKnown'
    OBVIOUS
  <2>1. FinalRead(f) \/ FinalAnswered(f) \/ FinalApplied(f) => JobsKnown'
    BY <1>0, KnownAhead DEF FinalRead, FinalAnswered, FinalApplied
  <2>2. CASE FinalFails(f)
    <3>1. f.run # None /\ f.lost \in BOOLEAN
      BY <1>0, Holding, NoneAssumption
    <3>2. abandon' = abandon \/ (abandon'.run = f.run /\ runIdRef = f.run)
      BY <2>2, <3>1 DEF FinalFails, Abandon, isCurrent
    <3>3. UNCHANGED <<probe, cancel, submit, newChat>>
      BY <2>2 DEF FinalFails
    <3> QED BY <1>0, <3>1, <3>2, <3>3, KnownAhead
  <2> QED BY <2>1, <2>2
<1>11. \A s \in selects : Selected(s) \/ SelectedEnded(s) \/ SelectFails(s) => JobsKnown'
  <2> SUFFICES ASSUME NEW s \in selects
               PROVE  Selected(s) \/ SelectedEnded(s) \/ SelectFails(s) => JobsKnown'
    OBVIOUS
  <2>1. CASE Selected(s)
    <3>1. (probe' = probe \/ probe' = None) /\ UNCHANGED <<abandon, cancel, submit, newChat>>
      BY <2>1 DEF Selected, Attach
    <3> QED BY <1>0, <3>1, KnownAhead
  <2>2. SelectedEnded(s) \/ SelectFails(s) => JobsKnown'
    BY <1>0, KnownAhead DEF SelectedEnded, SelectFails
  <2> QED BY <2>1, <2>2
<1>12. \A t \in Threads : Select(t) \/ Load(t) => JobsKnown'
  BY <1>0, KnownAhead DEF Select, Load, Leave, StopSse
<1>13. CASE Stop
  <2>1. (runIdRef # None /\ cancel'.run = runIdRef) \/ (active # None /\ cancel'.run = active.run)
    BY <1>13 DEF Stop
  <2> QED BY <1>0, <1>13, <2>1, KnownAhead DEF Stop, StopSse
<1>14. StopApplied \/ SubmitFails \/ Submitted => JobsKnown'
  BY <1>0, KnownAhead DEF StopApplied, SubmitFails, SubmitRefused, Submitted, Attach
<1>15. CASE Submit
  BY <1>0, <1>15, KnownAhead DEF Submit
<1>16. CASE RunBusy
  BY <1>0, <1>16, KnownAhead DEF RunBusy, SubmitRefused, Leave, StopSse
<1>17. CASE LoseStream
  <2>1. probe' = probe \/ probe'.run = sub
    BY <1>17 DEF LoseStream, ProbeOf
  <2> QED BY <1>0, <1>17, <2>1, KnownAhead DEF LoseStream
<1>18. CASE ProbeFails
  <2>1. abandon'.run = probe.run
    BY <1>18 DEF ProbeFails, Abandon
  <2> QED BY <1>0, <1>18, <2>1, KnownAhead DEF ProbeFails
<1>19. CASE NewChat
  <2>1. \/ newChat'.stop = None \/ (runIdRef # None /\ newChat'.stop = runIdRef)
        \/ (active # None /\ newChat'.stop = active.run)
    BY <1>19 DEF NewChat, ShowsLive
  <2> QED BY <1>0, <1>19, <2>1, KnownAhead DEF NewChat, StopSse
<1>20. NewChatFails => JobsKnown'
  BY <1>0, KnownAhead DEF NewChatFails
<1> QED BY <1>1, <1>2, <1>3, <1>4, <1>5, <1>6, <1>7, <1>8, <1>9, <1>10, <1>11, <1>12, <1>13, <1>14, <1>15,
           <1>16, <1>17, <1>18, <1>19, <1>20 DEF PanelNext, Answers

\* What was read with a thread's messages was true, and stays so.
LEMMA OpeningIsRight ==
    ASSUME PanelTypeOK, Known, NEW t \in Threads
    PROVE  LET l == Opening(t).latest IN
           /\ Opening(t).step = "refresh"
           /\ l # None => l.run \in Runs /\ Begun(l.run)
           /\ l # None /\ ~ l.live => Gone(l.run)
<1> DEFINE l == LatestOf(t)
<1>1. Opening(t).latest = l /\ Opening(t).step = "refresh"
  BY DEF Opening
<1>2. l # None => l.run \in Runs /\ home[l.run] = t /\ (l.live <=> status[l.run] = "live")
  BY LatestIs
<1> HIDE DEF l
<1>3. l # None => Begun(l.run)
  BY <1>2, NoneAssumption DEF Known
<1>4. l # None /\ ~ l.live => Gone(l.run)
  BY <1>2, <1>3 DEF PanelTypeOK, Gone, Begun
<1> QED BY <1>1, <1>2, <1>3, <1>4

LEMMA OpenedStep == PanelInv /\ PanelNext => Opened'
<1> SUFFICES ASSUME PanelInv, PanelNext PROVE Opened'
  OBVIOUS
<1>0. PanelTypeOK /\ Opened /\ Known /\ Ahead
  BY PanelAhead DEF PanelInv
<1>1. \A s \in selects :
         /\ s.latest # None => status'[s.latest.run] # "none"
         /\ s.latest # None /\ ~ s.latest.live => status'[s.latest.run] = "ended"
         /\ s.step = "snapshot" => s.latest # None /\ ~ s.latest.live
  <2>1. \A r \in Runs : status[r] = "ended" => status'[r] = "ended"
    BY <1>0 DEF Ahead, Gone
  <2> QED BY <1>0, <2>1, KnownAhead, Holding DEF Opened, Gone
<1>2. selects' \subseteq selects => Opened'
  BY <1>1 DEF Opened, Begun, Gone
<1>3. ASSUME NEW t \in Threads, UNCHANGED server,
             selects' \subseteq selects \cup {Opening(t)}
      PROVE  Opened'
  <2> DEFINE o == Opening(t)
  <2>1. /\ o.latest # None => status'[o.latest.run] # "none"
        /\ o.latest # None /\ ~ o.latest.live => status'[o.latest.run] = "ended"
        /\ o.step # "snapshot"
    BY <1>0, <1>3, OpeningIsRight DEF Begun, Gone, server
  <2>2. \A s \in selects' : s \in selects \/ s = o
    BY <1>3
  <2> HIDE DEF o
  <2> QED BY <1>1, <2>1, <2>2 DEF Opened, Begun, Gone
<1>4. \A t \in Threads : Select(t) => Opened'
  BY <1>3 DEF Select
<1>5. \A t \in Threads : Load(t) => Opened'
  BY <1>3 DEF Load
<1>6. CASE RunBusy
  <2>1. \A r \in Live : home[r] \in Threads
    BY <1>0, HomeOf DEF Live, Begun
  <2> QED BY <1>2, <1>3, <1>6, <2>1 DEF RunBusy, SubmitRefused
<1>7. ASSUME NEW s \in selects, Selected(s) PROVE Opened'
  <2> DEFINE o == [thread |-> s.thread, step |-> "snapshot", latest |-> s.latest]
  <2>1. \A x \in selects' : x \in selects \/ (x = o /\ s.latest # None /\ ~ s.latest.live)
    BY <1>0, <1>7, Holding DEF Selected
  <2>2. o.latest = s.latest
    OBVIOUS
  <2> HIDE DEF o
  <2> QED BY <1>1, <2>1, <2>2 DEF Opened, Begun, Gone
<1>8. \A s \in selects : SelectedEnded(s) \/ SelectFails(s) => Opened'
  BY <1>2 DEF SelectedEnded, SelectFails
<1>9. \A r \in Runs : RunStarted(r) \/ EndRun(r) => Opened'
  BY <1>2 DEF RunStarted, EndRun, jobs
<1>10. StopAnswered \/ Stopped \/ StopFails \/ AbandonRun => Opened'
  BY <1>2 DEF StopAnswered, Stopped, StopFails, AbandonRun
<1>11. \A t \in Threads : NewChatCreated(t) => Opened'
  BY <1>2 DEF NewChatCreated
<1>12. TerminalEvent \/ ProbeRead \/ ProbeAnswered \/ Reconnect => Opened'
  BY <1>2 DEF TerminalEvent, ProbeRead, ProbeAnswered, Reconnect
<1>13. \A f \in finals : FinalRead(f) \/ FinalAnswered(f) \/ FinalApplied(f) \/ FinalFails(f) => Opened'
  BY <1>2 DEF FinalRead, FinalAnswered, FinalApplied, FinalFails
<1>14. Stop \/ StopApplied \/ Submitted \/ SubmitFails \/ Submit => Opened'
  BY <1>2 DEF Stop, StopApplied, Submitted, SubmitFails, SubmitRefused, Submit
<1>15. LoseStream \/ ProbeFails \/ NewChat \/ NewChatFails => Opened'
  BY <1>2 DEF LoseStream, ProbeFails, NewChat, NewChatFails
<1> QED BY <1>4, <1>5, <1>6, <1>7, <1>8, <1>9, <1>10, <1>11, <1>12, <1>13, <1>14, <1>15 DEF PanelNext, Answers

LEMMA FollowingStep == PanelInv /\ PanelNext => Following'
<1> SUFFICES ASSUME PanelInv, PanelNext PROVE Following'
  OBVIOUS
<1> USE DEF panel, jobs, ApplyTerminal, Attach, StopSse, Leave, Following
<1>0. PanelTypeOK /\ Following
  BY DEF PanelInv
<1>a. attempts \in Int /\ Retries \in Nat
  BY <1>0, PanelBoundsAssumption DEF PanelTypeOK
<1>1. \A r \in Runs : RunStarted(r) \/ EndRun(r) => Following'
  BY <1>0 DEF RunStarted, EndRun
<1>2. StopAnswered \/ Stopped => Following'
  BY <1>0 DEF StopAnswered, Stopped
<1>3. StopFails => Following'
  BY <1>0 DEF StopFails
<1>4. AbandonRun => Following'
  BY <1>0, <1>a DEF AbandonRun
<1>5. \A t \in Threads : NewChatCreated(t) => Following'
  BY <1>0, <1>a DEF NewChatCreated
<1>6. TerminalEvent \/ ProbeRead => Following'
  BY <1>0 DEF TerminalEvent, ProbeRead
<1>7. CASE ProbeAnswered
  <2>1. probe.live \in BOOLEAN
    BY <1>0, <1>7, Holding DEF ProbeAnswered
  <2> QED BY <1>0, <1>a, <1>7, <2>1 DEF ProbeAnswered, Final, ProbeOf, Abandon, isCurrent
<1>8. Reconnect => Following'
  BY <1>0 DEF Reconnect
<1>9. \A f \in finals : FinalRead(f) \/ FinalAnswered(f) \/ FinalFails(f) => Following'
  BY <1>0 DEF FinalRead, FinalAnswered, FinalFails
<1>10. \A f \in finals : FinalApplied(f) => Following'
  BY <1>0, <1>a DEF FinalApplied
<1>11. \A s \in selects : Selected(s) => Following'
  BY <1>0, <1>a DEF Selected
<1>12. \A s \in selects : SelectedEnded(s) \/ SelectFails(s) => Following'
  BY <1>0, <1>a DEF SelectedEnded, SelectFails
<1>13. \A t \in Threads : Select(t) \/ Load(t) => Following'
  BY <1>0, <1>a DEF Select, Load
<1>14. Stop \/ StopApplied \/ SubmitFails \/ Submit => Following'
  BY <1>0, <1>a DEF Stop, StopApplied, SubmitFails, SubmitRefused, Submit
<1>15. RunBusy \/ Submitted => Following'
  <2>1. RunBusy => Following'
    BY <1>0, <1>a DEF RunBusy, SubmitRefused
  <2>2. Submitted => Following'
    BY <1>a DEF Submitted
  <2> QED BY <2>1, <2>2
<1>16. LoseStream \/ ProbeFails \/ NewChat \/ NewChatFails => Following'
  BY <1>0, <1>a DEF LoseStream, ProbeFails, NewChat, NewChatFails
<1> QED BY <1>1, <1>2, <1>3, <1>4, <1>5, <1>6, <1>7, <1>8, <1>9, <1>10, <1>11, <1>12, <1>13, <1>14, <1>15,
           <1>16 DEF PanelNext, Answers

-----------------------------------------------------------------------------
(* What is shown as ended.                                                 *)

\* No step makes a probe of an ended run stale that was not.
LEMMA StaleStays ==
    ASSUME PanelInv, PanelNext, NEW r \in Runs, Gone(r), StaleProbe(r)'
    PROVE  StaleProbe(r)
<1> USE DEF panel, jobs, Attach, StopSse, Leave, StaleProbe
<1>0. PanelTypeOK
  BY DEF PanelInv
<1>n. probe' # None
  OBVIOUS
<1>1. probe' = probe => StaleProbe(r)
  OBVIOUS
<1>2. CASE ProbeRead
  <2>1. /\ probe'.run = probe.run /\ probe'.step = "got"
        /\ probe'.live = (probe.run \in Live)
    BY <1>2 DEF ProbeRead, ProbeOf
  <2>2. probe.run \notin Live
    BY <1>2, <2>1 DEF Gone, Live
  <2> QED BY <2>1, <2>2
<1>3. CASE ProbeAnswered
  <2>1. probe.live \in BOOLEAN
    BY <1>0, <1>3, Holding DEF ProbeAnswered
  <2> QED BY <1>3, <2>1, <1>n DEF ProbeAnswered, Final, ProbeOf, Abandon, isCurrent
<1>4. CASE LoseStream
  <2>1. probe' = probe \/ probe'.step = "get"
    BY <1>4 DEF LoseStream, ProbeOf
  <2> QED BY <1>1, <2>1
<1>5. StopAnswered \/ Stopped \/ StopFails \/ AbandonRun => StaleProbe(r)
  BY <1>1 DEF StopAnswered, Stopped, StopFails, AbandonRun
<1>6. \A t \in Threads : NewChatCreated(t) \/ Select(t) \/ Load(t) => StaleProbe(r)
  BY <1>1, <1>n DEF NewChatCreated, Select, Load
<1>7. TerminalEvent \/ Reconnect => StaleProbe(r)
  BY <1>1, <1>n DEF TerminalEvent, Reconnect
<1>8. \A f \in finals : FinalRead(f) \/ FinalAnswered(f) \/ FinalApplied(f) \/ FinalFails(f) => StaleProbe(r)
  BY <1>1 DEF FinalRead, FinalAnswered, FinalApplied, FinalFails
<1>9. \A s \in selects : Selected(s) \/ SelectedEnded(s) \/ SelectFails(s) => StaleProbe(r)
  BY <1>1, <1>n DEF Selected, SelectedEnded, SelectFails
<1>10. \A x \in Runs : RunStarted(x) \/ EndRun(x) => StaleProbe(r)
  BY <1>1 DEF RunStarted, EndRun
<1>11. Stop \/ StopApplied \/ RunBusy \/ Submitted \/ SubmitFails \/ Submit => StaleProbe(r)
  BY <1>1, <1>n DEF Stop, StopApplied, RunBusy, Submitted, SubmitFails, SubmitRefused, Submit
<1>12. ProbeFails \/ NewChat \/ NewChatFails => StaleProbe(r)
  BY <1>1, <1>n DEF ProbeFails, NewChat, NewChatFails
<1> QED BY <1>2, <1>3, <1>4, <1>5, <1>6, <1>7, <1>8, <1>9, <1>10, <1>11, <1>12 DEF PanelNext, Answers

LEMMA ProbeTrueStep == PanelInv /\ PanelNext => ProbeTrue'
<1> SUFFICES ASSUME PanelInv, PanelNext, probe' # None, probe'.step = "got", ~ probe'.live
             PROVE  Gone(probe.run)'
  BY DEF ProbeTrue
<1> USE DEF panel, jobs, Attach, StopSse, Leave
<1>0. PanelTypeOK /\ Known /\ ProbeTrue /\ Ahead
  BY PanelAhead DEF PanelInv, Truth
<1>1. probe' = probe => Gone(probe.run)'
  BY <1>0, Holding DEF ProbeTrue, Ahead, Gone
<1>2. CASE ProbeRead
  <2>1. /\ probe'.run = probe.run /\ probe'.step = "got"
        /\ probe'.live = (probe.run \in Live)
    BY <1>2 DEF ProbeRead, ProbeOf
  <2>2. probe.run \in Runs /\ Begun(probe.run)
    BY <1>0, <1>2, Holding DEF ProbeRead, Known
  <2>3. Gone(probe.run)
    BY <1>0, <2>1, <2>2 DEF Gone, Begun, Live, PanelTypeOK
  <2> QED BY <1>0, <2>1, <2>2, <2>3 DEF Ahead, Gone
<1>3. CASE ProbeAnswered
  <2>1. probe.live \in BOOLEAN
    BY <1>0, <1>3, Holding DEF ProbeAnswered
  <2>2. probe' = None \/ probe'.step = "timer"
    BY <1>3, <2>1 DEF ProbeAnswered, Final, ProbeOf, Abandon, isCurrent
  <2> QED BY <2>2
<1>4. CASE LoseStream
  <2>1. probe' = probe \/ probe'.step = "get"
    BY <1>4 DEF LoseStream, ProbeOf
  <2> QED BY <1>1, <2>1
<1> DEFINE Right == Gone(probe.run)'
<1> HIDE DEF Right
<1>a. probe' = probe \/ probe' = None => Right
  BY <1>1 DEF Right
<1>5. StopAnswered \/ Stopped \/ StopFails \/ AbandonRun => Right
  BY <1>a DEF StopAnswered, Stopped, StopFails, AbandonRun
<1>6. \A t \in Threads : NewChatCreated(t) \/ Select(t) \/ Load(t) => Right
  BY <1>a DEF NewChatCreated, Select, Load
<1>7. TerminalEvent \/ Reconnect => Right
  BY <1>a DEF TerminalEvent, Reconnect
<1>8. \A f \in finals : FinalRead(f) \/ FinalAnswered(f) \/ FinalApplied(f) \/ FinalFails(f) => Right
  BY <1>a DEF FinalRead, FinalAnswered, FinalApplied, FinalFails
<1>9. \A s \in selects : Selected(s) \/ SelectedEnded(s) \/ SelectFails(s) => Right
  BY <1>a DEF Selected, SelectedEnded, SelectFails
<1>10. \A x \in Runs : RunStarted(x) \/ EndRun(x) => Right
  BY <1>a DEF RunStarted, EndRun
<1>11. Stop \/ StopApplied \/ RunBusy \/ Submitted \/ SubmitFails \/ Submit => Right
  BY <1>a DEF Stop, StopApplied, RunBusy, Submitted, SubmitFails, SubmitRefused, Submit
<1>12. ProbeFails \/ NewChat \/ NewChatFails => Right
  BY <1>a DEF ProbeFails, NewChat, NewChatFails
<1> QED BY <1>2, <1>3, <1>4, <1>5, <1>6, <1>7, <1>8, <1>9, <1>10, <1>11, <1>12 DEF PanelNext, Answers, Right

LEMMA FinalsStep == PanelInv /\ PanelNext => FinalsTrue'
<1> SUFFICES ASSUME PanelInv, PanelNext, ~ severed'
             PROVE  \A f \in finals' : (Gone(f.run) /\ (f.step # "get" => ~ f.live) /\ ~ StaleProbe(f.run))'
  BY DEF FinalsTrue
<1>0. PanelTypeOK /\ Known /\ FinalsTrue /\ ProbeTrue /\ Ahead
  BY PanelAhead DEF PanelInv, Truth
<1>1. ~ severed
  BY <1>0 DEF Ahead
<1> DEFINE StaleNext(r) ==
             /\ probe' # None /\ probe'.run = r
             /\ probe'.step = "timer" \/ (probe'.step = "got" /\ probe'.live)
           Kept(f) == status'[f.run] = "ended" /\ (f.step # "get" => ~ f.live) /\ ~ StaleNext(f.run)
<1>2. \A f \in finals : f.run \in Runs /\ Gone(f.run) /\ (f.step # "get" => ~ f.live) /\ ~ StaleProbe(f.run)
  BY <1>0, <1>1, Holding DEF FinalsTrue
<1>3. \A r \in Runs : Gone(r) /\ ~ StaleProbe(r) => status'[r] = "ended" /\ ~ StaleNext(r)
  BY <1>0, StaleStays DEF Ahead, Gone, StaleProbe
<1> HIDE DEF StaleNext
<1>4. \A f \in finals : Kept(f)
  BY <1>2, <1>3
<1>5. ASSUME NEW f, f.run \in Runs, Gone(f.run), probe' = None, f.step = "get" PROVE Kept(f)
  BY <1>0, <1>5 DEF StaleNext, Ahead, Gone
<1> HIDE DEF Kept
<1>6. finals' \subseteq finals => \A f \in finals' : Kept(f)
  BY <1>4
<1>7. ASSUME TerminalEvent PROVE \A f \in finals' : Kept(f)
  <2>1. sub \in Runs /\ Gone(sub) /\ probe' = None
    BY <1>0, <1>7 DEF TerminalEvent, PanelTypeOK, Opt, Gone, StopSse
  <2> DEFINE new == Final(sub, home[sub], FALSE)
  <2>2. new.run = sub /\ new.step = "get"
    BY DEF Final
  <2>3. finals' = finals \cup {new}
    BY <1>7 DEF TerminalEvent
  <2> HIDE DEF new
  <2>4. Kept(new)
    BY <1>5, <2>1, <2>2
  <2> QED BY <1>4, <2>3, <2>4
<1>8. ASSUME ProbeAnswered PROVE \A f \in finals' : Kept(f)
  <2>1. probe.run \in Runs /\ probe.live \in BOOLEAN /\ probe # None /\ probe.step = "got"
    BY <1>0, <1>8, Holding DEF ProbeAnswered
  <2>2. CASE probe.live
    BY <1>6, <1>8, <2>1, <2>2 DEF ProbeAnswered
  <2>3. CASE ~ probe.live
    <3>1. Gone(probe.run)
      BY <1>0, <2>1, <2>3 DEF ProbeTrue
    <3> DEFINE new == Final(probe.run, home[probe.run], TRUE)
    <3>2. probe' = None /\ finals' = finals \cup {new}
      BY <1>8, <2>1, <2>3 DEF ProbeAnswered
    <3>3. new.run = probe.run /\ new.step = "get"
      BY DEF Final
    <3> HIDE DEF new
    <3>4. Kept(new)
      BY <1>5, <2>1, <3>1, <3>2, <3>3
    <3> QED BY <1>4, <3>2, <3>4
  <2> QED BY <2>1, <2>2, <2>3
<1>9. ASSUME NEW f \in finals, FinalRead(f) PROVE \A g \in finals' : Kept(g)
  <2> DEFINE new == FinalAt(f, "got", f.run \in Live)
  <2>1. finals' \subseteq finals \cup {new}
    BY <1>9 DEF FinalRead
  <2>2. new.run = f.run /\ new.live = (f.run \in Live)
    BY DEF FinalAt
  <2> HIDE DEF new
  <2>3. f.run \notin Live
    BY <1>2 DEF Gone, Live
  <2>4. Kept(new)
    BY <1>2, <1>3, <2>2, <2>3 DEF Kept
  <2> QED BY <1>4, <2>1, <2>4
<1>10. ASSUME NEW f \in finals, FinalAnswered(f) PROVE \A g \in finals' : Kept(g)
  <2> DEFINE new == FinalAt(f, "refresh", f.live)
  <2>1. (\A g \in finals' : g \in finals \/ g = new) /\ f.step = "got"
    BY <1>10 DEF FinalAnswered
  <2>2. new.run = f.run /\ new.live = f.live
    BY DEF FinalAt
  <2> HIDE DEF new
  <2>3. Kept(new)
    BY <1>2, <1>3, <2>1, <2>2 DEF Kept
  <2> QED BY <1>4, <2>1, <2>3
<1>11. \A f \in finals : FinalApplied(f) \/ FinalFails(f) => \A g \in finals' : Kept(g)
  BY <1>6 DEF FinalApplied, FinalFails
<1>12. StopFails => FALSE
  BY DEF StopFails
<1>13. StopAnswered \/ Stopped \/ AbandonRun \/ ProbeRead \/ Reconnect => \A f \in finals' : Kept(f)
  BY <1>6 DEF StopAnswered, Stopped, AbandonRun, ProbeRead, Reconnect
<1>14. \A t \in Threads : NewChatCreated(t) \/ Select(t) \/ Load(t) => \A f \in finals' : Kept(f)
  BY <1>6 DEF NewChatCreated, Select, Load
<1>15. \A s \in selects : Selected(s) \/ SelectedEnded(s) \/ SelectFails(s) => \A f \in finals' : Kept(f)
  BY <1>6 DEF Selected, SelectedEnded, SelectFails
<1>16. \A x \in Runs : RunStarted(x) \/ EndRun(x) => \A f \in finals' : Kept(f)
  BY <1>6 DEF RunStarted, EndRun, jobs
<1>17. Stop \/ StopApplied \/ RunBusy \/ Submitted \/ SubmitFails \/ Submit => \A f \in finals' : Kept(f)
  BY <1>6 DEF Stop, StopApplied, RunBusy, Submitted, SubmitFails, Submit
<1>18. LoseStream \/ ProbeFails \/ NewChat \/ NewChatFails => \A f \in finals' : Kept(f)
  BY <1>6 DEF LoseStream, ProbeFails, NewChat, NewChatFails
<1>19. \A f \in finals' : Kept(f)
  BY <1>7, <1>8, <1>9, <1>10, <1>11, <1>12, <1>13, <1>14, <1>15, <1>16, <1>17, <1>18 DEF PanelNext, Answers
<1> QED BY <1>19 DEF Kept, StaleNext, StaleProbe, Gone

LEMMA StoppingStep == PanelInv /\ PanelNext => Stopping'
<1> SUFFICES ASSUME PanelInv, PanelNext PROVE Stopping'
  OBVIOUS
<1> USE DEF panel, jobs, Attach, StopSse, Leave, Stopping
<1>0. PanelTypeOK /\ Stopping /\ (Excused => Excused')
  BY PanelAhead DEF PanelInv, Truth, Ahead
<1>1. cancel' = cancel /\ (sub' = sub \/ sub' = None) /\ (probe' = probe \/ probe' = None) => Stopping'
  BY <1>0
<1>2. cancel' = None => Stopping'
  OBVIOUS
<1>3. cancel' = cancel /\ (Excused \/ probe # None \/ sub # None) => Stopping'
  BY <1>0
<1>4. CASE Stop
  BY <1>4 DEF Stop
<1>5. CASE Stopped \/ StopAnswered
  <2>1. sub' = sub /\ probe' = probe /\ cancel # None
    BY <1>5 DEF Stopped, StopAnswered
  <2> QED BY <1>0, <2>1
<1>6. StopApplied \/ StopFails => Stopping'
  BY <1>2 DEF StopApplied, StopFails
<1>7. ProbeRead \/ Reconnect \/ LoseStream => Stopping'
  BY <1>3 DEF ProbeRead, Reconnect, LoseStream
<1>8. CASE ProbeAnswered
  BY <1>3, <1>8 DEF ProbeAnswered
<1>9. ASSUME NEW s \in selects, Selected(s) PROVE Stopping'
  <2>1. s.latest # None => s.latest.live \in BOOLEAN
    BY <1>0, Holding
  <2>2. CASE s.latest # None /\ s.latest.live
    <3>1. cancel # None => crossed' = TRUE
      BY <1>0, <1>9, <2>2 DEF Selected, Cross
    <3>2. cancel' = cancel
      BY <1>9 DEF Selected
    <3> QED BY <3>1, <3>2 DEF Excused
  <2>3. CASE ~ (s.latest # None /\ s.latest.live)
    BY <1>1, <1>9, <2>1, <2>3 DEF Selected
  <2> QED BY <2>1, <2>2, <2>3
<1>10. CASE Submitted
  <2>1. cancel' = cancel /\ (cancel # None => crossed')
    BY <1>10 DEF Submitted, Cross
  <2> QED BY <2>1 DEF Excused
<1>11. \A s \in selects : SelectedEnded(s) \/ SelectFails(s) => Stopping'
  BY <1>1 DEF SelectedEnded, SelectFails
<1>12. \A t \in Threads : NewChatCreated(t) \/ Select(t) => Stopping'
  BY <1>1 DEF NewChatCreated, Select
<1>13. \A t \in Threads : Load(t) => Stopping'
  BY <1>1 DEF Load
<1>14. \A f \in finals : FinalRead(f) \/ FinalAnswered(f) \/ FinalApplied(f) \/ FinalFails(f) => Stopping'
  BY <1>1 DEF FinalRead, FinalAnswered, FinalApplied, FinalFails
<1>15. \A x \in Runs : RunStarted(x) \/ EndRun(x) => Stopping'
  BY <1>1 DEF RunStarted, EndRun
<1>16. RunBusy \/ SubmitFails \/ Submit \/ TerminalEvent \/ AbandonRun => Stopping'
  BY <1>1 DEF RunBusy, SubmitFails, SubmitRefused, Submit, TerminalEvent, AbandonRun
<1>17. ProbeFails \/ NewChat \/ NewChatFails => Stopping'
  BY <1>1 DEF ProbeFails, NewChat, NewChatFails
<1> QED BY <1>4, <1>5, <1>6, <1>7, <1>8, <1>9, <1>10, <1>11, <1>12, <1>13, <1>14, <1>15, <1>16, <1>17
        DEF PanelNext, Answers

\* Nothing but Attach sets runIdRef to a run, and then the run is shown as live.
LEMMA ShownSame ==
    ASSUME PanelInv, PanelNext, active' = active, runIdRef' = runIdRef \/ runIdRef' = None
    PROVE  ShownTrue'
<1>0. PanelTypeOK /\ ShownTrue /\ Ahead
  BY PanelAhead DEF PanelInv, Truth
<1> SUFFICES ASSUME ~ Excused', active # None, ~ active.live
             PROVE  status'[active.run] = "ended" /\ ~ (StaleProbe(active.run)' /\ runIdRef' = active.run)
  BY <1>0 DEF ShownTrue, Gone
<1>1. active.run \in Runs /\ active.run # None
  BY <1>0, Holding, NoneAssumption
<1>2. Gone(active.run) /\ ~ (StaleProbe(active.run) /\ runIdRef = active.run)
  BY <1>0 DEF ShownTrue, Ahead
<1>3. \A r \in Runs : Gone(r) /\ ~ StaleProbe(r) => ~ StaleProbe(r)'
  BY StaleStays
<1>4. \A r \in Runs : Gone(r) => status'[r] = "ended"
  BY <1>0 DEF Ahead, Gone
<1> DEFINE x == active.run
           StaleNext(r) == /\ probe' # None /\ probe'.run = r
                           /\ probe'.step = "timer" \/ (probe'.step = "got" /\ probe'.live)
<1>5. \A r \in Runs : Gone(r) /\ ~ StaleProbe(r) => ~ StaleNext(r)
  BY <1>3 DEF StaleProbe
<1>6. StaleProbe(active.run)' => StaleNext(x)
  BY DEF StaleProbe
<1> HIDE DEF StaleNext, x
<1>7. runIdRef' = x => runIdRef = x
  BY <1>1 DEF x
<1> QED BY <1>1, <1>2, <1>4, <1>5, <1>6, <1>7 DEF x

\* A panel that shows nothing, or a live run, shows no ended run.
LEMMA ShownStep == PanelInv /\ PanelNext => ShownTrue'
<1> SUFFICES ASSUME PanelInv, PanelNext PROVE ShownTrue'
  OBVIOUS
<1> USE DEF panel, ApplyTerminal, Attach, StopSse, Leave
<1>0. PanelTypeOK /\ ShownTrue /\ ProbeTrue /\ FinalsTrue /\ Stopping /\ Heard /\ Opened /\ Ahead
  BY PanelAhead DEF PanelInv, Truth
<1>1. active' = active /\ (runIdRef' = runIdRef \/ runIdRef' = None) => ShownTrue'
  BY ShownSame
<1>2. active' = None => ShownTrue'
  BY DEF ShownTrue
<1>3. active'.live => ShownTrue'
  BY DEF ShownTrue
<1>4. CASE ProbeAnswered
  <2>1. probe.run \in Runs /\ probe.live \in BOOLEAN /\ probe # None /\ probe.step = "got"
    BY <1>0, <1>4, Holding DEF ProbeAnswered
  <2>2. active'.run = probe.run /\ active'.live = probe.live
    BY <1>4 DEF ProbeAnswered
  <2>3. CASE probe.live
    BY <1>3, <2>2, <2>3
  <2>4. CASE ~ probe.live
    <3>1. probe' = None
      BY <1>4, <2>4 DEF ProbeAnswered, Final
    <3>2. status'[probe.run] = "ended"
      BY <1>0, <2>1, <2>4 DEF ProbeTrue, Ahead, Gone
    <3> QED BY <2>2, <3>1, <3>2 DEF ShownTrue, StaleProbe, Gone
  <2> QED BY <2>1, <2>3, <2>4
<1>5. CASE Reconnect
  BY <1>3, <1>5 DEF Reconnect
<1>6. CASE AbandonRun
  BY <1>1, <1>2, <1>6 DEF AbandonRun
<1>7. ASSUME NEW f \in finals, FinalAnswered(f) PROVE ShownTrue'
  <2>1. CASE severed
    BY <1>0, <2>1 DEF Ahead, ShownTrue, Excused
  <2>2. CASE ~ severed
    <3>1. f.run \in Runs /\ f.live \in BOOLEAN /\ Gone(f.run) /\ ~ StaleProbe(f.run)
      BY <1>0, <2>2, Holding DEF FinalsTrue
    <3>2. probe' = probe /\ status' = status
      BY <1>7 DEF FinalAnswered, server
    <3>3. CASE StillCurrent(f)
      <4>1. active'.run = f.run
        BY <1>7, <3>3 DEF FinalAnswered
      <4> QED BY <3>1, <3>2, <4>1 DEF ShownTrue, StaleProbe, Gone
    <3>4. CASE ~ StillCurrent(f)
      BY <1>1, <1>7, <3>4 DEF FinalAnswered
    <3> QED BY <3>3, <3>4
  <2> QED BY <2>1, <2>2
<1>8. \A f \in finals : FinalRead(f) \/ FinalApplied(f) \/ FinalFails(f) => ShownTrue'
  BY <1>1 DEF FinalRead, FinalApplied, FinalFails
<1>9. CASE Stopped
  <2>1. /\ cancel # None /\ cancel.run \in Runs
        /\ active'.run = cancel.run /\ active'.live = cancel.live /\ status' = status
        /\ probe' = probe
    BY <1>0, <1>9, Holding DEF Stopped, server
  <2>2. ~ active'.live => status'[cancel.run] = "ended"
    BY <1>0, <2>1 DEF Heard, Gone
  <2>3. ~ Excused' => probe' = None
    BY <1>0, <2>1 DEF Stopping, Ahead
  <2> QED BY <2>1, <2>2, <2>3 DEF ShownTrue, StaleProbe, Gone
<1>10. ASSUME NEW s \in selects, Selected(s) PROVE ShownTrue'
  <2>1. s.latest # None => s.latest.live \in BOOLEAN
    BY <1>0, Holding
  <2>2. CASE s.latest # None /\ s.latest.live
    BY <1>3, <1>10, <2>2 DEF Selected
  <2>3. CASE ~ (s.latest # None /\ s.latest.live)
    BY <1>1, <1>10, <2>1, <2>3 DEF Selected
  <2> QED BY <2>2, <2>3
<1>11. ASSUME NEW s \in selects, SelectedEnded(s) PROVE ShownTrue'
  <2>1. active' = s.latest /\ runIdRef' = None /\ status' = status
    BY <1>11 DEF SelectedEnded, server
  <2>2. s.latest # None /\ s.latest.run \in Runs /\ Gone(s.latest.run)
    BY <1>0, <1>11, Holding DEF SelectedEnded, Opened
  <2>3. s.latest.run # None
    BY <2>2, NoneAssumption
  <2> QED BY <2>1, <2>2, <2>3 DEF ShownTrue, Gone
<1>12. CASE Submitted
  BY <1>3, <1>12 DEF Submitted
<1>13. \A s \in selects : SelectFails(s) => ShownTrue'
  BY <1>1 DEF SelectFails
<1>14. \A t \in Threads : NewChatCreated(t) \/ Select(t) \/ Load(t) => ShownTrue'
  BY <1>2 DEF NewChatCreated, Select, Load
<1>15. \A x \in Runs : RunStarted(x) \/ EndRun(x) => ShownTrue'
  BY <1>1 DEF RunStarted, EndRun
<1>16. TerminalEvent \/ ProbeRead \/ LoseStream \/ ProbeFails => ShownTrue'
  BY <1>1 DEF TerminalEvent, ProbeRead, LoseStream, ProbeFails
<1>17. RunBusy \/ SubmitFails \/ Submit => ShownTrue'
  BY <1>1, <1>2 DEF RunBusy, SubmitFails, SubmitRefused, Submit
<1>18. Stop \/ StopAnswered \/ StopApplied \/ StopFails \/ NewChat \/ NewChatFails => ShownTrue'
  BY <1>1 DEF Stop, StopAnswered, StopApplied, StopFails, NewChat, NewChatFails
<1> QED BY <1>4, <1>5, <1>6, <1>7, <1>8, <1>9, <1>10, <1>11, <1>12, <1>13, <1>14, <1>15, <1>16, <1>17, <1>18
        DEF PanelNext, Answers

LEMMA HeardStep == PanelInv /\ PanelNext => Heard'
<1> SUFFICES ASSUME PanelInv, PanelNext, cancel' # None, ~ cancel'.live
             PROVE  status'[cancel'.run] = "ended"
  BY DEF Heard, Gone
<1> USE DEF jobs
<1>0. PanelTypeOK /\ Known /\ Heard /\ Ahead
  BY PanelAhead DEF PanelInv, Truth
<1> DEFINE Right == status'[cancel'.run] = "ended"
<1>1. cancel # None /\ cancel'.run = cancel.run /\ cancel'.live = cancel.live => Right
  BY <1>0, Holding DEF Heard, Ahead, Gone
<1> HIDE DEF Right
<1>2. cancel' = cancel => Right
  BY <1>1
<1>3. CASE StopAnswered
  <2> DEFINE live == status'[cancel.run] = "live"
  <2>1. cancel' = StopOf(cancel.run, "got", live)
    BY <1>3 DEF StopAnswered
  <2>2. cancel'.run = cancel.run /\ cancel'.live = live
    BY <2>1 DEF StopOf
  <2>3. cancel'.run = cancel.run /\ status'[cancel.run] # "live"
    BY <2>2
  <2> HIDE DEF live
  <2>4. cancel.run \in Runs /\ status'[cancel.run] # "none"
    BY <1>0, <1>3, Holding DEF StopAnswered, Known, Ahead, Begun
  <2>5. status' \in [Runs -> {"none", "live", "ended"}]
    BY ServerStep DEF ServerTypes
  <2>6. status'[cancel.run] = "ended"
    BY <2>3, <2>4, <2>5
  <2> QED BY <2>3, <2>6 DEF Right
<1>4. CASE Stopped
  <2>1. cancel # None /\ cancel'.run = cancel.run /\ cancel'.live = cancel.live
    BY <1>4 DEF Stopped, StopOf
  <2> QED BY <1>1, <2>1 DEF Right
<1>5. Stop \/ StopApplied \/ StopFails => Right
  <2>1. Stop => cancel'.live
    BY DEF Stop
  <2>2. StopApplied \/ StopFails => cancel' = None
    BY DEF StopApplied, StopFails
  <2> QED BY <2>1, <2>2
<1>6. \A x \in Runs : RunStarted(x) \/ EndRun(x) => Right
  BY <1>2 DEF RunStarted, EndRun
<1>7. \A t \in Threads : NewChatCreated(t) \/ Select(t) \/ Load(t) => Right
  BY <1>2 DEF NewChatCreated, Select, Load
<1>8. \A f \in finals : FinalRead(f) \/ FinalAnswered(f) \/ FinalApplied(f) \/ FinalFails(f) => Right
  BY <1>2 DEF FinalRead, FinalAnswered, FinalApplied, FinalFails
<1>9. \A s \in selects : Selected(s) \/ SelectedEnded(s) \/ SelectFails(s) => Right
  BY <1>2 DEF Selected, SelectedEnded, SelectFails
<1>10. TerminalEvent \/ ProbeRead \/ ProbeAnswered \/ Reconnect \/ AbandonRun => Right
  BY <1>2 DEF TerminalEvent, ProbeRead, ProbeAnswered, Reconnect, AbandonRun
<1>11. RunBusy \/ Submitted \/ SubmitFails \/ Submit => Right
  BY <1>2 DEF RunBusy, Submitted, SubmitFails, Submit
<1>12. LoseStream \/ ProbeFails \/ NewChat \/ NewChatFails => Right
  BY <1>2 DEF LoseStream, ProbeFails, NewChat, NewChatFails
<1> QED BY <1>3, <1>4, <1>5, <1>6, <1>7, <1>8, <1>9, <1>10, <1>11, <1>12 DEF PanelNext, Answers, Right

\* A Stop answered with a live run closed the stream and dropped the probe of
\* that run, and whatever read it as ended would have begun before the answer.
LEMMA LateLiveStep == PanelInv /\ PanelNext => LateLive'
<1> SUFFICES ASSUME PanelInv, PanelNext, ~ Excused', cancel' # None, cancel'.step = "got", cancel'.live
             PROVE  /\ \A f \in finals' : f.run # cancel'.run
                    /\ active' # None /\ active'.run = cancel'.run => active'.live
  BY DEF LateLive
<1> DEFINE NoFinal == \A f \in finals' : f.run # cancel'.run
           NotEnded == active' # None /\ active'.run = cancel'.run => active'.live
           Right == NoFinal /\ NotEnded
<1> USE DEF panel, jobs, Attach, StopSse, Leave
<1>0. PanelTypeOK /\ Known /\ FinalsTrue /\ ShownTrue /\ Stopping /\ LateLive /\ ~ Excused /\ ~ severed
  BY PanelAhead DEF PanelInv, Truth, Ahead, Excused
<1>1. cancel' = cancel => /\ \A f \in finals : f.run # cancel'.run
                          /\ active # None /\ active.run = cancel'.run => active.live
                          /\ sub = None /\ probe = None
  BY <1>0 DEF LateLive, Stopping
<1>2. cancel' = cancel /\ finals' \subseteq finals => NoFinal
  BY <1>1
<1>3. cancel' = cancel /\ active' = active => NotEnded
  BY <1>1
<1>4. active' = None \/ active'.live => NotEnded
  OBVIOUS
<1> HIDE DEF NoFinal, NotEnded
<1>5. ASSUME StopAnswered PROVE Right
  <2> DEFINE live == status'[cancel.run] = "live"
  <2>1. cancel' = StopOf(cancel.run, "got", live)
    BY <1>5 DEF StopAnswered
  <2>2. cancel'.run = cancel.run /\ cancel'.live = live
    BY <2>1 DEF StopOf
  <2>3. status'[cancel.run] = "live" /\ cancel.run \in Runs
    BY <1>0, <1>5, <2>2, Holding DEF StopAnswered
  <2>4. ~ Gone(cancel.run)
    BY <2>3, PanelAhead DEF PanelInv, Ahead, Gone
  <2>5. \A f \in finals : f.run # cancel.run
    BY <1>0, <2>4 DEF FinalsTrue
  <2>6. active # None /\ active.run = cancel.run => active.live
    BY <1>0, <2>4 DEF ShownTrue
  <2>7. finals' = finals /\ active' = active
    BY <1>5 DEF StopAnswered
  <2> QED BY <2>2, <2>5, <2>6, <2>7 DEF NoFinal, NotEnded
<1>6. Stop \/ Stopped \/ StopApplied \/ StopFails => Right
  <2>1. Stop => cancel'.step = "post"
    BY DEF Stop
  <2>2. Stopped => cancel'.step = "refresh"
    BY DEF Stopped, StopOf
  <2>3. StopApplied \/ StopFails => cancel' = None
    BY DEF StopApplied, StopFails
  <2> QED BY <2>1, <2>2, <2>3
<1>7. TerminalEvent \/ LoseStream => Right
  BY <1>1 DEF TerminalEvent, LoseStream
<1>8. ProbeRead \/ ProbeAnswered \/ ProbeFails \/ Reconnect => Right
  BY <1>1 DEF ProbeRead, ProbeAnswered, ProbeFails, Reconnect
<1>9. AbandonRun => Right
  BY <1>2, <1>3, <1>4 DEF AbandonRun
<1>10. ASSUME NEW f \in finals, FinalRead(f) PROVE Right
  <2> DEFINE new == FinalAt(f, "got", f.run \in Live)
  <2>1. (\A g \in finals' : g \in finals \/ g = new) /\ cancel' = cancel /\ active' = active
    BY <1>10 DEF FinalRead
  <2>2. new.run = f.run
    BY DEF FinalAt
  <2> HIDE DEF new
  <2> QED BY <1>1, <1>3, <2>1, <2>2 DEF NoFinal
<1>11. ASSUME NEW f \in finals, FinalAnswered(f) PROVE Right
  <2> DEFINE new == FinalAt(f, "refresh", f.live)
  <2>1. (\A g \in finals' : g \in finals \/ g = new) /\ cancel' = cancel
    BY <1>11 DEF FinalAnswered
  <2>2. new.run = f.run
    BY DEF FinalAt
  <2> HIDE DEF new
  <2>3. active' = active \/ active'.run = f.run
    BY <1>11 DEF FinalAnswered
  <2> QED BY <1>1, <1>3, <2>1, <2>2, <2>3 DEF NoFinal, NotEnded
<1>12. \A f \in finals : FinalApplied(f) \/ FinalFails(f) => Right
  BY <1>2, <1>3 DEF FinalApplied, FinalFails
<1>13. ASSUME NEW s \in selects, Selected(s) PROVE Right
  <2>1. s.latest # None => s.latest.live \in BOOLEAN
    BY <1>0, Holding
  <2>2. CASE s.latest # None /\ s.latest.live
    BY <1>2, <1>4, <1>13, <2>2 DEF Selected
  <2>3. CASE ~ (s.latest # None /\ s.latest.live)
    BY <1>2, <1>3, <1>13, <2>1, <2>3 DEF Selected
  <2> QED BY <2>2, <2>3
<1>14. ASSUME NEW s \in selects, SelectedEnded(s) PROVE Right
  <2>1. cancel' = cancel /\ (cancel # None => crossed')
    BY <1>14 DEF SelectedEnded, Cross
  <2> QED BY <2>1 DEF Excused
<1>15. \A s \in selects : SelectFails(s) => Right
  BY <1>2, <1>3 DEF SelectFails
<1>16. \A t \in Threads : NewChatCreated(t) \/ Select(t) => Right
  BY <1>2, <1>4 DEF NewChatCreated, Select
<1>17. \A t \in Threads : Load(t) => Right
  BY <1>2, <1>4 DEF Load
<1>18. \A x \in Runs : RunStarted(x) \/ EndRun(x) => Right
  BY <1>2, <1>3 DEF RunStarted, EndRun
<1>19. RunBusy => Right
  BY <1>2, <1>3, <1>4 DEF RunBusy, SubmitRefused
<1>20. Submitted => Right
  BY <1>2, <1>4 DEF Submitted
<1>21. SubmitFails \/ Submit \/ NewChat \/ NewChatFails => Right
  BY <1>2, <1>3 DEF SubmitFails, SubmitRefused, Submit, NewChat, NewChatFails
<1> HIDE DEF Right
<1>22. Right
  BY <1>5, <1>6, <1>7, <1>8, <1>9, <1>10, <1>11, <1>12, <1>13, <1>14, <1>15, <1>16, <1>17, <1>18, <1>19, <1>20, <1>21
     DEF PanelNext, Answers
<1> QED BY <1>22 DEF Right, NoFinal, NotEnded

LEMMA PanelInvStep == PanelInv /\ [PanelNext]_panelVars => PanelInv'
<1>1. PanelInv /\ [PanelNext]_panelVars => PanelTypeOK'
  <2>1. PanelTypeOK' <=> ServerTypes' /\ PanelTypes' /\ JobTypes' /\ BoundTypes'
    BY DEF PanelTypeOK, ServerTypes, PanelTypes, JobTypes, BoundTypes
  <2> QED BY <2>1, ServerStep, PanelTypesStep, JobTypesStep, BoundStep
<1>2. PanelInv /\ PanelNext => Known'
  <2>1. Known' <=> HomesKnown' /\ PanelKnown' /\ JobsKnown'
    BY DEF Known, HomesKnown, PanelKnown, JobsKnown
  <2> QED BY <2>1, HomesStep, PanelKnownStep, JobsKnownStep
<1>3. PanelInv /\ PanelNext => Truth'
  BY ProbeTrueStep, FinalsStep, StoppingStep, HeardStep, LateLiveStep, ShownStep DEF Truth
<1>4. PanelInv /\ UNCHANGED panelVars => PanelInv'
  <2> SUFFICES ASSUME PanelInv, UNCHANGED panelVars PROVE PanelInv'
    OBVIOUS
  <2>1. UNCHANGED <<status, home, view, phase, active, runIdRef, sub, attempts, probe, finals, abandon,
                    cancel, selects, submit, newChat, switches, losses, faults, crossed, severed, unheeded>>
    BY DEF panelVars, server, panel, jobs, bounds, history
  <2>2. Known' /\ Opened' /\ Following'
    BY <2>1 DEF PanelInv, Known, Opened, Following, Begun, Gone
  <2>3. Truth'
    BY <2>1 DEF PanelInv, Truth, ProbeTrue, FinalsTrue, Stopping, Heard, LateLive, ShownTrue, StaleProbe,
                  Gone, Excused
  <2> QED BY <1>1, <2>2, <2>3 DEF PanelInv
<1> QED BY <1>1, <1>2, <1>3, <1>4, OpenedStep, FollowingStep DEF PanelInv

\* Every panel, for any numbers of threads, runs, losses and failing calls, is
\* as PanelInv says.
THEOREM PanelInvariant == PanelSpec => []PanelInv
  BY PanelInvInit, PanelInvStep, PTL DEF PanelSpec

\* The state of document-agent-panel.tsx and its handlers has its types; the
\* attempts to follow a stream again stay within their limit.
THEOREM PanelTypesHold == PanelSpec => []PanelTypeOK
<1>1. PanelInv => PanelTypeOK
  BY DEF PanelInv
<1> QED BY <1>1, PanelInvariant, PTL

\* Who could show an ended run as live: a probe of it (of which none is current),
\* a final read (which read it as ended), or a handler that is late (crossed).
LEMMA EndedStep ==
    ASSUME PanelInv, [PanelNext]_panelVars, ~ Excused',
           active # None, ~ active.live, active' # None, active'.run = active.run
    PROVE  ~ active'.live
<1> USE DEF panel, ApplyTerminal, Attach, StopSse, Leave
<1>1. active' = active => ~ active'.live
  OBVIOUS
<1> SUFFICES ASSUME PanelNext PROVE ~ active'.live
  BY <1>1 DEF panelVars
<1>0. PanelTypeOK /\ ShownTrue /\ FinalsTrue /\ LateLive /\ Opened /\ ~ Excused
  BY PanelAhead DEF PanelInv, Truth, Ahead
<1>2. ~ (StaleProbe(active.run) /\ runIdRef = active.run)
  BY <1>0 DEF ShownTrue
<1>3. CASE ProbeAnswered
  <2>1. probe # None /\ probe.step = "got" /\ runIdRef = probe.run /\ active' = [run |-> probe.run, live |-> probe.live]
    BY <1>3 DEF ProbeAnswered, isCurrent
  <2> QED BY <1>2, <2>1 DEF StaleProbe
<1>4. CASE Reconnect
  <2>1. probe # None /\ probe.step = "timer" /\ runIdRef = probe.run /\ active'.run = probe.run
    BY <1>4 DEF Reconnect, isCurrent
  <2> QED BY <1>2, <2>1 DEF StaleProbe
<1>5. ASSUME NEW f \in finals, FinalAnswered(f) PROVE ~ active'.live
  <2>1. ~ f.live /\ f.step = "got"
    BY <1>0, <1>5 DEF FinalsTrue, Excused, FinalAnswered
  <2> QED BY <1>1, <1>5, <2>1 DEF FinalAnswered
<1>6. ASSUME NEW s \in selects, Selected(s) PROVE ~ active'.live
  <2>1. s.latest # None => s.latest.live \in BOOLEAN
    BY <1>0, Holding
  <2>2. CASE s.latest # None /\ s.latest.live
    <3>1. crossed' = TRUE
      BY <1>6, <2>2 DEF Selected, Cross
    <3> QED BY <3>1 DEF Excused
  <2>3. CASE ~ (s.latest # None /\ s.latest.live)
    BY <1>1, <1>6, <2>1, <2>3 DEF Selected
  <2> QED BY <2>2, <2>3
<1>7. ASSUME NEW s \in selects, SelectedEnded(s) PROVE ~ active'.live
  BY <1>0, <1>7 DEF SelectedEnded, Opened
<1>8. CASE Submitted
  <2>1. active'.run = submit.run
    BY <1>8 DEF Submitted
  <2>2. crossed'
    BY <1>8, <2>1 DEF Submitted, Cross
  <2> QED BY <2>2 DEF Excused
<1>9. CASE Stopped
  <2>1. /\ cancel # None /\ cancel.step = "got"
        /\ active'.run = cancel.run /\ active'.live = cancel.live
    BY <1>9 DEF Stopped
  <2> QED BY <1>0, <2>1 DEF LateLive
<1>10. AbandonRun => ~ active'.live
  BY <1>1 DEF AbandonRun
<1>11. \A f \in finals : FinalRead(f) \/ FinalApplied(f) \/ FinalFails(f) => ~ active'.live
  BY <1>1 DEF FinalRead, FinalApplied, FinalFails
<1>12. \A s \in selects : SelectFails(s) => ~ active'.live
  BY <1>1 DEF SelectFails
<1>13. \A t \in Threads : NewChatCreated(t) \/ Select(t) \/ Load(t) => ~ active'.live
  BY DEF NewChatCreated, Select, Load
<1>14. \A x \in Runs : RunStarted(x) \/ EndRun(x) => ~ active'.live
  BY <1>1 DEF RunStarted, EndRun
<1>15. TerminalEvent \/ ProbeRead \/ LoseStream \/ ProbeFails => ~ active'.live
  BY <1>1 DEF TerminalEvent, ProbeRead, LoseStream, ProbeFails
<1>16. RunBusy \/ SubmitFails \/ Submit => ~ active'.live
  BY <1>1 DEF RunBusy, SubmitFails, SubmitRefused, Submit
<1>17. Stop \/ StopAnswered \/ StopApplied \/ StopFails \/ NewChat \/ NewChatFails => ~ active'.live
  BY <1>1 DEF Stop, StopAnswered, StopApplied, StopFails, NewChat, NewChatFails
<1> QED BY <1>3, <1>4, <1>5, <1>6, <1>7, <1>8, <1>9, <1>10, <1>11, <1>12, <1>13, <1>14, <1>15, <1>16, <1>17
        DEF PanelNext, Answers

\* A run shown as ended is not shown as live again by answers that come late
\* (the generations of attachRun, the looks at runIdRef), unless a handler took
\* effect on a panel that had moved on or a Stop or a last read failed.
THEOREM EndedStays == PanelSpec => EndedStaysEnded
<1>1. PanelInv /\ [PanelNext]_panelVars =>
        [active # None /\ ~ active.live /\ active' # None /\ active'.run = active.run /\ ~ Excused'
            => ~ active'.live]_panelVars
  BY EndedStep
<1> QED BY <1>1, PanelInvariant, PTL DEF PanelSpec, EndedStaysEnded

-----------------------------------------------------------------------------
(* The lease.                                                              *)

\* Every live holder's row carries its token and the expiry of its last write.
HolderRows ==
    \A t \in Holders : UserOf[t] \notin orphaned =>
        Holds(t) /\ row[UserOf[t]].expiresAt = lastOk[t] + LeaseMs

\* The next attempt to renew comes within MaxSilence of the last success.
TimersOnTime ==
    \A t \in Tokens :
        /\ stage[t] = "running" =>
               now =< nextRenew[t] /\ nextRenew[t] =< lastOk[t] + MaxSilence
        /\ stage[t] = "starting" => now + RenewMs =< lastOk[t] + MaxSilence

LeaseInv == LeaseTypeOK /\ HolderRows /\ TimersOnTime

USE UsersAssumption, TimesAssumption, LeaseBoundsAssumption, NoRowAssumption

(* The invariant gives the two safety properties. *)
LEMMA LeaseInvUnexpired == LeaseInv => LiveHolderUnexpired
  BY DEF LeaseInv, LeaseTypeOK, HolderRows, TimersOnTime, LiveHolderUnexpired, Holders, Holds, Stages, Row

LEMMA LeaseInvExcludes == LeaseInv => OneExecutionPerUser
  BY DEF LeaseInv, HolderRows, OneExecutionPerUser, Holds

(* A row that acquire may take belongs to no live holder. *)
LEMMA FreeMeansNobody ==
  ASSUME LeaseInv, NEW u \in Users, Free(u), u \notin orphaned, NEW s \in Holders
  PROVE  UserOf[s] # u
  BY LeaseInvUnexpired DEF LiveHolderUnexpired, Free, Holds, LeaseInv, LeaseTypeOK, Row, Holders

LEMMA LeaseInvInit == LeaseInit => LeaseInv
  BY DEF LeaseInit, LeaseInv, LeaseTypeOK, HolderRows, TimersOnTime, Holders, Stages

LEMMA LeaseInvStep == LeaseInv /\ [LeaseNext]_leaseVars => LeaseInv'
<1> SUFFICES ASSUME LeaseInv, [LeaseNext]_leaseVars PROVE LeaseInv'
  OBVIOUS
<1> USE DEF LeaseInv, LeaseTypeOK, Stages, Row, TimersOnTime, Holders
<1>1. ASSUME NEW t \in Tokens, Acquire(t) PROVE LeaseInv'
  <2>1. LeaseTypeOK' /\ TimersOnTime'
    BY <1>1 DEF Acquire, WriteRow
  <2>2. HolderRows'
    <3> SUFFICES ASSUME NEW s \in Holders', UserOf[s] \notin orphaned'
                 PROVE  Holds(s)' /\ row'[UserOf[s]].expiresAt = lastOk'[s] + LeaseMs
      BY DEF HolderRows, Holds
    <3>1. CASE s = t
      BY <1>1, <3>1 DEF Acquire, WriteRow, Holds
    <3>2. CASE s # t
      <4>1. s \in Holders
        BY <1>1, <3>2 DEF Acquire
      <4>2. UserOf[s] # UserOf[t]
        BY <1>1, <4>1, FreeMeansNobody DEF Acquire
      <4> QED
        BY <1>1, <3>2, <4>1, <4>2 DEF Acquire, WriteRow, Holds, HolderRows
    <3> QED
      BY <3>1, <3>2
  <2> QED
    BY <2>1, <2>2
<1>2. ASSUME NEW t \in Tokens, AcquireBusy(t) PROVE LeaseInv'
  BY <1>2 DEF AcquireBusy, HolderRows, Holds
<1>3. ASSUME NEW t \in Tokens, Begin(t) PROVE LeaseInv'
  BY <1>3 DEF Begin, HolderRows, Holds
<1>4. ASSUME NEW t \in Tokens, Settle(t) PROVE LeaseInv'
  BY <1>4 DEF Settle, HolderRows, Holds
<1>5. ASSUME NEW t \in Tokens, Release(t) PROVE LeaseInv'
  <2>1. LeaseTypeOK' /\ TimersOnTime'
    BY <1>5 DEF Release, DeleteRow
  <2>2. HolderRows'
    <3> SUFFICES ASSUME NEW s \in Holders', UserOf[s] \notin orphaned'
                 PROVE  Holds(s)' /\ row'[UserOf[s]].expiresAt = lastOk'[s] + LeaseMs
      BY DEF HolderRows, Holds
    <3>1. s \in Holders /\ s # t /\ Holds(s) /\ row[UserOf[s]].expiresAt = lastOk[s] + LeaseMs
      BY <1>5 DEF Release, HolderRows
    <3>2. row'[UserOf[s]] = row[UserOf[s]]
      BY <1>5, <3>1 DEF Release, DeleteRow, Holds
    <3> QED
      BY <1>5, <3>1, <3>2 DEF Release, Holds
  <2> QED
    BY <2>1, <2>2
<1>6. ASSUME NEW t \in Tokens, Renew(t) PROVE LeaseInv'
  <2>1. LeaseTypeOK' /\ TimersOnTime'
    BY <1>6 DEF Renew, WriteRow
  <2>2. HolderRows'
    <3> SUFFICES ASSUME NEW s \in Holders', UserOf[s] \notin orphaned'
                 PROVE  Holds(s)' /\ row'[UserOf[s]].expiresAt = lastOk'[s] + LeaseMs
      BY DEF HolderRows, Holds
    <3>1. s \in Holders /\ Holds(s) /\ row[UserOf[s]].expiresAt = lastOk[s] + LeaseMs
      BY <1>6 DEF Renew, HolderRows
    <3>2. CASE s = t
      BY <1>6, <3>1, <3>2 DEF Renew, WriteRow, Holds
    <3>3. CASE s # t
      <4>1. Holds(t) => UserOf[s] # UserOf[t]
        BY <3>1, <3>3 DEF Holds
      <4> QED
        BY <1>6, <3>1, <3>3, <4>1 DEF Renew, WriteRow, Holds
    <3> QED
      BY <3>2, <3>3
  <2> QED
    BY <2>1, <2>2
<1>7. ASSUME NEW t \in Tokens, RenewFails(t) PROVE LeaseInv'
  BY <1>7 DEF RenewFails, HolderRows, Holds
<1>8. ASSUME NEW u \in Users, ReleaseUser(u) PROVE LeaseInv'
  BY <1>8 DEF ReleaseUser, HolderRows, Holds
<1>9. ASSUME NEW u \in Users, FindUntracked(u) PROVE LeaseInv'
  BY <1>9 DEF FindUntracked, HolderRows, Holds
<1>10. CASE Restart
  BY <1>10 DEF Restart, HolderRows
<1>11. CASE Tick
  BY <1>11 DEF Tick, HolderRows, Holds
<1>12. CASE UNCHANGED leaseVars
  BY <1>12 DEF leaseVars, HolderRows, Holds
<1> QED
  BY <1>1, <1>2, <1>3, <1>4, <1>5, <1>6, <1>7, <1>8, <1>10, <1>11, <1>12, <1>9 DEF LeaseNext, LeaseStep

(* Every reachable state satisfies the inductive invariant. *)
THEOREM LeaseInvariant == LeaseSpec => []LeaseInv
  BY LeaseInvInit, LeaseInvStep, PTL DEF LeaseSpec

(* The lease table, clock and timers keep their types. *)
THEOREM LeaseTypesHold == LeaseSpec => []LeaseTypeOK
<1>1. LeaseInv => LeaseTypeOK
  BY DEF LeaseInv
<1> QED
  BY <1>1, LeaseInvariant, PTL

(* A user with no unfinished run that looks abandoned never has two        *)
(* executions between acquire and settlement (AGENT_EXECUTION_BUSY).       *)
THEOREM LeaseExclusion == LeaseSpec => []OneExecutionPerUser
  BY LeaseInvariant, LeaseInvExcludes, PTL

(* The row of a live holder never expires under it. *)
THEOREM LeaseUnexpired == LeaseSpec => []LiveHolderUnexpired
  BY LeaseInvariant, LeaseInvUnexpired, PTL

(* Every step of the lease is a step of the mutex or leaves it unchanged:  *)
(* acquire enters, settlement leaves, a restart crashes, and a tab that    *)
(* finds a run before it is tracked distrusts its user.                    *)
THEOREM LeaseImplementsMutex == LeaseSpec => ImplementsMutex
<1>1. LeaseInit => Mutex!Init
  BY DEF LeaseInit, Mutex!Init, Holders
<1>2. LeaseInv /\ [LeaseNext]_leaseVars => [Mutex!Next]_(Mutex!vars)
  <2> SUFFICES ASSUME LeaseInv, [LeaseNext]_leaseVars PROVE [Mutex!Next]_(Mutex!vars)
    OBVIOUS
  <2> USE DEF Holders, Mutex!vars
  <2>1. ASSUME NEW t \in Tokens, Acquire(t) PROVE Mutex!Next
    <3>1. t \notin Holders /\ Holders' = Holders \cup {t} /\ orphaned' = orphaned
      BY <2>1 DEF Acquire, LeaseInv, LeaseTypeOK
    <3>2. Mutex!RunningFor(UserOf[t]) = {} \/ UserOf[t] \in orphaned
      BY <2>1, FreeMeansNobody DEF Acquire, Mutex!RunningFor
    <3>3. Mutex!Enter(t)
      BY <3>1, <3>2 DEF Mutex!Enter
    <3> QED
      BY <3>3 DEF Mutex!Next
  <2>2. ASSUME NEW t \in Tokens, Settle(t) PROVE Mutex!Next
    <3>1. Holders' = Holders \ {t} /\ orphaned' = orphaned
      BY <2>2 DEF Settle, LeaseInv, LeaseTypeOK
    <3> QED
      BY <3>1 DEF Mutex!Leave, Mutex!Next
  <2>3. CASE Restart
    BY <2>3 DEF Restart, LeaseInv, LeaseTypeOK, Stages, Mutex!Crash, Mutex!Next
  <2>4. ASSUME NEW t \in Tokens,
               AcquireBusy(t) \/ Begin(t) \/ Release(t) \/ Renew(t) \/ RenewFails(t)
        PROVE  Holders' = Holders /\ orphaned' = orphaned
    BY <2>4 DEF AcquireBusy, Begin, Release, Renew, RenewFails, LeaseInv, LeaseTypeOK
  <2>5. ASSUME (\E u \in Users : ReleaseUser(u)) \/ Tick \/ UNCHANGED leaseVars
        PROVE  Holders' = Holders /\ orphaned' = orphaned
    BY <2>5 DEF ReleaseUser, Tick, leaseVars
  <2>6. ASSUME NEW u \in Users, FindUntracked(u) PROVE Mutex!Next
    <3>1. Holders' = Holders /\ Mutex!RunningFor(u) # {}
      BY <2>6 DEF FindUntracked, Mutex!RunningFor
    <3> QED
      BY <2>6, <3>1 DEF FindUntracked, Mutex!Distrust, Mutex!Next
  <2> QED
    BY <2>1, <2>2, <2>3, <2>4, <2>5, <2>6 DEF LeaseNext, LeaseStep
<1> QED
  BY <1>1, <1>2, LeaseInvariant, PTL DEF LeaseSpec, ImplementsMutex, Mutex!Spec
=============================================================================
