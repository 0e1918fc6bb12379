--------------------------- MODULE ExecutionLease ---------------------------
(***************************************************************************)
(* The durable execution lease: apps/api/src/agent/execution-lease.ts, and *)
(* the two places that hold one, start() in agent/execution.ts and         *)
(* keepLeaseUntilFinished in agent/run-settlement.ts.                      *)
(*                                                                         *)
(* The table has one row per user.  Every call of acquire() draws a fresh  *)
(* leaseId, so a token stands for one call of start() and for the          *)
(* execution it starts.  Time is a clock read by acquire and renew; the    *)
(* columns that nothing reads back (acquiredAt) are left out.              *)
(***************************************************************************)
EXTENDS Integers, FiniteSets

CONSTANTS
    Users,
    Tokens,        \* lease ids, one per call of start()
    UserOf,        \* the user each call is made for
    LeaseMs,       \* AGENT_EXECUTION_LEASE_MS
    RenewMs,       \* AGENT_EXECUTION_LEASE_RENEW_MS
    MaxSilence,    \* longest time a live holder goes without a successful write
    NoRow,
    MaxTime,       \* bound of the clock, for TLC
    MaxCrashes     \* bound of the restarts, for TLC

ASSUME UsersAssumption == UserOf \in [Tokens -> Users]
ASSUME TimesAssumption ==
    /\ LeaseMs \in Nat /\ RenewMs \in Nat /\ MaxSilence \in Nat
    /\ RenewMs > 0 /\ RenewMs =< MaxSilence
    /\ MaxSilence < LeaseMs
ASSUME LeaseBoundsAssumption == MaxTime \in Nat /\ MaxCrashes \in Nat
ASSUME NoRowAssumption == NoRow \notin [leaseId : Tokens, expiresAt : Nat]

VARIABLES
    now,       \* the clock of the API process
    row,       \* agent_execution_lease: the row of each user, if there is one
    stage,     \* where the call of start() with this token is
    lastOk,    \* when a live holder last wrote its row (acquire or renew)
    nextRenew, \* when the renewal interval of a live holder fires next
    orphaned,  \* users with an unfinished run that the process does not track
    crashes

leaseVars == <<now, row, stage, lastOk, nextRenew, orphaned, crashes>>

Row == [leaseId : Tokens, expiresAt : Nat]

\* "starting": start() holds the lease and has no timer yet.  "running": the
\* execution is in progress and the interval renews.  "finishing": it settled
\* and its release is in flight.
Stages == {"idle", "starting", "running", "finishing", "ended"}

LeaseTypeOK ==
    /\ now \in Nat
    /\ row \in [Users -> Row \cup {NoRow}]
    /\ stage \in [Tokens -> Stages]
    /\ lastOk \in [Tokens -> Nat]
    /\ nextRenew \in [Tokens -> Nat]
    /\ orphaned \in SUBSET Users
    /\ crashes \in Nat

Holders == {t \in Tokens : stage[t] \in {"starting", "running"}}

Holds(t) == row[UserOf[t]] # NoRow /\ row[UserOf[t]].leaseId = t

LeaseInit ==
    /\ now = 0
    /\ row = [u \in Users |-> NoRow]
    /\ stage = [t \in Tokens |-> "idle"]
    /\ lastOk = [t \in Tokens |-> 0]
    /\ nextRenew = [t \in Tokens |-> 0]
    /\ orphaned = {}
    /\ crashes = 0
-----------------------------------------------------------------------------
(* The service.                                                            *)

\* insert ... on conflict (user_id) do update ... where expires_at <= now
Free(u) == row[u] # NoRow => row[u].expiresAt =< now

WriteRow(u, t) == row' = [row EXCEPT ![u] = [leaseId |-> t, expiresAt |-> now + LeaseMs]]

\* delete ... where user_id and lease_id match
DeleteAnyRow(t) == row' = [row EXCEPT ![UserOf[t]] = NoRow]        \* mutant
DeleteRow(t) ==
    row' = IF Holds(t) THEN [row EXCEPT ![UserOf[t]] = NoRow] ELSE row

-----------------------------------------------------------------------------
(* The holders.                                                            *)

Acquire(t) ==
    /\ stage[t] = "idle"
    /\ Free(UserOf[t])
    /\ WriteRow(UserOf[t], t)
    /\ stage' = [stage EXCEPT ![t] = "starting"]
    /\ lastOk' = [lastOk EXCEPT ![t] = now]
    /\ UNCHANGED <<now, nextRenew, orphaned, crashes>>

\* acquire() returned no row: start() throws AGENT_EXECUTION_BUSY.
AcquireBusy(t) ==
    /\ stage[t] = "idle"
    /\ ~ Free(UserOf[t])
    /\ stage' = [stage EXCEPT ![t] = "ended"]
    /\ UNCHANGED <<now, row, lastOk, nextRenew, orphaned, crashes>>

\* start() reached keepLeaseUntilFinished: the interval is armed.
Begin(t) ==
    /\ stage[t] = "starting"
    /\ now + RenewMs =< lastOk[t] + MaxSilence
    /\ stage' = [stage EXCEPT ![t] = "running"]
    /\ nextRenew' = [nextRenew EXCEPT ![t] = now + RenewMs]
    /\ UNCHANGED <<now, row, lastOk, orphaned, crashes>>

\* start() threw after acquire, or the execution's promise settled (the
\* interval is cleared): a release follows.
Settle(t) ==
    /\ stage[t] \in {"starting", "running"}
    /\ stage' = [stage EXCEPT ![t] = "finishing"]
    /\ lastOk' = [lastOk EXCEPT ![t] = 0]
    /\ nextRenew' = [nextRenew EXCEPT ![t] = 0]
    /\ UNCHANGED <<now, row, orphaned, crashes>>

\* A failing release is swallowed: the row stays until it expires.
Release(t) ==
    /\ stage[t] = "finishing"
    /\ stage' = [stage EXCEPT ![t] = "ended"]
    /\ DeleteRow(t) \/ UNCHANGED row
    /\ UNCHANGED <<now, lastOk, nextRenew, orphaned, crashes>>

\* The interval fires.  The caller ignores the Boolean result, so a holder whose
\* row was taken goes on without noticing.
Renew(t) ==
    /\ stage[t] = "running"
    /\ now = nextRenew[t]
    /\ IF Holds(t) THEN WriteRow(UserOf[t], t) ELSE UNCHANGED row
    /\ lastOk' = [lastOk EXCEPT ![t] = now]
    /\ nextRenew' = [nextRenew EXCEPT ![t] = now + RenewMs]
    /\ UNCHANGED <<now, stage, orphaned, crashes>>

\* The renewal's query fails and the error is swallowed.  MaxSilence bounds
\* how long the failures go on.
RenewFails(t) ==
    /\ stage[t] = "running"
    /\ now = nextRenew[t]
    /\ now + RenewMs =< lastOk[t] + MaxSilence
    /\ nextRenew' = [nextRenew EXCEPT ![t] = now + RenewMs]
    /\ UNCHANGED <<now, row, stage, lastOk, orphaned, crashes>>

\* A tab asks for the events of a run whose row start() has committed before
\* the process tracks it, and takes it for one a dead process left.
FindUntracked(u) ==
    /\ \E t \in Tokens : UserOf[t] = u /\ stage[t] = "starting"
    /\ orphaned' = orphaned \cup {u}
    /\ UNCHANGED <<now, row, stage, lastOk, nextRenew, crashes>>

\* repairAbandonedRun, having failed such a run, drops the row of its user,
\* whoever holds it.  That no tracked run is live is checked before the delete
\* is sent, and does not hold any call in start() back.
ReleaseUser(u) ==
    /\ u \in orphaned
    /\ row' = [row EXCEPT ![u] = NoRow]
    /\ UNCHANGED <<now, stage, lastOk, nextRenew, orphaned, crashes>>

\* The process dies and a new one boots: clearAll, unless the database is
\* unreachable at that moment.
Restart ==
    /\ crashes < MaxCrashes
    /\ crashes' = crashes + 1
    /\ stage' = [t \in Tokens |-> IF stage[t] = "idle" THEN "idle" ELSE "ended"]
    /\ orphaned' = orphaned \cup {UserOf[t] : t \in Holders}
    /\ row' = [u \in Users |-> NoRow] \/ UNCHANGED row
    /\ lastOk' = [t \in Tokens |-> 0]
    /\ nextRenew' = [t \in Tokens |-> 0]
    /\ UNCHANGED now

\* Timers fire on time, and start() does not outlast MaxSilence.
Tick ==
    /\ now < MaxTime
    /\ \A t \in Tokens :
        /\ stage[t] = "running" => now < nextRenew[t]
        /\ stage[t] = "starting" => now + RenewMs < lastOk[t] + MaxSilence
    /\ now' = now + 1
    /\ UNCHANGED <<row, stage, lastOk, nextRenew, orphaned, crashes>>

LeaseStep(t) ==
    \/ Acquire(t) \/ AcquireBusy(t) \/ Begin(t) \/ Settle(t) \/ Release(t)
    \/ Renew(t) \/ RenewFails(t)

LeaseNext ==
    \/ \E t \in Tokens : LeaseStep(t)
    \/ \E u \in Users : FindUntracked(u) \/ ReleaseUser(u)
    \/ Restart
    \/ Tick

LeaseSpec == LeaseInit /\ [][LeaseNext]_leaseVars
-----------------------------------------------------------------------------
(* A user without an untracked unfinished run has at most one execution    *)
(* between acquire and its settlement, whatever renewals and releases fail *)
(* (within MaxSilence) and whatever rows earlier holders left behind.      *)
(* (start's AGENT_EXECUTION_BUSY, execution.ts:250-253.)                   *)
OneExecutionPerUser ==
    \A s, t \in Holders : UserOf[s] = UserOf[t] /\ UserOf[s] \notin orphaned => s = t

(* A live holder of such a user never sees its row expire: nobody can take *)
(* the lease over while the execution runs.                                *)
LiveHolderUnexpired ==
    \A t \in Holders : UserOf[t] \notin orphaned => Holds(t) /\ now < row[UserOf[t]].expiresAt

\* The lease implements the mutex it is there to provide.
Mutex == INSTANCE ExecutionMutex WITH running <- Holders, suspect <- orphaned
ImplementsMutex == Mutex!Spec
=============================================================================
