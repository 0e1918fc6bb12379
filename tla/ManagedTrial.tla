---------------------------- MODULE ManagedTrial ----------------------------
(***************************************************************************)
(* The managed credit of one user (apps/api/src/managed-trial) and the     *)
(* bills that draw on it (agent/usage-accounting.ts, model-usage): a run's *)
(* model turns, billed once at its end, the compaction a finished run      *)
(* starts in the background, and the title a run asks for.                 *)
(*                                                                         *)
(* The account row is read before a bill's model is called and written     *)
(* only after it answered: an event row is inserted, then the account is   *)
(* debited for that event or blocked.  Nothing ties the two statements     *)
(* together, and bills of one user are in flight side by side.             *)
(***************************************************************************)
EXTENDS Integers, FiniteSets, FiniteSetsExt, SequencesExt

CONSTANTS
    Runs,         \* runs: a failure after their model answered unwinds
    Compactions,  \* background calls: a failure of their bill is swallowed
    Titles,       \* background calls nobody checks the balance for
    Grant,        \* grantMicros
    Costs,        \* what a call may cost
    MaxFaults     \* bound: statements of the accounting that fail

Bills == Runs \cup Compactions \cup Titles

ASSUME GrantAssumption ==
    /\ Grant \in Nat \ {0}
    /\ Costs \subseteq Nat
    /\ Runs \cap Compactions = {} /\ Titles \cap (Runs \cup Compactions) = {}

Unknown == -1     \* the provider reported no cost that could be parsed
None == -2        \* no usage at hand

Stages == {"idle", "calling", "billing", "recorded", "unwinding",
           "settled", "over"}

VARIABLES
    balance,    \* balanceMicros
    blocked,    \* blockedAt is set
    events,     \* per bill: the costs of its model_usage_event rows, in order
    debits,     \* per bill: which of them have a managed_ai_trial_debit row
    stage,      \* how far the bill's caller is
    usage,      \* the cost of what the model was used for, or None
    attempted,  \* runUsageAttempted
    catches,    \* catch blocks a failing run still passes through
    dropped     \* ghost: bills with an accounting statement that failed

account == <<balance, blocked, events, debits, dropped>>
caller == <<stage, usage, attempted, catches>>
trialVars == <<account, caller>>

TrialTypeOK ==
    /\ balance \in Int
    /\ blocked \in BOOLEAN
    /\ events \in [Bills -> Seq(Costs \cup {Unknown})]
    /\ debits \in [Bills -> SUBSET Nat]
    /\ stage \in [Bills -> Stages]
    /\ usage \in [Bills -> Costs \cup {Unknown, None}]
    /\ attempted \in [Bills -> BOOLEAN]
    /\ catches \in [Bills -> 0..2]
    /\ dropped \in SUBSET Bills

TrialInit ==
    /\ balance = Grant        \* ensure() opens the account on first use
    /\ blocked = FALSE
    /\ events = [b \in Bills |-> <<>>]
    /\ debits = [b \in Bills |-> {}]
    /\ stage = [b \in Bills |-> "idle"]
    /\ usage = [b \in Bills |-> None]
    /\ attempted = [b \in Bills |-> FALSE]
    /\ catches = [b \in Bills |-> 0]
    /\ dropped = {}

-----------------------------------------------------------------------------
(* Before and during the model's calls *)

\* beforeManagedCall: an account that is blocked or empty is refused.
Admits == ~blocked /\ balance > 0

BeforeManagedCall(b) ==
    /\ stage[b] = "idle"
    /\ stage' = [stage EXCEPT ![b] = IF Admits THEN "calling" ELSE "over"]
    /\ UNCHANGED <<account, usage, attempted, catches>>

\* generateThreadTitle runs beside the turns of a run r, unchecked.
AskTitle(t, r) ==
    /\ stage[t] = "idle"
    /\ stage[r] = "calling"
    /\ stage' = [stage EXCEPT ![t] = "calling"]
    /\ UNCHANGED <<account, usage, attempted, catches>>

\* The model answered; what it cost is known, or not.
ModelAnswers(b) ==
    /\ stage[b] = "calling"
    /\ \E cost \in Costs \cup {Unknown} : usage' = [usage EXCEPT ![b] = cost]
    /\ stage' = [stage EXCEPT ![b] = "billing"]
    /\ UNCHANGED <<account, attempted, catches>>

\* The model of a background call failed: nothing is billed.
CallThrows(b) ==
    /\ b \notin Runs
    /\ stage[b] = "calling"
    /\ stage' = [stage EXCEPT ![b] = "over"]
    /\ UNCHANGED <<account, usage, attempted, catches>>

\* A run failed after some turns or none.  Its error carries their metrics
\* through two catch blocks, and each of them bills what it finds.
RunThrows(r) ==
    /\ r \in Runs
    /\ stage[r] = "calling"
    /\ \E cost \in Costs \cup {Unknown, None} :
           usage' = [usage EXCEPT ![r] = cost]
    /\ stage' = [stage EXCEPT ![r] = "unwinding"]
    /\ catches' = [catches EXCEPT ![r] = 2]
    /\ UNCHANGED <<account, attempted>>

-----------------------------------------------------------------------------
(* recordModelUsage and the policy behind it *)

\* An error of the accounting.  A background call logs it and goes on; a run
\* that is failing already goes on failing; a run that had succeeded fails
\* with it, and that error carries no metrics.
CatchAccountingError(b) ==
    /\ stage' = [stage EXCEPT ![b] = IF b \in Runs THEN "unwinding"
                                                  ELSE "settled"]
    /\ IF b \in Runs /\ catches[b] = 0
       THEN /\ catches' = [catches EXCEPT ![b] = 1]
            /\ usage' = [usage EXCEPT ![b] = None]
       ELSE UNCHANGED <<catches, usage>>

MayFail == Cardinality(dropped) < MaxFaults

\* The insert of the event row.  A run notes its attempt before it.
RecordUsage(b) ==
    /\ stage[b] = "billing"
    /\ attempted' = [attempted EXCEPT ![b] = TRUE]
    /\ \/ /\ events' = [events EXCEPT ![b] = Append(@, usage[b])]
          /\ stage' = [stage EXCEPT ![b] = "recorded"]
          /\ UNCHANGED <<catches, usage, dropped>>
       \/ /\ MayFail
          /\ dropped' = dropped \cup {b}
          /\ CatchAccountingError(b)
          /\ UNCHANGED events
    /\ UNCHANGED <<balance, blocked, debits>>

\* The transaction of debit(): the account row and one row per event.
Debit(b, cost) ==
    /\ balance' = balance - cost
    /\ debits' = [debits EXCEPT ![b] = @ \cup {Len(events[b])}]
    /\ UNCHANGED blocked

\* afterUsageRecorded: debit a priced event; block the account for another.
AfterUsageRecorded(b) ==
    /\ stage[b] = "recorded"
    /\ \/ /\ Last(events[b]) # Unknown
          /\ Debit(b, Last(events[b]))
          /\ stage' = [stage EXCEPT ![b] = IF catches[b] > 0 THEN "unwinding"
                                                           ELSE "settled"]
          /\ UNCHANGED <<catches, usage, dropped>>
       \/ /\ Last(events[b]) = Unknown
          /\ blocked' = TRUE
          /\ CatchAccountingError(b)
          /\ UNCHANGED <<balance, debits, dropped>>
       \/ /\ MayFail
          /\ dropped' = dropped \cup {b}
          /\ CatchAccountingError(b)
          /\ UNCHANGED <<balance, blocked, debits>>
    /\ UNCHANGED <<events, attempted>>

BillsInEveryCatch(r) == usage[r] # None  \* mutant

\* "At most once per run on every terminal path."
MayRecord(r) == ~attempted[r] /\ usage[r] # None

\* The next catch block of a failing run: recordFailedRunUsage, or the end.
Unwind(r) ==
    /\ stage[r] = "unwinding"
    /\ stage' = [stage EXCEPT ![r] =
                    IF catches[r] = 0 THEN "over"
                    ELSE IF MayRecord(r) THEN "billing" ELSE "unwinding"]
    /\ catches' = [catches EXCEPT ![r] = IF @ = 0 THEN 0 ELSE @ - 1]
    /\ UNCHANGED <<account, usage, attempted>>

-----------------------------------------------------------------------------
(* Properties *)

\* The units of credit that the debited events of a bill cost.
Units(b) == UNION {{<<b, i>>} \X (1 .. events[b][i]) : i \in debits[b]}

Debited == UNION {Units(b) : b \in Bills}

\* The call was paid for, or the account is blocked -- whether the account is
\* overdrawn by now or the run is failing -- unless a statement of its own
\* accounting failed.
PaidOrBlocked(b, i) ==
    \/ i \in debits[b]
    \/ events[b][i] = Unknown /\ blocked
    \/ stage[b] = "recorded" /\ i = Len(events[b])
    \/ b \in dropped

\* The balance is the grant less what was debited, and what a caller is
\* through with was debited once, whatever path it ends on: "At most once per
\* run on every terminal path, so managed credits are never debited twice"
\* (execution.ts:638).
ChargedOnce ==
    /\ balance = Grant - Cardinality(Debited)
    /\ \A b \in Bills : /\ Cardinality(debits[b]) <= 1
                        /\ \A i \in DOMAIN events[b] : PaidOrBlocked(b, i)

=============================================================================
