------------------------------- MODULE Wallet -------------------------------
(***************************************************************************)
(* One company's point wallet: top-up orders, the SePay webhook that pays  *)
(* them, the Bull queue that retries a webhook whose processing failed,    *)
(* and the deductions of the services that sell things for points.         *)
(*                                                                         *)
(* A webhook handler is a sequence of database calls with an await between *)
(* them, so it is a sequence of actions here.  Postgres runs an            *)
(* interactive transaction at READ COMMITTED: what a transaction read      *)
(* earlier may be stale when it writes, its writes become visible          *)
(* together when it commits, and an error rolls all of them back.          *)
(***************************************************************************)
EXTENDS Integers, Sequences, FiniteSets

CONSTANTS
    Orders,         \* top-up orders the company may place
    Deliveries,     \* webhook requests SePay may make (repeats included)
    Spends,         \* calls of deductPoints
    NoOrder,        \* what a payload without a usable order code names
    Amount,         \* Amount[o]: amount = pointAmount of order o
    Cost,           \* Cost[s]: price of spend s
    JobAttempts,    \* "attempts" option of a payment job
    MaxPoint,       \* largest value of a point column (Postgres int4)
    MaxConcurrent,  \* wallet requests the environment keeps in flight at once
    MaxFaults,      \* bound on failed database calls
    MaxCrashes,     \* bound on server crashes
    QueueCanFail    \* whether Redis may refuse the fallback job

ASSUME WalletAssumption ==
    /\ IsFiniteSet(Deliveries)
    /\ NoOrder \notin Orders
    /\ Orders \cap Spends = {}
    /\ Amount \in [Orders -> Nat]
    /\ Cost \in [Spends -> Nat]
    /\ JobAttempts \in Nat \ {0}
    /\ MaxPoint \in Nat
    /\ MaxConcurrent \in Nat \ {0}
    /\ MaxFaults \in Nat
    /\ MaxCrashes \in Nat
    /\ QueueCanFail \in BOOLEAN

VARIABLES
    order,          \* PaymentOrder.status, "absent" before the row exists
    balance,        \* CompanyWallet.balancePoint
    totalTopup,     \* CompanyWallet.totalTopupPoint
    totalSpent,     \* CompanyWallet.totalSpentPoint
    ledger,         \* WalletTransaction rows in commit order
    charged,        \* spends whose deduction committed
    payload,        \* what each webhook request says
    stage,          \* where the processing of each webhook request stands
    via,            \* who processes it: the controller or a queue job
    attempts,       \* attemptsMade of its job
    snapshot,       \* balance its open transaction has read
    faults,         \* failed database calls so far
    crashes         \* crashes so far

walletRow == <<balance, totalTopup, totalSpent, ledger>>
delivery  == <<payload, stage, via, attempts, snapshot>>
bounds    == <<faults, crashes>>
vars      == <<order, walletRow, charged, delivery, bounds>>

-----------------------------------------------------------------------------
Payload == [order : Orders \cup {NoOrder}, enough : BOOLEAN]

\* A handler is at one of these between two of its awaits.
Running == {"reading", "checked", "txOpen"}
Settled == {"done", "failed", "lost"}
Stage   == {"unsent", "waiting"} \cup Running \cup Settled

LedgerRow == [type : {"TOPUP", "SPEND"}, ref : Orders \cup Spends,
              pointDelta : Int, balanceAfter : Int]

InFlight == {d \in Deliveries : stage[d] \in Running}
RoomForRequest == Cardinality(InFlight) < MaxConcurrent

Init ==
    /\ order = [o \in Orders |-> "absent"]
    /\ balance = 0 /\ totalTopup = 0 /\ totalSpent = 0
    /\ ledger = <<>>
    /\ charged = {}
    /\ payload = [d \in Deliveries |-> [order |-> NoOrder, enough |-> FALSE]]
    /\ stage = [d \in Deliveries |-> "unsent"]
    /\ via = [d \in Deliveries |-> "direct"]
    /\ attempts = [d \in Deliveries |-> 0]
    /\ snapshot = [d \in Deliveries |-> 0]
    /\ faults = 0 /\ crashes = 0

-----------------------------------------------------------------------------
(* The employer's requests.                                                *)

\* The wallet row is created here too; a row of zeros and no row read alike.
CreateTopupCheckout(o) ==
    /\ order[o] = "absent"
    /\ order' = [order EXCEPT ![o] = "PENDING"]
    /\ UNCHANGED <<walletRow, charged, delivery, bounds>>

CanPayUnchecked(s) == TRUE                                        \* mutant
CanPay(s) == balance >= Cost[s]

\* deductPoints: the UPDATE re-evaluates its WHERE on the latest row and holds
\* the row lock until the commit, so the whole transaction is one step.  A free
\* purchase returns before it; a refused or overflowing one changes nothing.
DeductPoints(s) ==
    /\ s \notin charged
    /\ RoomForRequest
    /\ Cost[s] > 0
    /\ CanPay(s)
    /\ totalSpent + Cost[s] <= MaxPoint
    /\ balance' = balance - Cost[s]
    /\ totalSpent' = totalSpent + Cost[s]
    /\ ledger' = Append(ledger, [type |-> "SPEND", ref |-> s,
                                 pointDelta |-> -Cost[s], balanceAfter |-> balance'])
    /\ charged' = charged \cup {s}
    /\ UNCHANGED <<order, totalTopup, delivery, bounds>>

-----------------------------------------------------------------------------
(* A webhook request and its processing.                                   *)

\* The controller answers 200 at once and processes in the background.  A
\* transfer that quotes an order quotes one the employer has placed.
HandleTopupWebhook(d) ==
    /\ stage[d] = "unsent"
    /\ RoomForRequest
    /\ \E p \in Payload :
          /\ p.order # NoOrder => order[p.order] # "absent"
          /\ payload' = [payload EXCEPT ![d] = p]
    /\ stage' = [stage EXCEPT ![d] = "reading"]
    /\ UNCHANGED <<order, walletRow, charged, via, attempts, snapshot, bounds>>

OrderOf(d) == payload[d].order
QualifiesTwice(d) ==                                              \* mutant
    /\ OrderOf(d) # NoOrder
    /\ payload[d].enough
Qualifies(d) ==
    /\ OrderOf(d) # NoOrder
    /\ order[OrderOf(d)] # "COMPLETED"
    /\ payload[d].enough

\* The order row is read outside any transaction and judged.
ReadOrder(d) ==
    /\ stage[d] = "reading"
    /\ stage' = [stage EXCEPT ![d] = IF Qualifies(d) THEN "checked" ELSE "done"]
    /\ UNCHANGED <<order, walletRow, charged, payload, via, attempts, snapshot, bounds>>

\* The transaction opens and reads the wallet (an upsert that updates nothing).
ReadWallet(d) ==
    /\ stage[d] = "checked"
    /\ stage' = [stage EXCEPT ![d] = "txOpen"]
    /\ snapshot' = [snapshot EXCEPT ![d] = balance]
    /\ UNCHANGED <<order, walletRow, charged, payload, via, attempts, bounds>>

NextBalance(d) == snapshot[d] + Amount[OrderOf(d)]
FitsColumn(d) == NextBalance(d) <= MaxPoint /\ totalTopup + Amount[OrderOf(d)] <= MaxPoint

NextTotalForgotten(d) == totalTopup                               \* mutant
NextTotal(d) == totalTopup + Amount[OrderOf(d)]
OrdersUntouched(d) == order                                       \* mutant
OrdersAfterCredit(d) == [order EXCEPT ![OrderOf(d)] = "COMPLETED"]
TopupRowStale(d) == [type |-> "TOPUP", ref |-> OrderOf(d),        \* mutant
                     pointDelta |-> Amount[OrderOf(d)], balanceAfter |-> snapshot[d]]
TopupRow(d) == [type |-> "TOPUP", ref |-> OrderOf(d),
                pointDelta |-> Amount[OrderOf(d)], balanceAfter |-> NextBalance(d)]

\* The transaction's writes: the balance is written as an absolute value
\* computed from the snapshot, the order's status without a condition.
CommitTopup(d) ==
    /\ stage[d] = "txOpen"
    /\ FitsColumn(d)
    /\ order' = OrdersAfterCredit(d)
    /\ balance' = NextBalance(d)
    /\ totalTopup' = NextTotal(d)
    /\ ledger' = Append(ledger, TopupRow(d))
    /\ stage' = [stage EXCEPT ![d] = "done"]
    /\ snapshot' = [snapshot EXCEPT ![d] = 0]
    /\ UNCHANGED <<totalSpent, charged, payload, via, attempts, bounds>>

-----------------------------------------------------------------------------
(* Failure of a run, the fallback queue, crashes.                          *)

ExhaustedLate(d) == attempts[d] + 1 > JobAttempts                 \* mutant
ExhaustedEarly(d) == attempts[d] + 2 >= JobAttempts               \* mutant
Exhausted(d) == attempts[d] + 1 >= JobAttempts

ErrorSwallowed(d) == {"done"}                                     \* mutant
AfterDirectError(d) == {"waiting"} \cup (IF QueueCanFail THEN {"lost"} ELSE {})

\* A database call of the run throws; an open transaction is rolled back.  The
\* controller's catch queues a job (or loses the request when that fails too);
\* a job's attempt counts, and the job ends in the failed set when none is left.
ProcessingFails(d) ==
    /\ stage[d] \in Running
    /\ \/ /\ faults < MaxFaults
          /\ faults' = faults + 1
       \/ /\ stage[d] = "txOpen"
          /\ ~FitsColumn(d)
          /\ UNCHANGED faults
    /\ \/ /\ via[d] = "direct"
          /\ \E next \in AfterDirectError(d) : stage' = [stage EXCEPT ![d] = next]
          /\ UNCHANGED attempts
       \/ /\ via[d] = "job"
          /\ attempts' = [attempts EXCEPT ![d] = @ + 1]
          /\ stage' = [stage EXCEPT ![d] = IF Exhausted(d) THEN "failed" ELSE "waiting"]
    /\ via' = [via EXCEPT ![d] = "job"]
    /\ snapshot' = [snapshot EXCEPT ![d] = 0]
    /\ UNCHANGED <<order, walletRow, charged, payload, crashes>>

ActiveJob == {d \in InFlight : via[d] = "job"}
JobReadyAlone(d) == /\ ActiveJob = {}                             \* mutant
                    /\ \A e \in Deliveries \ {d} : stage[e] # "waiting"
JobReady(d) == ActiveJob = {}

\* The queue's worker takes one job at a time.
StartJob(d) ==
    /\ stage[d] = "waiting"
    /\ RoomForRequest
    /\ JobReady(d)
    /\ stage' = [stage EXCEPT ![d] = "reading"]
    /\ UNCHANGED <<order, walletRow, charged, payload, via, attempts, snapshot, bounds>>

\* The server dies: transactions roll back, a request processed by the
\* controller is gone (it was acknowledged), Bull hands a stalled job out again.
Crash ==
    /\ crashes < MaxCrashes
    /\ InFlight # {}
    /\ crashes' = crashes + 1
    /\ stage' = [d \in Deliveries |->
                    IF d \notin InFlight THEN stage[d]
                    ELSE IF via[d] = "job" THEN "waiting" ELSE "lost"]
    /\ snapshot' = [d \in Deliveries |-> 0]
    /\ UNCHANGED <<order, walletRow, charged, payload, via, attempts, faults>>

-----------------------------------------------------------------------------
Process(d) == ReadOrder(d) \/ ReadWallet(d) \/ CommitTopup(d) \/ ProcessingFails(d)

Next ==
    \/ \E o \in Orders : CreateTopupCheckout(o)
    \/ \E s \in Spends : DeductPoints(s)
    \/ \E d \in Deliveries :
          \/ HandleTopupWebhook(d)
          \/ ReadOrder(d)
          \/ ReadWallet(d)
          \/ CommitTopup(d)
          \/ ProcessingFails(d)
          \/ StartJob(d)
    \/ Crash

\* A started handler runs on (each database call answers or throws) and the
\* queue's worker keeps taking jobs.  Employers and SePay owe nothing.
Fairness == \A d \in Deliveries : WF_vars(Process(d)) /\ WF_vars(StartJob(d))

Spec == Init /\ [][Next]_vars
FairSpec == Spec /\ Fairness

-----------------------------------------------------------------------------
(* Properties that hold whatever runs concurrently.                        *)

\* Every variable stays in its domain; in particular a job is never tried more
\* than JobAttempts times (payment-queue.service.ts, "attempts: 5").
TypeOK ==
    /\ order \in [Orders -> {"absent", "PENDING", "COMPLETED"}]
    /\ balance \in Int /\ totalTopup \in Nat /\ totalSpent \in Nat
    /\ ledger \in Seq(LedgerRow)
    /\ charged \in SUBSET Spends
    /\ payload \in [Deliveries -> Payload]
    /\ stage \in [Deliveries -> Stage]
    /\ via \in [Deliveries -> {"direct", "job"}]
    /\ attempts \in [Deliveries -> 0..JobAttempts]
    /\ snapshot \in [Deliveries -> Int]
    /\ faults \in 0..MaxFaults
    /\ crashes \in 0..MaxCrashes

\* The balance never goes below zero, although a top-up overwrites it with a
\* value computed before other deductions (wallet.service.ts, the absolute
\* write of nextBalance against the guarded UPDATE of deductPoints).
NeverOverdrawn == balance >= 0

\* However top-ups and deductions interleave, the wallet never holds more
\* points than were credited to it in all.
PointsAreFunded == balance <= totalTopup

Credits(o) == {i \in DOMAIN ledger : ledger[i].type = "TOPUP" /\ ledger[i].ref = o}

\* An order is COMPLETED exactly when the ledger shows its credit: the status,
\* the balance and the ledger row of a top-up commit together or not at all,
\* through failures, retries and crashes.
CompletedIffCredited == \A o \in Orders : order[o] = "COMPLETED" <=> Credits(o) # {}

\* A webhook that paid an order in full is only dismissed as processed when
\* that order is credited: no retry, skip or early return forgets the money.
DoneMeansCredited ==
    \A d \in Deliveries :
        (stage[d] = "done" /\ OrderOf(d) # NoOrder /\ payload[d].enough)
            => order[OrderOf(d)] = "COMPLETED"

\* Every webhook the server accepted is eventually processed, parked in the
\* failed set, or lost with the process: no job waits forever.
WebhookSettles ==
    \A d \in Deliveries : (stage[d] \in Running \cup {"waiting"}) ~> (stage[d] \in Settled)

-----------------------------------------------------------------------------
(* Properties the code has only while the requests on a wallet do not      *)
(* overlap (MaxConcurrent = 1).                                            *)

\* An order's points are added once, however often SePay repeats its webhook
\* (wallet.service.spec.ts: "ignores already completed order (idempotency)").
CreditedOnce == \A o \in Orders : \A i, j \in Credits(o) : i = j

\* Points taken by a purchase stay taken: no top-up hands them back
\* (wallet.service.ts: "Atomic deduction - single UPDATE with WHERE prevents
\* race conditions").
SpentPointsStaySpent == balance + totalSpent <= totalTopup

\* The transaction history an employer reads adds up: each row's balanceAfter
\* is the previous row's plus its own pointDelta, and the last is the balance.
LedgerAddsUp ==
    /\ \A i \in DOMAIN ledger :
          ledger[i].balanceAfter =
              ledger[i].pointDelta + (IF i = 1 THEN 0 ELSE ledger[i - 1].balanceAfter)
    /\ balance = IF ledger = <<>> THEN 0 ELSE ledger[Len(ledger)].balanceAfter

\* The wallet is a PointAccount.
Account == INSTANCE PointAccount WITH
    points <- balance,
    credited <- {o \in Orders : order[o] = "COMPLETED"},
    spent <- charged
ImplementsPointAccount == Account!Spec

\* A payment is credited despite up to JobAttempts database failures: the
\* controller's own try and all attempts of the job but one may fail (needs
\* MaxFaults <= JobAttempts, no crash, and a queue that takes the job).
RetriesCredit ==
    \A d \in Deliveries, o \in Orders :
        (stage[d] = "reading" /\ OrderOf(d) = o /\ Qualifies(d)) ~> (order[o] = "COMPLETED")
=============================================================================
