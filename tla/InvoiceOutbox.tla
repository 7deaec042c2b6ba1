--------------------------- MODULE InvoiceOutbox ---------------------------
(***************************************************************************)
(* The durable outbox (services/outbox.ts, services/outboxRepository.ts)   *)
(* as the automatic sales invoice uses it (services/salesInvoiceOutbox.ts, *)
(* services/erpSalesFinanceBridge.ts): one order, its one outbox event and *)
(* its draft invoice.  Dispatch runs are started by the scheduler and by   *)
(* the best-effort post-commit calls; each database call of a run is one   *)
(* step, so runs, administrators and lock releases interleave between      *)
(* them.  Wall-clock time is two facts about the row: its lock is older    *)
(* than the stale threshold, its available_at has passed.                  *)
(***************************************************************************)
EXTENDS Naturals, FiniteSets

CONSTANTS
  Run,         \* dispatch runs (one call of dispatchEvent each, reused)
  Admin,       \* concurrent requests of the administrator's retry route
  MaxAttempts, \* max_attempts of the event (5 in the code)
  MaxFaults,   \* bound: crashes and database errors that abandon a run
  MaxRetries,  \* bound: reactivations of a dead-lettered event
  MaxSlow,     \* bound: locks that go stale under a run that still works
  NoRow        \* the event has not been enqueued

ASSUME MaxAttemptsAssumption == MaxAttempts \in Nat \ {0}
ASSUME BoundsAssumption ==
  MaxFaults \in Nat /\ MaxRetries \in Nat /\ MaxSlow \in Nat

VARIABLES
  paid,     \* orders.payment_status is Paid
  linked,   \* marketplace_orders holds a row of the order
  row,      \* the row of outbox_events, or NoRow
  log,      \* outbox_attempts: [epoch, number, result]
  drafts,   \* number of draft sales invoices of the order
  totals,   \* applyInvoiceCalculation has filled the draft's amounts
  run,      \* the local state of each dispatch run
  admin,    \* where each retry request is
  faults,   \* abandoned runs so far
  slow,     \* locks that went stale under a live run so far
  epoch     \* reactivations so far

order  == <<paid, linked>>
draft  == <<drafts, totals>>
bounds == <<faults, slow, epoch>>
vars   == <<order, row, log, draft, run, admin, bounds>>

Status  == {"Pending", "Processing", "RetryPending", "Succeeded", "DeadLetter"}
Result  == {"Succeeded", "Failed", "Permanent"}
Place   == {"idle", "read", "mark", "order", "insert", "calculate",
            "append", "succeed", "caught", "settle"}
Entry   == [epoch : Nat, number : Nat, result : Result]
Event   == [status : Status, attempts : Nat, locked : BOOLEAN,
            stale : BOOLEAN, due : BOOLEAN]
Attempt == [at : Place, count : Nat, permanent : BOOLEAN]

ASSUME NoRowAssumption == NoRow \notin Event

Resting == [at |-> "idle", count |-> 0, permanent |-> FALSE]
Fresh   == [status |-> "Pending", attempts |-> 0, locked |-> FALSE,
            stale |-> FALSE, due |-> TRUE]

\* d is between its claim and its return.
Live(d) == run[d].at # "idle"

Goto(d, place) == run' = [run EXCEPT ![d].at = place]
-----------------------------------------------------------------------------
(***************************************************************************)
(* The order.  A paid order without an event is one that was paid before   *)
(* the enqueue was wired to payment.                                       *)
(***************************************************************************)
Init ==
  /\ paid \in BOOLEAN
  /\ linked \in BOOLEAN
  /\ row = NoRow
  /\ log = {}
  /\ drafts = 0
  /\ totals = FALSE
  /\ run = [d \in Run |-> Resting]
  /\ admin = [a \in Admin |-> "idle"]
  /\ faults = 0
  /\ slow = 0
  /\ epoch = 0

\* enqueueSalesInvoiceDraftForPaidOrderSync: check, then insert under the
\* unique idempotency key.
Enqueued == IF row = NoRow THEN Fresh ELSE row

\* The payment and its event are one transaction.
Pay ==
  /\ ~paid
  /\ paid' = TRUE
  /\ row' = Enqueued
  /\ UNCHANGED <<linked, log, draft, run, admin, bounds>>

\* The administrator gives the order another payment status.
Unpay ==
  /\ paid
  /\ paid' = FALSE
  /\ UNCHANGED <<linked, row, log, draft, run, admin, bounds>>
-----------------------------------------------------------------------------
(***************************************************************************)
(* The dispatcher.                                                         *)
(***************************************************************************)
\* Mutants: the claim predicate without the status, without the lock.
ClaimableAnyStatus == row # NoRow /\ row.due /\ ~row.locked
ClaimableLocked ==
  row # NoRow /\ row.due /\ row.status \notin {"Succeeded", "DeadLetter"}

Claimable == /\ row # NoRow
             /\ row.status \in {"Pending", "RetryPending"}
             /\ row.due
             /\ ~row.locked

\* claimNextBatch and claimById share one predicate and one update.
Claim(d) ==
  /\ ~Live(d)
  /\ Claimable
  /\ row' = [row EXCEPT !.status = "Processing", !.locked = TRUE,
                        !.stale = FALSE]
  /\ Goto(d, "read")
  /\ UNCHANGED <<order, log, draft, admin, bounds>>

\* getById: the run keeps this copy of attempt_count to its end.
Read(d) ==
  /\ run[d].at = "read"
  /\ run' = [run EXCEPT ![d] = [at |-> "mark", count |-> row.attempts,
                                permanent |-> FALSE]]
  /\ UNCHANGED <<order, row, log, draft, admin, bounds>>

Incremented == row.attempts + 1

\* markProcessing is unconditional.
MarkProcessing(d) ==
  /\ run[d].at = "mark"
  /\ row' = [row EXCEPT !.status = "Processing", !.locked = TRUE,
                        !.stale = FALSE, !.attempts = Incremented]
  /\ Goto(d, "order")
  /\ UNCHANGED <<order, log, draft, admin, bounds>>

\* The handler reads the order, its marketplace link and its draft.
ReadOrder(d) ==
  /\ run[d].at = "order"
  /\ \/ /\ ~paid
        /\ run' = [run EXCEPT ![d].at = "caught", ![d].permanent = TRUE]
     \/ /\ paid
        /\ linked \/ drafts > 0
        /\ Goto(d, "append")
     \/ /\ paid
        /\ ~linked
        /\ drafts = 0
        /\ Goto(d, "insert")
  /\ UNCHANGED <<order, row, log, draft, admin, bounds>>

\* Mutant: without the unique index.
NoKey == FALSE

KeyHeld == drafts > 0

\* The draft, its lines and its event in one transaction under the unique
\* sales_invoice_order_key; a collision returns the draft that is there.
InsertDraft(d) ==
  /\ run[d].at = "insert"
  /\ \/ /\ ~KeyHeld
        /\ drafts' = drafts + 1
        /\ Goto(d, "calculate")
     \/ /\ KeyHeld
        /\ Goto(d, "append")
        /\ UNCHANGED drafts
  /\ UNCHANGED <<order, row, log, totals, admin, bounds>>

\* applyInvoiceCalculation runs after that transaction.
Calculate(d) ==
  /\ run[d].at = "calculate"
  /\ totals' = TRUE
  /\ Goto(d, "append")
  /\ UNCHANGED <<order, row, log, drafts, admin, bounds>>

\* Mutant: the handler swallows its error.
ThrowSwallowed(d) ==
  /\ run[d].at \in {"order", "insert", "calculate", "append", "succeed"}
  /\ Goto(d, "append")
  /\ UNCHANGED <<order, row, log, draft, admin, bounds>>

\* Any call inside the try may throw a retryable error.
Throw(d) ==
  /\ run[d].at \in {"order", "insert", "calculate", "append", "succeed"}
  /\ Goto(d, "caught")
  /\ UNCHANGED <<order, row, log, draft, admin, bounds>>

Logged(d, result) ==
  [epoch |-> epoch, number |-> run[d].count + 1, result |-> result]

AppendSucceeded(d) ==
  /\ run[d].at = "append"
  /\ log' = log \union {Logged(d, "Succeeded")}
  /\ Goto(d, "succeed")
  /\ UNCHANGED <<order, row, draft, admin, bounds>>

\* markSucceeded, unconditional.
MarkSucceeded(d) ==
  /\ run[d].at = "succeed"
  /\ row' = [row EXCEPT !.status = "Succeeded", !.locked = FALSE,
                        !.stale = FALSE]
  /\ run' = [run EXCEPT ![d] = Resting]
  /\ UNCHANGED <<order, log, draft, admin, bounds>>

\* The catch block first records the failed attempt.
FailedResult(d) == IF run[d].permanent THEN "Permanent" ELSE "Failed"

AppendFailed(d) ==
  /\ run[d].at = "caught"
  /\ log' = log \union {Logged(d, FailedResult(d))}
  /\ Goto(d, "settle")
  /\ UNCHANGED <<order, row, draft, admin, bounds>>

\* markDeadLetter or markRetryPending, decided on the run's own copy of the
\* count and unconditional on the row.
\* Mutant: off by one.
IsDeadEarly(d) == run[d].permanent \/ run[d].count + 2 >= MaxAttempts

GivenUp   == "DeadLetter"
IsDead(d) == run[d].permanent \/ run[d].count + 1 >= MaxAttempts

Settle(d) ==
  /\ run[d].at = "settle"
  /\ row' = IF IsDead(d)
            THEN [row EXCEPT !.status = GivenUp, !.locked = FALSE,
                             !.stale = FALSE]
            ELSE [row EXCEPT !.status = "RetryPending", !.locked = FALSE,
                             !.stale = FALSE, !.due = FALSE]
  /\ run' = [run EXCEPT ![d] = Resting]
  /\ UNCHANGED <<order, log, draft, admin, bounds>>

\* The process dies, or a database call outside the try throws: the run ends
\* and leaves the row as it is.
Abandon(d) ==
  /\ Live(d)
  /\ faults < MaxFaults
  /\ faults' = faults + 1
  /\ run' = [run EXCEPT ![d] = Resting]
  /\ UNCHANGED <<order, row, log, draft, admin, slow, epoch>>

\* Mutant: only the lock is cleared.
LockCleared == [row EXCEPT !.locked = FALSE, !.stale = FALSE]

Released ==
  [row EXCEPT !.status = "RetryPending", !.locked = FALSE, !.stale = FALSE]

\* releaseStaleLocks, by the dispatcher of any domain: not scoped by type.
ReleaseStaleLocks ==
  /\ row # NoRow
  /\ row.status = "Processing"
  /\ row.stale
  /\ row' = Released
  /\ UNCHANGED <<order, log, draft, run, admin, bounds>>
-----------------------------------------------------------------------------
(***************************************************************************)
(* Time.                                                                   *)
(***************************************************************************)
LockAges ==
  /\ row # NoRow
  /\ row.locked
  /\ ~row.stale
  /\ row' = [row EXCEPT !.stale = TRUE]
  /\ \/ /\ \A d \in Run : ~Live(d)
        /\ UNCHANGED slow
     \/ /\ \E d \in Run : Live(d)
        /\ slow < MaxSlow
        /\ slow' = slow + 1
  /\ UNCHANGED <<order, log, draft, run, admin, faults, epoch>>

BecomeDue ==
  /\ row # NoRow
  /\ ~row.due
  /\ row' = [row EXCEPT !.due = TRUE]
  /\ UNCHANGED <<order, log, draft, run, admin, bounds>>
-----------------------------------------------------------------------------
(***************************************************************************)
(* retrySalesInvoiceDraftForOrder: the reads of a retry request, then its  *)
(* write, unconditional on the row it read.                                *)
(***************************************************************************)
RetryReads(a) ==
  /\ admin[a] = "idle"
  /\ drafts = 0
  /\ paid
  /\ ~linked
  /\ \/ row = NoRow
     \/ row # NoRow /\ row.status = "DeadLetter"
  /\ admin' = [admin EXCEPT ![a] = IF row = NoRow THEN "enqueue"
                                                  ELSE "reactivate"]
  /\ UNCHANGED <<order, row, log, draft, run, bounds>>

RetryEnqueues(a) ==
  /\ admin[a] = "enqueue"
  /\ row' = Enqueued
  /\ admin' = [admin EXCEPT ![a] = "idle"]
  /\ UNCHANGED <<order, log, draft, run, bounds>>

Reactivate(a) ==
  /\ admin[a] = "reactivate"
  /\ epoch < MaxRetries
  /\ epoch' = epoch + 1
  /\ row' = Fresh
  /\ admin' = [admin EXCEPT ![a] = "idle"]
  /\ UNCHANGED <<order, log, draft, run, faults, slow>>
-----------------------------------------------------------------------------
Dispatch(d) ==
  \/ Read(d)          \/ MarkProcessing(d)  \/ ReadOrder(d)
  \/ InsertDraft(d)   \/ Calculate(d)       \/ Throw(d)
  \/ AppendSucceeded(d) \/ MarkSucceeded(d)
  \/ AppendFailed(d)  \/ Settle(d)

Next ==
  \/ Pay
  \/ Unpay
  \/ \E d \in Run : Claim(d) \/ Dispatch(d) \/ Abandon(d)
  \/ ReleaseStaleLocks
  \/ LockAges
  \/ BecomeDue
  \/ \E a \in Admin : RetryReads(a) \/ RetryEnqueues(a) \/ Reactivate(a)

Spec == Init /\ [][Next]_vars

(***************************************************************************)
(* The hourly scheduler releases and claims; a run that is not abandoned   *)
(* returns; time passes.  Payments, administrators, errors and crashes are *)
(* under no obligation.                                                    *)
(***************************************************************************)
Fairness ==
  /\ WF_vars(\E d \in Run : Claim(d))
  /\ \A d \in Run : WF_vars(Dispatch(d))
  /\ WF_vars(ReleaseStaleLocks)
  /\ WF_vars(LockAges)
  /\ WF_vars(BecomeDue)

FairSpec == Spec /\ Fairness
-----------------------------------------------------------------------------
(***************************************************************************)
(* Properties.                                                             *)
(***************************************************************************)
TypeOK ==
  /\ paid \in BOOLEAN
  /\ linked \in BOOLEAN
  /\ row \in Event \union {NoRow}
  /\ log \subseteq Entry
  /\ drafts \in Nat
  /\ totals \in BOOLEAN
  /\ run \in [Run -> Attempt]
  /\ admin \in [Admin -> {"idle", "enqueue", "reactivate"}]
  /\ faults \in 0..MaxFaults
  /\ slow \in 0..MaxSlow
  /\ epoch \in 0..MaxRetries

\* One run at most works on the event, and that event stays locked.
Exclusive ==
  \A d \in Run : Live(d) =>
    /\ row # NoRow
    /\ row.status = "Processing"
    /\ row.locked
    /\ \A o \in Run \ {d} : ~Live(o)

\* No claim, lock release or retry ever lets two runs work on the event at
\* once, until a run outlives the five-minute threshold: what the claim
\* predicate and the threshold are for.  Needs one administrator at a time.
OneDispatch == slow = 0 => Exclusive

\* However often and however concurrently the event is dispatched, the order
\* gets one draft: the lookup may be stale, the unique key decides.
AtMostOneDraft == drafts <= 1

\* An event is only ever recorded as Succeeded for an order that has its
\* draft, or that is a marketplace order and must not get one.
SucceededMeansDrafted ==
  row # NoRow /\ row.status = "Succeeded" => linked \/ drafts = 1

Justified ==
  row # NoRow /\ row.status = "DeadLetter" =>
    \/ row.attempts >= MaxAttempts
    \/ \E e \in log : e.epoch = epoch /\ e.result = "Permanent"

\* A dead letter has used up its budget, or its current activation logged an
\* order that may not be invoiced: no copy of the count that is out of date
\* gives up on an event early, until a run outlives the threshold.
DeadLetterJustified == slow = 0 => Justified

\* attempt_count survives a crash: each abandoned run buys at most one more
\* handler call, so a handler that kills its process is not called forever
\* for want of counting.
AttemptsBounded ==
  slow = 0 /\ row # NoRow => row.attempts <= MaxAttempts + faults

\* No failure, release or retry takes an event out of Succeeded, until a run
\* outlives the threshold and reports late.
SucceededIsFinal ==
  [][slow' = 0 /\ row # NoRow /\ row.status = "Succeeded" => row'.status = "Succeeded"]_vars

\* Every enqueued event ends as Succeeded or as a dead letter: the scheduled
\* sweep recovers crashes at every point (app.ts, salesInvoiceOutbox.ts).
Converges ==
  row # NoRow ~> row # NoRow /\ row.status \in {"Succeeded", "DeadLetter"}

\* salesInvoiceOutbox.ts says an event is "never a silent, unrecoverable
\* failure": an event that Succeeded would then have left a complete draft.
SucceededIsComplete ==
  row # NoRow /\ row.status = "Succeeded" /\ ~linked => totals
-----------------------------------------------------------------------------
(***************************************************************************)
(* The inductive invariant.                                                *)
(***************************************************************************)
Past(d) == run[d].at \notin {"idle", "read", "mark"}

\* Holds whatever the timing and however many administrators: the unique key,
\* and the order of the run's own steps.
DraftInv ==
  /\ drafts <= 1
  /\ \A d \in Run :
       /\ Live(d) => row # NoRow
       /\ run[d].at = "calculate" => drafts = 1
       /\ run[d].at \in {"append", "succeed"} => linked \/ drafts = 1
  /\ \A a \in Admin : admin[a] = "reactivate" => row # NoRow
  /\ row # NoRow /\ row.status = "Succeeded" => linked \/ drafts = 1

\* The lock is a mutual exclusion as long as only dead locks go stale.
SlotInv ==
  /\ Exclusive
  /\ row # NoRow =>
       /\ row.stale => \A d \in Run : ~Live(d)
       /\ row.locked <=> row.status = "Processing"
       /\ \A a \in Admin : admin[a] = "reactivate" => row.status = "DeadLetter"

\* The run's copy of the count, before and after markProcessing, and how far
\* the persisted count may be ahead of the budget.
CountInv ==
  /\ \A d \in Run :
       /\ run[d].at = "mark" => run[d].count = row.attempts
       /\ Past(d) => run[d].count + 1 = row.attempts
       /\ run[d].at = "settle" => Logged(d, FailedResult(d)) \in log
  /\ row # NoRow =>
       /\ row.attempts <= MaxAttempts + faults
       /\ (row.status \in {"Pending", "RetryPending", "Processing"}
            /\ \A d \in Run : ~Past(d)) => row.attempts < MaxAttempts + faults
  /\ Justified

IInv == TypeOK /\ DraftInv /\ (slow = 0 => SlotInv /\ CountInv)
=============================================================================
