------------------------------- MODULE Refund -------------------------------
(***************************************************************************)
(* The refunds of one order (use-cases/refund/useCases.ts), paid through a *)
(* marketplace by the background job refund-submit:<refund>, so that the   *)
(* rows of JobQueue are the jobs of the refunds and this module gives the  *)
(* queue's executor its body.  A unit of work is one synchronous SQLite    *)
(* transaction, hence one step.  What a request reads before its unit of   *)
(* work is awaited: the balance is checked in a step of its own, and other *)
(* requests may come between the check and the row that relies on it.  The *)
(* other requests read their row again inside the unit of work.  The call  *)
(* to the marketplace interleaves with everything else.                    *)
(***************************************************************************)
EXTENDS JobQueue

CONSTANTS
  Total,   \* what the order was paid, in the smallest unit
  MaxAsks  \* bound: times one refund is asked for

ASSUME RefundAssumption ==
  /\ Total \in Nat \ {0}
  /\ MaxAsks \in Nat
  /\ IsFiniteSet(Job)

VARIABLES
  refund,    \* the rows of refunds
  checks,    \* per refund: balance checks of requests yet to create it
  raced,     \* refunds created after another one took from the balance checked
  entries,   \* refunds with a SuccessfulRefund finance entry
  call,      \* the request a run has open at the marketplace
  asked,     \* times a refund was made Pending
  paid       \* times the marketplace has paid a refund

requests == <<checks, raced>>
books  == <<refund, entries, asked, paid, requests>>
vars   == <<queue, books, call>>

RefundStatus == {"draft", "pending", "processing", "succeeded", "failed",
                 "cancelled"}
RefundRow    == [status : RefundStatus, amount : 1 .. Total, external : BOOLEAN]
Check        == [amount : 1 .. Total, stale : BOOLEAN]
NoCall       == [open |-> FALSE, paid |-> FALSE]

ASSUME NoRefundAssumption == None \notin RefundRow

In(r, S) == refund[r] # None /\ refund[r].status \in S

\* A sum of amounts, counted in the smallest unit.
Units(S) == {u \in S \X (1 .. Total) : u[2] <= refund[u[1]].amount}
SumOf(S) == Cardinality(Units(S))

\* Mutant: what is being paid is not reserved.
ReservedEarly == {"draft", "pending"}

Refunded == {"succeeded"}
Reserved == {"draft", "pending", "processing"}

\* calculateMaximumRefundUseCase; there is no payment provider to ask.
Refundable ==
  LET held == SumOf({r \in Job : In(r, Refunded \union Reserved)}) IN
  IF held < Total THEN Total - held ELSE 0
-----------------------------------------------------------------------------
(***************************************************************************)
(* The administrator's requests.                                           *)
(***************************************************************************)
RefundInit ==
  /\ QueueInit
  /\ refund = [r \in Job |-> None]
  /\ checks = [r \in Job |-> {}]
  /\ raced = {}
  /\ entries = {}
  /\ call = [w \in Worker |-> NoCall]
  /\ asked = [r \in Job |-> 0]
  /\ paid = [r \in Job |-> 0]

\* Mutant: the entry of a recorded refund posted afterwards, if at all.
PostedLater(r, status) == entries

\* The finance entry of a refund recorded as paid by hand.
Posted(r, status) == IF status = "succeeded" THEN entries \union {r} ELSE entries

\* createRefundUseCase with a new key, outside the unit of work: the amount
\* fits the balance there is now.
CheckBalance(r, amount) ==
  /\ refund[r] = None
  /\ amount <= Refundable
  /\ checks' = [checks EXCEPT ![r] = @ \union {[amount |-> amount, stale |-> FALSE]}]
  /\ UNCHANGED <<queue, refund, entries, call, asked, paid, raced>>

\* The unit of work looks for the key again, not at the balance; row and entry
\* are one transaction.  A request with the same key finds the row and changes
\* nothing; the checks of other requests are of a balance that is gone.
Create(r, c, status) ==
  /\ c \in checks[r]
  /\ refund[r] = None
  /\ refund' = [refund EXCEPT ![r] = [status |-> status, amount |-> c.amount,
                                      external |-> FALSE]]
  /\ entries' = Posted(r, status)
  /\ checks' = [q \in Job |-> IF q = r THEN {}
                              ELSE {[d EXCEPT !.stale = TRUE] : d \in checks[q]}]
  /\ raced' = IF c.stale THEN raced \union {r} ELSE raced
  /\ UNCHANGED <<queue, call, asked, paid>>

\* enqueueRefundExecution: enqueueJob returns an existing row as it is.
EnqueueRefund(r) == IF job[r] = None THEN Enqueue(r) ELSE UNCHANGED queue

\* Submit and retry.  The job follows the commit; when that fails, or the
\* process dies in between, the refund stays Pending without it.
Ask(r, allowed) ==
  /\ In(r, allowed)
  /\ In(r, {"pending"}) \/ asked[r] < MaxAsks
  /\ refund' = [refund EXCEPT ![r].status = "pending"]
  /\ asked' = [asked EXCEPT ![r] = IF In(r, {"pending"}) THEN @ ELSE @ + 1]
  /\ EnqueueRefund(r) \/ UNCHANGED queue
  /\ UNCHANGED <<entries, call, paid, requests>>
Submit(r) == Ask(r, {"draft", "pending", "failed"})
Retry(r)  == Ask(r, {"failed"})

\* cancelRefundUseCase: cancelRefundExecution does nothing, the job stays.
Cancel(r) ==
  /\ In(r, {"draft", "pending", "failed"})
  /\ refund' = [refund EXCEPT ![r].status = "cancelled"]
  /\ UNCHANGED <<queue, entries, call, asked, paid, requests>>
-----------------------------------------------------------------------------
(***************************************************************************)
(* executeRefundUseCase, the body of the job.                              *)
(***************************************************************************)
Subject(w) == hand[w].copy.job
Begins(w)  == hand[w].at = "work" /\ ~call[w].open

Calling(w, r) == call[w].open /\ Subject(w) = r

\* Mutants: a failed refund is called again; a call in flight looks dead.
CallableFailed(r) == In(r, {"pending", "failed"})
StaleAtOnce(r)    == In(r, {"processing"})

\* What the claim transaction makes of the row it finds.
Done(r)     == In(r, {"succeeded"}) \/ refund[r].external
Callable(r) == In(r, {"pending"})

\* Processing for 60 seconds: a call ends within 30 (MARKETPLACE_REQUEST_
\* TIMEOUT_MS), so the run that made it is gone.
Stale(r) == In(r, {"processing"}) /\ \A w \in Worker : ~Calling(w, r)

\* Paid already: the job is complete.
FindDone(w) ==
  /\ Begins(w) /\ Done(Subject(w))
  /\ Complete(w)
  /\ UNCHANGED <<books, call>>

\* Neither pending nor, as far as anyone can tell, abandoned: an error the
\* queue takes for retryable.
Refuse(w) ==
  /\ Begins(w)
  /\ LET r == Subject(w) IN ~Done(r) /\ ~Callable(r)
  /\ Raise(w, TRUE)
  /\ UNCHANGED <<books, call>>

\* Whether the earlier call was paid is unknown: failed, and no new call.
Recover(w) ==
  /\ Begins(w)
  /\ LET r == Subject(w) IN
       /\ ~Done(r) /\ Stale(r)
       /\ refund' = [refund EXCEPT ![r].status = "failed"]
  /\ Raise(w, TRUE)
  /\ UNCHANGED <<entries, asked, paid, call, requests>>

\* The claim and the request leave together; whether the marketplace pays is
\* decided there, its answer may still be lost.
Call(w) ==
  /\ Begins(w)
  /\ LET r == Subject(w) IN
       /\ ~Done(r) /\ Callable(r)
       /\ refund' = [refund EXCEPT ![r].status = "processing"]
       /\ \E pays \in BOOLEAN :
            /\ paid' = [paid EXCEPT ![r] = IF pays THEN @ + 1 ELSE @]
            /\ call' = [call EXCEPT ![w] = [open |-> TRUE, paid |-> pays]]
  /\ UNCHANGED <<queue, entries, asked, requests>>

\* The answer says paid: row and entry in one transaction.
Succeed(w) ==
  /\ call[w].open /\ call[w].paid
  /\ LET r == Subject(w) IN
       /\ refund' = IF In(r, {"succeeded"}) THEN refund
                    ELSE [refund EXCEPT ![r].status = "succeeded",
                                        ![r].external = TRUE]
       /\ entries' = IF In(r, {"succeeded"}) THEN entries ELSE entries \union {r}
  /\ Complete(w)
  /\ call' = [call EXCEPT ![w] = NoCall]
  /\ UNCHANGED <<asked, paid, requests>>

\* A refusal, a timeout, a lost answer, or a transaction that did not take
\* the good one: failed, whatever the row says by now.
Fail(w, retryable) ==
  /\ call[w].open
  /\ refund' = [refund EXCEPT ![Subject(w)].status = "failed"]
  /\ Raise(w, retryable)
  /\ call' = [call EXCEPT ![w] = NoCall]
  /\ UNCHANGED <<entries, asked, paid, requests>>

\* The failure cannot be recorded either: the refund stays Processing.
FailUnrecorded(w) ==
  /\ call[w].open
  /\ Raise(w, TRUE)
  /\ call' = [call EXCEPT ![w] = NoCall]
  /\ UNCHANGED books

Die(w) ==
  /\ Abort(w)
  /\ call' = [call EXCEPT ![w] = NoCall]
  /\ UNCHANGED books

\* What the queue does around the body.
QueueStep(w) ==
  /\ TakeUp(w) \/ FailRead(w) \/ FailWrite(w)
  /\ UNCHANGED <<books, call>>
ClaimBatch(w, S) == Claim(w, S) /\ UNCHANGED <<books, call>>
AdminJob(r) == (RetryJob(r) \/ CancelJob(r)) /\ UNCHANGED <<books, call>>

RunStep(w) ==
  \/ QueueStep(w) \/ FindDone(w) \/ Refuse(w) \/ Recover(w) \/ Call(w)
  \/ Succeed(w) \/ FailUnrecorded(w)
  \/ \E retryable \in BOOLEAN : Fail(w, retryable)

RefundNext ==
  \/ \E r \in Job :
       \/ \E amount \in 1 .. Total : CheckBalance(r, amount)
       \/ \E c \in checks[r], status \in {"draft", "succeeded"} :
            Create(r, c, status)
       \/ Submit(r) \/ Retry(r) \/ Cancel(r) \/ AdminJob(r)
  \/ \E w \in Worker :
       RunStep(w) \/ Die(w) \/ \E S \in SUBSET Job : ClaimBatch(w, S)

RefundSpec == RefundInit /\ [][RefundNext]_vars
-----------------------------------------------------------------------------
(***************************************************************************)
(* Properties.                                                             *)
(***************************************************************************)
RefundTypeOK ==
  /\ refund \in [Job -> RefundRow \union {None}]
  /\ checks \in [Job -> SUBSET Check]
  /\ raced \in SUBSET Job
  /\ entries \in SUBSET Job
  /\ call \in [Worker -> [open : BOOLEAN, paid : BOOLEAN]]
  /\ asked \in [Job -> Nat]
  /\ paid \in [Job -> Nat]

(* executeRefundUseCase, "never call the provider again in this same call  *)
(* - an explicit retry is required" (627): however often the queue runs    *)
(* the job, the marketplace pays a refund no more often than someone asked *)
(* for it, and not at all while the last request is unanswered.            *)
PaidOnlyWhenAsked ==
  \A r \in Job : paid[r] + (IF In(r, {"pending"}) THEN 1 ELSE 0) <= asked[r]

(* createFinanceEntrySync inside both transactions: a refund has its       *)
(* SuccessfulRefund entry exactly when it has succeeded, and one that      *)
(* succeeded at the marketplace was paid there.                            *)
BooksMatchRefunds ==
  \A r \in Job :
    /\ r \in entries <=> In(r, {"succeeded"})
    /\ refund[r] # None /\ refund[r].external => paid[r] > 0

(* executeRefundUseCase against late runs, recoveries and requests: a      *)
(* refund that has succeeded stays so, keeps its entry and is not paid     *)
(* again.                                                                  *)
SettledForGood ==
  [][\A r \in Job : In(r, {"succeeded"}) =>
       /\ refund'[r] = refund[r]
       /\ r \in entries'
       /\ paid'[r] = paid[r]]_vars

\* Refunds paid or on their way, created on a balance that was still the one
\* checked, and not brought back after a failure.
Vetted ==
  {r \in Job : /\ In(r, {"succeeded", "draft", "pending", "processing"})
              /\ r \notin raced
              /\ asked[r] <= 1}

(* calculateMaximumRefundUseCase: more is refunded and on its way than was *)
(* paid only by refunds that failed and were asked for again (retry and    *)
(* submit check no balance), or whose balance another one took between     *)
(* their check and their row; the others together fit what was paid.       *)
VettedRefundsFit == SumOf(Vetted) <= Total

(* The strengthening behind BooksMatchRefunds and SettledForGood: an open  *)
(* call is a run at work on a refund in processing, and on that one alone. *)
CallInv ==
  \A w \in Worker : call[w].open =>
    /\ hand[w].at = "work"
    /\ In(Subject(w), {"processing"})
    /\ ~refund[Subject(w)].external
    /\ call[w].paid => paid[Subject(w)] > 0
    /\ \A v \in Worker : Calling(v, Subject(w)) => v = w

(* Behind VettedRefundsFit: a refund fails only after it was asked for, so *)
(* the request that brings it back is another one ...                      *)
AskInv ==
  \A r \in Job : In(r, {"pending", "processing", "failed"}) => asked[r] > 0

(* ... and what a check has found free stays free until a row is made.     *)
RoomInv ==
  \A r \in Job : \A c \in checks[r] : c.stale \/ c.amount + SumOf(Vetted) <= Total

RefundInv ==
  /\ RefundTypeOK /\ CallInv /\ PaidOnlyWhenAsked /\ BooksMatchRefunds
  /\ AskInv /\ VettedRefundsFit /\ RoomInv
-----------------------------------------------------------------------------
(***************************************************************************)
(* The queue's fairness, and a call that ends in time.                     *)
(***************************************************************************)
RefundFairness ==
  /\ \A w \in Worker : WF_vars(RunStep(w))
  /\ \A r \in Job :
       SF_vars(\E w \in Worker, S \in SUBSET Job : r \in S /\ ClaimBatch(w, S))

RefundLiveSpec == RefundSpec /\ RefundFairness

(* retryRefundUseCase and its test (refundStaleProcessingRecoverySprint52B *)
(* .test.ts:103, "after recovery, retryRefund resumes and a later execute  *)
(* goes through the real provider only then"): a refund asked for, with    *)
(* its job requested, is carried to the marketplace.  The code breaks it:  *)
(* see findings.                                                           *)
RetriedRefundRuns ==
  \A r \in Job : In(r, {"pending"}) /\ job[r] # None ~> ~In(r, {"pending"})

(* The jobs of refunds are jobs: nothing the use cases do goes round the   *)
(* queue, so what is proved of JobQueue holds of them.                     *)
ImplementsQueue == QueueSpec
=============================================================================
