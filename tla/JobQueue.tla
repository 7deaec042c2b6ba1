------------------------------ MODULE JobQueue ------------------------------
(***************************************************************************)
(* The background job queue (services/backgroundJobs.ts).  runDueJobs      *)
(* claims a batch of due jobs in one transaction, giving each a fresh      *)
(* claim token, then executes the batch one job after the other and        *)
(* settles each under its token.  An administrator retries and cancels     *)
(* jobs without one (routes/backgroundJobs.ts).  Nothing in production     *)
(* calls recoverStaleJobs, so a claim has no expiry.                       *)
(***************************************************************************)
EXTENDS Naturals, FiniteSets

CONSTANTS
  Job,         \* idempotency keys, one row each
  Worker,      \* concurrent calls of runDueJobs, reused
  BatchSize,   \* jobs a run claims at most
  MaxAttempts, \* background_jobs.max_attempts
  MaxClaims,   \* bound: batches claimed
  MaxFaults,   \* bound: runs that die or stop on a database error
  MaxAdmin,    \* bound: retries and cancellations
  None         \* no row, no copy

ASSUME QueueAssumption ==
  /\ BatchSize \in Nat \ {0}
  /\ MaxAttempts \in Nat \ {0}
  /\ MaxClaims \in Nat /\ MaxFaults \in Nat /\ MaxAdmin \in Nat

VARIABLES
  job,     \* the rows of background_jobs
  batch,   \* the copies a run has claimed and not yet taken up
  hand,    \* the copy a run is working on
  claims,  \* batches claimed so far
  faults,  \* runs abandoned so far
  orders,  \* retries and cancellations so far
  lost     \* copies abandoned with their run

queue == <<job, batch, hand, claims, faults, orders, lost>>

Status  == {"pending", "retry_pending", "processing", "succeeded", "failed",
            "dead_letter", "cancelled"}
Waiting == {"pending", "retry_pending"}
Settled == Status \ (Waiting \union {"processing"})
Row     == [status : Status, token : Nat, attempts : Nat]
Copy    == [job : Job, token : Nat]
Place   == {"next", "work", "raised", "write"}

ASSUME NoneAssumption == None \notin Row \union Copy

AtRest == [at |-> "next", copy |-> None, count |-> 0, retryable |-> FALSE]

Is(j, S) == job[j] # None /\ job[j].status \in S

\* ownedClaim: the original token is the capability.
Owned(c) == Is(c.job, {"processing"}) /\ job[c.job].token = c.token

Busy(w)   == batch[w] # {} \/ hand[w].at # "next"
Copies(w) == batch[w] \union (IF hand[w].at = "next" THEN {} ELSE {hand[w].copy})

Released(j, status) == [job[j] EXCEPT !.status = status, !.token = 0]
-----------------------------------------------------------------------------
QueueInit ==
  /\ job = [j \in Job |-> None]
  /\ batch = [w \in Worker |-> {}]
  /\ hand = [w \in Worker |-> AtRest]
  /\ claims = 0
  /\ faults = 0
  /\ orders = 0
  /\ lost = {}

\* enqueueJob and bindJob: an insert under the unique idempotency key.
Enqueue(j) ==
  /\ job[j] = None
  /\ job' = [job EXCEPT ![j] = [status |-> "pending", token |-> 0,
                                attempts |-> 0]]
  /\ UNCHANGED <<batch, hand, claims, faults, orders, lost>>

\* Mutants: what is being processed can be claimed; retries are forgotten;
\* more rows are marked than handed out.
ClaimableBusy(j)  == Is(j, Waiting \union {"processing"})
ClaimableFresh(j) == Is(j, {"pending"})
HandedOne(S)      == {[job |-> CHOOSE j \in S : TRUE, token |-> claims + 1]}

Claimable(j) == Is(j, Waiting)

\* The row under the new claim.
Taken(j) == [job[j] EXCEPT !.status = "processing", !.token = claims + 1]

\* The copies of the rows in S, under the new token.
Handed(S) == {[job |-> j, token |-> claims + 1] : j \in S}

\* claimJobs: S is due (run_after is never modelled: any waiting job may be
\* due) and within the batch size.
Claim(w, S) ==
  /\ ~Busy(w)
  /\ S # {}
  /\ Cardinality(S) <= BatchSize
  /\ \A j \in S : Claimable(j)
  /\ claims < MaxClaims
  /\ claims' = claims + 1
  /\ job' = [j \in Job |-> IF j \in S THEN Taken(j) ELSE job[j]]
  /\ batch' = [batch EXCEPT ![w] = Handed(S)]
  /\ UNCHANGED <<hand, faults, orders, lost>>

\* executeJob begins with the ownership of the copy it was handed.
TakeUp(w) ==
  /\ hand[w].at = "next"
  /\ \E c \in batch[w] :
       /\ batch' = [batch EXCEPT ![w] = @ \ {c}]
       /\ hand' = IF Owned(c)
                  THEN [hand EXCEPT ![w].at = "work", ![w].copy = c]
                  ELSE hand
  /\ UNCHANGED <<job, claims, faults, orders, lost>>

\* completeJob: fenced by the token, silent when the claim is gone.
Complete(w) ==
  /\ hand[w].at = "work"
  /\ LET c == hand[w].copy IN
       job' = IF Owned(c)
              THEN [job EXCEPT ![c.job] = Released(c.job, "succeeded")]
              ELSE job
  /\ hand' = [hand EXCEPT ![w] = AtRest]
  /\ UNCHANGED <<batch, claims, faults, orders, lost>>

\* The executor found its claim gone and returned without a result.
Leave(w) ==
  /\ hand[w].at = "work"
  /\ ~Owned(hand[w].copy)
  /\ hand' = [hand EXCEPT ![w] = AtRest]
  /\ UNCHANGED <<job, batch, claims, faults, orders, lost>>

\* The executor threw; sanitizeError says whether that may be retried.
Raise(w, retryable) ==
  /\ hand[w].at = "work"
  /\ hand' = [hand EXCEPT ![w].at = "raised", ![w].retryable = retryable]
  /\ UNCHANGED <<job, batch, claims, faults, orders, lost>>

\* failJob, the read.
FailRead(w) ==
  /\ hand[w].at = "raised"
  /\ LET c == hand[w].copy IN
       hand' = IF Owned(c)
               THEN [hand EXCEPT ![w].at = "write",
                                 ![w].count = job[c.job].attempts]
               ELSE [hand EXCEPT ![w] = AtRest]
  /\ UNCHANGED <<job, batch, claims, faults, orders, lost>>

\* Mutant: the update by job id alone.
WritableById(c) == TRUE

Writable(c) == Owned(c)
AfterFailure(attempts, retryable) ==
  CASE ~retryable -> "failed"
    [] retryable /\ attempts < MaxAttempts -> "retry_pending"
    [] OTHER -> "dead_letter"

\* failJob, the update: ownership may have changed since the read.
FailWrite(w) ==
  /\ hand[w].at = "write"
  /\ LET c == hand[w].copy
         n == hand[w].count + 1 IN
       job' = IF Writable(c)
              THEN [job EXCEPT ![c.job] =
                      [status |-> AfterFailure(n, hand[w].retryable),
                       token |-> 0, attempts |-> n]]
              ELSE job
  /\ hand' = [hand EXCEPT ![w] = AtRest]
  /\ UNCHANGED <<batch, claims, faults, orders, lost>>

\* The process dies, or failJob itself fails on the database: the loop ends
\* and the rest of the batch stays claimed.
Abort(w) ==
  /\ Busy(w)
  /\ faults < MaxFaults
  /\ faults' = faults + 1
  /\ lost' = lost \union Copies(w)
  /\ batch' = [batch EXCEPT ![w] = {}]
  /\ hand' = [hand EXCEPT ![w] = AtRest]
  /\ UNCHANGED <<job, claims, orders>>

\* retryJob and cancelJob: by id, whatever the status and whoever owns it.
Order(j, status) ==
  /\ job[j] # None
  /\ orders < MaxAdmin
  /\ orders' = orders + 1
  /\ job' = [job EXCEPT ![j] = Released(j, status)]
  /\ UNCHANGED <<batch, hand, claims, faults, lost>>
RetryJob(j)  == Order(j, "pending")
CancelJob(j) == Order(j, "cancelled")

WorkerStep(w) ==
  \/ TakeUp(w) \/ Complete(w) \/ Leave(w)
  \/ \E retryable \in BOOLEAN : Raise(w, retryable)
  \/ FailRead(w) \/ FailWrite(w)

QueueNext ==
  \/ \E j \in Job : Enqueue(j) \/ RetryJob(j) \/ CancelJob(j)
  \/ \E w \in Worker : WorkerStep(w) \/ Abort(w) \/ \E S \in SUBSET Job : Claim(w, S)

QueueSpec == QueueInit /\ [][QueueNext]_queue
-----------------------------------------------------------------------------
(***************************************************************************)
(* Properties.                                                             *)
(***************************************************************************)
TypeOK ==
  /\ job \in [Job -> Row \union {None}]
  /\ batch \in [Worker -> SUBSET Copy]
  /\ hand \in [Worker -> [at : Place, copy : Copy \union {None}, count : Nat,
                          retryable : BOOLEAN]]
  /\ claims \in Nat /\ faults \in Nat /\ orders \in Nat
  /\ lost \in SUBSET Copy

\* The run w still has the claim on j: it may settle the job.
Holds(w, j) == \E c \in Copies(w) : c.job = j /\ Owned(c)

Working(w, j) == hand[w].at = "work" /\ hand[w].copy.job = j

(* claimJobs, ownedClaim: two runs never both have the claim on a job,     *)
(* however often it is retried, cancelled and claimed again under them.    *)
OneHolder ==
  \A j \in Job, v, w \in Worker : Holds(v, j) /\ Holds(w, j) => v = w

(* executeJob: nothing fences the work itself, yet two runs are inside one *)
(* job at once only if an administrator has intervened.                    *)
OverlapNeedsAnOrder ==
  \A j \in Job, v, w \in Worker :
    Working(v, j) /\ Working(w, j) /\ v # w => orders > 0

(* runDueJobs: a job in "processing" has a run that will settle it, unless *)
(* that run died or stopped on a database error and took its whole batch   *)
(* with it.                                                                *)
ProcessingIsHeld ==
  \A j \in Job : Is(j, {"processing"}) =>
    (\E w \in Worker : Holds(w, j)) \/ (\E c \in lost : c.job = j /\ Owned(c))

(* failJob: only a job with attempts left waits for a retry, and a dead    *)
(* letter has used them all.                                               *)
BudgetDecides ==
  \A j \in Job :
    /\ Is(j, {"retry_pending"}) => job[j].attempts < MaxAttempts
    /\ Is(j, {"dead_letter"}) => job[j].attempts >= MaxAttempts

\* Who moves a row, when it is not an administrator.
HolderSettles ==
  \A j \in Job :
    job[j]' # job[j] /\ orders' = orders =>
      /\ ~Is(j, Settled)
      /\ Is(j, {"processing"}) =>
           \E w \in Worker :
             /\ hand[w].at # "next" /\ hand[w]' = AtRest
             /\ hand[w].copy.job = j /\ Owned(hand[w].copy)

(* ownedClaim: outside the administrator's orders a job leaves             *)
(* "processing" only by the hand of the run that has the claim, and a      *)
(* settled or cancelled job does not move at all: a late result is lost.   *)
OnlyTheHolderSettles == [][HolderSettles]_queue

(* The strengthening behind OneHolder and ProcessingIsHeld: tokens are     *)
(* fresh, a row has one exactly while it is processed, and a copy is in    *)
(* one place.                                                              *)
TokenInv ==
  /\ \A j \in Job : job[j] # None =>
       /\ job[j].token <= claims
       /\ job[j].status = "processing" <=> job[j].token # 0
  /\ \A w \in Worker : \A c \in batch[w] : c.token \in 1 .. claims
  /\ \A c \in lost : c.token \in 1 .. claims
HandInv ==
  \A w \in Worker :
    /\ hand[w].at = "next" <=> hand[w].copy = None
    /\ hand[w].at # "next" =>
         /\ hand[w].copy.token \in 1 .. claims
         /\ hand[w].copy \notin batch[w]
\* Without an administrator no claim is ever taken from a run.
UndisturbedInv ==
  orders = 0 => \A w \in Worker : \A c \in Copies(w) : Owned(c)
ApartInv == \A v, w \in Worker : v # w => Copies(v) \intersect Copies(w) = {}
IInv ==
  /\ TypeOK /\ TokenInv /\ HandInv /\ ApartInv /\ UndisturbedInv
  /\ ProcessingIsHeld /\ BudgetDecides

\* The run that has the claim on j is lost: no sweep brings the job back.
Orphaned(j) == \E c \in lost : c.job = j /\ Owned(c)
=============================================================================
