----------------------------- MODULE StockSync -----------------------------
(***************************************************************************)
(* The stock of one marketplace listing (services/stockSync.ts).  Every    *)
(* stock movement records an intent in its own transaction (repositories/  *)
(* inventory/stockSyncIntentWriter.ts), the outbox turns the intent into a *)
(* job of the queue (services/stockSyncOutbox.ts), and the job compares    *)
(* the product's stock with the marketplace's and pushes it.  Job is the   *)
(* set of movements: the job of a movement has its idempotency key.        *)
(* The product is read before two calls to the marketplace, and nothing    *)
(* keeps two jobs of one listing apart.                                    *)
(***************************************************************************)
EXTENDS JobQueue, Integers

CONSTANTS
  MaxStock,    \* bound: pieces in stock
  FirstStock   \* pieces when the listing was published

ASSUME StockAssumption == MaxStock \in Nat /\ FirstStock \in 0 .. MaxStock

VARIABLES
  local,      \* products.stockQuantity
  remote,     \* the quantity of the listing
  intent,     \* the outbox event of each movement
  sync,       \* where a run is in syncExternalListingStock
  conflict,   \* a stock conflict of the kind ConcurrentSale is recorded
  overlapped  \* two runs have been inside it at once

stock == <<local, remote, intent, conflict, overlapped>>
stockVars  == <<queue, stock, sync>>

Outside == [at |-> "out", stock |-> 0]
Inside(w) == sync[w].at # "out"

StockInit ==
  /\ QueueInit
  /\ local = FirstStock
  /\ remote = FirstStock
  /\ intent = [m \in Job |-> "none"]
  /\ sync = [w \in Worker |-> Outside]
  /\ conflict = FALSE
  /\ overlapped = FALSE
-----------------------------------------------------------------------------
(***************************************************************************)
(* From a movement to its job.                                             *)
(***************************************************************************)
\* Mutant: the intent is written after the transaction, if at all.
IntentLater(m) == {"none", "due"}

\* recordStockSyncIntent, inside the transaction of the movement.
Recorded(m) == {"due"}

\* stockMovements.append, whatever the mutation: sale, reservation, return.
Move(m, delta) ==
  /\ intent[m] = "none" /\ job[m] = None
  /\ local + delta \in 0 .. MaxStock
  /\ local' = local + delta
  /\ \E state \in Recorded(m) : intent' = [intent EXCEPT ![m] = state]
  /\ UNCHANGED <<queue, remote, sync, conflict, overlapped>>

\* Mutant: one key for all requests of the listing.
EnqueueOnce(m) ==
  IF \A n \in Job : job[n] = None THEN Enqueue(m) ELSE UNCHANGED queue

\* enqueueProductStockSync: the row that has the key is left as it is.
EnqueueSync(m) == IF job[m] = None THEN Enqueue(m) ELSE UNCHANGED queue

\* MaterializeStockSyncJobsHandler.  The event is settled by a later call; in
\* between the process may die, or the call fail, and the event is handled
\* again.
Materialize(m) ==
  /\ intent[m] \in {"due", "handled"}
  /\ EnqueueSync(m)
  /\ intent' = [intent EXCEPT ![m] = "handled"]
  /\ UNCHANGED <<local, remote, sync, conflict, overlapped>>

\* Handled, or given up after its last attempt.
SettleIntent(m) ==
  /\ \/ intent[m] = "handled" /\ intent' = [intent EXCEPT ![m] = "done"]
     \/ intent[m] \in {"due", "handled"} /\ intent' = [intent EXCEPT ![m] = "dead"]
  /\ UNCHANGED <<queue, local, remote, sync, conflict, overlapped>>

\* One more step of the event: handled once, then settled.
OutboxStep(m) == (intent[m] = "due" /\ Materialize(m)) \/ SettleIntent(m)
-----------------------------------------------------------------------------
(***************************************************************************)
(* syncExternalListingStock.                                               *)
(***************************************************************************)
\* The listing, the product and the connection are read together.
ReadStock(w) ==
  /\ hand[w].at = "work" /\ ~Inside(w)
  /\ sync' = [sync EXCEPT ![w] = [at |-> "ask", stock |-> local]]
  /\ overlapped' = (overlapped \/ \E v \in Worker : Inside(v))
  /\ UNCHANGED <<queue, local, remote, intent, conflict>>

\* getListingInventory: nothing to push, or something.
Compare(w) ==
  /\ sync[w].at = "ask"
  /\ \/ /\ sync[w].stock = remote
        /\ Complete(w)
        /\ sync' = [sync EXCEPT ![w] = Outside]
     \/ /\ sync[w].stock # remote
        /\ sync' = [sync EXCEPT ![w].at = "push"]
        /\ UNCHANGED queue
  /\ UNCHANGED stock

\* updateListingInventory, as the marketplace sees it: it may hold another
\* quantity afterwards, and says so in its answer.
Push(w) ==
  /\ sync[w].at = "push"
  /\ \E held \in 0 .. MaxStock :
       /\ remote' = held
       /\ sync' = [sync EXCEPT ![w].at = IF held = sync[w].stock THEN "pushed"
                                                                ELSE "differs"]
  /\ UNCHANGED <<queue, local, intent, conflict, overlapped>>

\* Updated or Conflict: the job is done in either case.
Confirm(w) ==
  /\ sync[w].at \in {"pushed", "differs"}
  /\ conflict' = (conflict \/ sync[w].at = "differs")
  /\ Complete(w)
  /\ sync' = [sync EXCEPT ![w] = Outside]
  /\ UNCHANGED <<local, remote, intent, overlapped>>

\* No usable connection, a refusal, a timeout, or an answer that is lost after
\* the marketplace has acted.
FailSync(w, retryable) ==
  /\ Inside(w)
  /\ Raise(w, retryable)
  /\ sync' = [sync EXCEPT ![w] = Outside]
  /\ UNCHANGED stock

LoseRun(w) ==
  /\ Abort(w)
  /\ sync' = [sync EXCEPT ![w] = Outside]
  /\ UNCHANGED stock

\* What the queue does around the body.
QueueAround(w) ==
  /\ TakeUp(w) \/ FailRead(w) \/ FailWrite(w)
  /\ UNCHANGED <<stock, sync>>
ClaimSyncs(w, S) == Claim(w, S) /\ UNCHANGED <<stock, sync>>
OrderJob(m) == (RetryJob(m) \/ CancelJob(m)) /\ UNCHANGED <<stock, sync>>

SyncStep(w) ==
  \/ QueueAround(w) \/ ReadStock(w) \/ Compare(w) \/ Push(w) \/ Confirm(w)
  \/ \E retryable \in BOOLEAN : FailSync(w, retryable)

StockNext ==
  \/ \E m \in Job :
       \/ \E delta \in {-1, 1} : Move(m, delta)
       \/ Materialize(m) \/ SettleIntent(m) \/ OrderJob(m)
  \/ \E w \in Worker :
       SyncStep(w) \/ LoseRun(w) \/ \E S \in SUBSET Job : ClaimSyncs(w, S)

StockSpec == StockInit /\ [][StockNext]_stockVars
-----------------------------------------------------------------------------
(***************************************************************************)
(* Properties.                                                             *)
(***************************************************************************)
StockTypeOK ==
  /\ local \in 0 .. MaxStock
  /\ remote \in 0 .. MaxStock
  /\ intent \in [Job -> {"none", "due", "handled", "done", "dead"}]
  /\ sync \in [Worker -> [at : {"out", "ask", "push", "pushed", "differs"},
                          stock : 0 .. MaxStock]]
  /\ conflict \in BOOLEAN
  /\ overlapped \in BOOLEAN

\* Somebody is still to tell the marketplace.
ToBeTold ==
  \/ \E m \in Job : intent[m] \in {"due", "handled"}
  \/ \E m \in Job : Is(m, Waiting \union {"processing"})

\* A movement the marketplace may never hear of: its intent or its job is
\* given up, or somebody cancelled it.
GivenUp ==
  \/ \E m \in Job : intent[m] = "dead"
  \/ \E m \in Job : Is(m, {"failed", "dead_letter", "cancelled"})

(* recordStockSyncIntent and syncExternalListingStock: when all is done    *)
(* and nothing was given up, the listing shows the stock there is, unless  *)
(* the marketplace held another quantity, which is on record as a          *)
(* conflict, or two runs were inside the listing at once and the slower    *)
(* one pushed the quantity it had read before.                             *)
DriftHasAReason == remote # local => ToBeTold \/ GivenUp \/ conflict \/ overlapped

(* What makes it so.  The news of a movement is on its way to the          *)
(* marketplace until its job has succeeded ...                             *)
Open(m) ==
  \/ intent[m] \in {"due", "dead"}
  \/ job[m] # None /\ job[m].status # "succeeded"

\* ... a job has its row from the time its event is handled, and keeps it ...
RowsInv ==
  /\ \A m \in Job : /\ intent[m] \in {"none", "due"} => job[m] = None
                    /\ intent[m] \in {"handled", "done"} => job[m] # None
  /\ \A w \in Worker : \A c \in Copies(w) : job[c.job] # None

\* ... a run alone in the listing leaves there what it has read ...
AloneInv ==
  /\ \A w \in Worker : Inside(w) => hand[w].at = "work"
  /\ ~overlapped =>
       /\ \A v, w \in Worker : Inside(v) /\ Inside(w) => v = w
       /\ \A w \in Worker : /\ sync[w].at = "push" => remote # sync[w].stock
                            /\ sync[w].at = "pushed" => remote = sync[w].stock

\* ... and what it read is out of date, or the listing is, only while another
\* movement is open.
NewsInv ==
  ~overlapped /\ ~conflict =>
    /\ remote # local => \E m \in Job : Open(m)
    /\ \A w \in Worker : Inside(w) /\ sync[w].stock # local =>
         \E m \in Job : m # hand[w].copy.job /\ Open(m)

StockInv == StockTypeOK /\ RowsInv /\ AloneInv /\ NewsInv
-----------------------------------------------------------------------------
(***************************************************************************)
(* The scheduler calls the outbox and the queue again and again, and a run *)
(* goes on: every call to the marketplace has a timeout.                   *)
(***************************************************************************)
StockFairness ==
  /\ \A m \in Job : WF_stockVars(OutboxStep(m))
  /\ \A w \in Worker : WF_stockVars(SyncStep(w))
  /\ \A m \in Job :
       SF_stockVars(\E w \in Worker, S \in SUBSET Job : m \in S /\ ClaimSyncs(w, S))

StockLiveSpec == StockSpec /\ StockFairness

(* The outbox and the queue together: a difference does not last.  It is   *)
(* mended, or it has one of the reasons above or a run lost on the way.    *)
DriftEnds ==
  remote # local ~>
    remote = local \/ GivenUp \/ conflict \/ overlapped \/ \E m \in Job : Orphaned(m)
=============================================================================
