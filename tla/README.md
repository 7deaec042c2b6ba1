# Noctella: models, checks and proofs

Noctella is a shop for single pieces and small stocks: an Express API
(`src/apps/api`), two Next user interfaces (`src/apps/admin`,
`src/apps/storefront`)
and shared types and pure calculations (`src/packages`). All state that matters
lives behind the API, in SQLite (its transactions are synchronous, one after
the other) or Postgres, in files of product photos, and at three kinds of
providers: Stripe, Instagram and the marketplaces.

This directory holds TLA+ modules of the parts of the API in which several
requests, dispatch runs, processes or providers work on one piece of state, the
TLC configurations that check them, and TLAPS proofs. Every definition that
models code is listed with its source lines under `map` in `PROJECT.json`.

Contents: [1 The system](#1-the-system) ·
[2 The modules](#2-the-modules) ·
[3 The runs](#3-the-runs) ·
[4 Where the code differs from what it says](#4-where-the-code-differs-from-what-it-says) ·
[5 The proofs](#5-the-proofs) ·
[6 What is not modelled](#6-what-is-not-modelled) ·
[7 The plan](#7-the-plan)

## 1 The system

A request passes Route → Service → UseCase → Repository. Work that must survive
the request is a row: an event of the durable outbox (`outbox_events`) or a job
(`background_jobs`). One scheduler request (`apps/api/src/app.ts:180-230`)
discovers due schedules, runs due jobs, then runs the outbox dispatchers
(photos, invoices, sales preparation, stock synchronisation) and a cleanup. Some
services also dispatch once right after their commit
(`services/orders.ts:64-90`), so dispatch runs may overlap.

| Component | State it keeps | Operations | Talks to | What is hard |
|---|---|---|---|---|
| Product-photo publication | `photo_operations`, generations, artifacts, publication intents, executor exit records, copies; prepared and public files | claim, reclaim, seal, authorize (T1), publish each artifact, commit (T2), review, transfer, attest | photo outbox, file system | crashes at every step, lease expiry, lost commit acknowledgements, damaged and foreign files, two machines |
| Durable outbox | `outbox_events`, `outbox_attempts` | enqueue, claim, mark, log, succeed, retry, dead-letter, release | every dispatcher | updates by id, late results, stale locks |
| Sales invoice | order's paid mark, draft invoice and its totals | handler, draft, calculation, admin's retry | outbox | idempotency over a unique key, partial completion |
| Job queue | `background_jobs` | enqueue, claim batch, succeed, fail, retry, cancel | schedules, stock sync, marketplaces | copies that outlive their claim |
| Scheduled Instagram publication | schedule execution, its job, publish attempt | discover, bind, enter, create, poll, publish, settle | job queue, Instagram | unanswered provider calls, two drivers, replay |
| Photo upload admission | counters, queue and promise chains in memory | reserve, run, fork, abort, time out, close | upload routes | one counter with many ways out |
| Checkout, orders, stock | products, order drafts, orders, payments, payment events, stock movements | initialize, webhook, cash order, settle, advance, cancel, edit, receive | Stripe, invoice outbox | repeated and late events, one draft paid twice, stale checks |
| Refunds | refunds, finance entries | check the balance, create, submit, retry, cancel, execute, recover stale | job queue, marketplaces | a provider's unknown answer, late answers against recovery, a balance checked once, before the transaction that relies on it |
| Stock synchronisation | the intent of each movement, the job, the listing's quantity | record, materialize, read, ask, push, confirm | outbox, job queue, marketplaces | quantities read before two calls, overlapping runs, crashes between outbox and queue |
| Purchases | purchases, receipts | receive, cancel | stock | check outside the transaction |
| AI-intake photos | staged rows, photo rows, outbox events, private and canonical files | upload, delete, finalize, retain, sweep | files, photo outbox | rows and files change at different times; the acknowledgement of an insert may be lost; a sweep asks and deletes later, and walks only so far |
| AI intake | sessions, proposals, applied products | generate, review, apply | language model | review states |
| Marketplaces | listings, sync records | publish, update, end, import orders | eBay, WooCommerce, job queue | ambiguous creation |
| Social content | contents, approvals, schedules | prepare, edit, approve, schedule, derive image | Instagram publication | stale approval |
| Returns, offers, shipments, ERP bridges, catalogue, customers, reports, auth, UIs | rows of their own | single-transaction status changes, reads | — | little concurrency of their own |

What makes each modelled part correct is what its properties in section 3 say. The hazards behind them, each at its line of code, are listed under
`hazards` in `PROJECT.json`, together with those no property covers yet.

## 2 The modules

| Module | What it is |
|---|---|
| `PublishOnce` | what the publication of a photo promises, abstractly |
| `PhotoOperation` | the fenced publication protocol; implements `PublishOnce` |
| `PhotoOperationInv` | its inductive invariant |
| `PhotoOperation_proofs` | its proofs: type correctness, safety, the refinement of `PublishOnce` |
| `InvoiceOutbox`, `InvoiceOutbox_proofs` | the outbox as the sales invoice uses it; proofs |
| `JobQueue`, `JobQueue_proofs` | the background job queue; proofs |
| `ScheduledPublish`, `ScheduledPublish_proofs` | scheduled and direct publication; contains `JobQueue` by `INSTANCE`; proofs |
| `UploadAdmission`, `UploadAdmission_proofs` | the admission gate of photo work; proofs |
| `Refund` | refunds of an order; extends `JobQueue`, whose jobs are theirs |
| `StockSync` | from a stock movement over outbox and queue to a listing; extends `JobQueue` |
| `QueueBodies_proofs` | proofs about these two bodies of queue jobs |
| `IntakePhotos`, `IntakePhotos_proofs` | photos of an intake as rows and files; proofs |
| `Checkout`, `Checkout_proofs` | drafts, payments, orders and stock; proofs |
| `MC*` | constants and symmetry sets for TLC |

Common conventions. One database transaction is one step, because a SQLite
transaction is synchronous and nothing interleaves; where a handler makes
several database calls without a transaction, each call is a step. An `await` on
a provider, a file or another transaction separates steps, also when it is a
check whose answer a later transaction relies on. A crash removes the
local state of a process and leaves rows and files. A transaction that throws
rolls back, so it is no step, except where it moves a process on. Clocks are
facts a step may change: a lease has expired, a lock is old, a row is due.

### PhotoOperation

One photo operation, as the owner of uploads (`services/w2FencedProductPhotoOwner.ts`) drives it.
An *execution* is one handled request with its own random ids; it runs in a
process on a machine.

| State | In the code |
|---|---|
| `op`, `gens`, `seals` | `photo_operations`, its generations, its artifact seals |
| `intent`, `exits`, `copyRow` | `photo_publication_intents`, exit records, `photo_publication_copies` |
| `photos`, `rowLock` | committed photo rows; the row lock of an open T2 |
| `src`, `bytes`, `staged`, `canonical` | prepared files, copy inodes with their staging names, public names |
| the other variables | each execution's program counter, what it read, process liveness |

`Create`, `Reclaim`, `FindBusy`, `FindTerminal` are the claim
(`photoOperationAuthority`); `Seal` the seal; `AcquireIntent` is T1;
`Transfer` and `StayBlocked` are the executor's take-over, which needs an exit
record or an attestation; `CopySealed`, `RecordCopy`, `Link`, `Resolve` are the
copy-owned publication of an artifact (`photoCopyPublisher`), each sweeping the
staging names of a legacy operation as `removeOwnStagingData` does;
`ReviewPublication` ends it when it cannot go on; `RequestCommit`,
`CommitDone`, `CommitAborted` are T2 with a lost acknowledgement
(`photoOperationCommitFence`). `Crash`, `Fail`, `ExpireLease`, `Attest`,
`DamageSource` and `ForeignFile` are the environment.

`Confined` are the processes that run with
`PHOTO_PREPARATION_CONFINEMENT=required`. A seal made elsewhere is *legacy*: it
records no persistent identity of its files. Authority over it may come to a
confined process, which has nothing to compare with and sends the publication to
review although nothing is damaged (`RefuseLegacy`,
`photoPublicationExecutor.ts:188`); in the other direction the process cannot
prove the storage and answers 503 (`RefuseStorage`). Hence the third disjunct of
`ReviewNeedsEvidence`.

With `TrustedOperator`
FALSE the operator may attest a process that is still running: the protocol's
one assumption about people. The run and the safety theorems make it; only type
correctness is proved without it.

### InvoiceOutbox

One order, its event and its draft invoice. `Claim` to `Settle` are the dispatch
of one event (`services/outbox.ts`), each database call a step; `ReadOrder`,
`InsertDraft`, `Calculate` are the handler
(`services/salesInvoiceOutbox.ts`, `services/erpSalesFinanceBridge.ts`);
`RetryReads`, `RetryEnqueues`, `Reactivate` are the administrator's retry;
`Abandon` is a death of the process or a database error. `row.locked` and
`row.stale` stand for `locked_at` and its age, `row.due` for `available_at`.
`log` is `outbox_attempts`. The statuses Failed and Cancelled are not reachable
for this event type. `releaseStaleLocks` covers events of every type, so any
dispatcher's sweep releases this event.

### JobQueue

`job` is the table; a *copy* (`[job, token]`) is the row object a run was handed
at claim time and keeps using. `Claim(w, S)` is the batch claim of
`runDueJobs`, `TakeUp`, `Complete`, `FailRead`, `FailWrite` the execution of one
job with the two statements of `failJob`; `Order` is the administrator's retry
and cancellation, which need no token; `Abort` is a lost run. Priorities and
`run_after` become "any waiting job may be due". `recoverStaleJobs` has no
caller outside the tests and is left out: a lost claim stays. The module has no
run of its own: `Refund`, `StockSync` and `ScheduledPublish` contain it and give
its executor a body, and their runs check its properties or rest on its theorems.

### ScheduledPublish

One due schedule of one approved content. The executor's two snapshots
(`Prepare`, `Recheck`), the binding (`CommitBinding`), and the state machine of
`services/instagramPublishing.ts` with a step between any two awaits: `Lookup`,
`Authorize`, `Enter`, `CreateContainer`, `RecordContainer`, `Poll`,
`ClaimPublish`, `PublishContainer`, `RecordPublication`, `RecordUnknown`.
Direct requests of an administrator drive the same attempt. `made` and `sent`
count what the provider really did. A job's claim fences the entry into the
provider (unclaimed to claimed); the later step from ready to publishing is
fenced by the attempt's row alone, as
`src/docs/deployment/render-production.md` describes it, and the model follows.

### UploadAdmission

`services/photoUploadAdmission.ts`, single-threaded: a step is the code between
two awaits, a timer or an abort event. `Reserve`, `Run`, `Finish`, `Release`
are a lease; `Call`, `Turn`, `EndLeaf`, `Settle` are a leaf operation, charged
when it has to wait for another of its owner; `Timeout`, `AbortSignal`,
`LeafTimeout`, `Close` are the ways out. Lease ids are reused once everything
of the former request has settled. The 60 s alarm closes the gate and nothing
opens it again before a restart: that is the code's behaviour and the model's.

### Refund

The refunds of one order; `Job` is the set of refunds, since the job of a refund
has the key `refund-submit:<id>`. `CheckBalance` with `Create`, `Submit`, `Retry`,
`Cancel` are the administrator's requests (`use-cases/refund/useCases.ts`). The
balance is awaited before the unit of work that writes the refund, which asks
again for the key of the request and not for the balance (`:284-288`), so these
are two steps and other requests may come in between; `raced` records for which
refund one did. The body of the job is
`executeRefundUseCase`: `FindDone`, `Refuse`, `Recover` and `Call` are the four
ways out of its claim transaction; `Call` sends the request, and the marketplace
decides there and then whether it pays (`paid`), while the answer may be lost;
`Succeed`, `Fail` and `FailUnrecorded` are what follows the answer. `Ask` may
lose the enqueue that follows its commit. `Stale` says that a call ends within
30 s and a refund counts as abandoned after 60 s
(`MARKETPLACE_REQUEST_TIMEOUT_MS`, `REFUND_PROCESSING_STALE_MS`). `asked` and
`paid` are history variables. There is no payment provider to ask: the code's
own resolver throws.

### StockSync

One product with one active listing; `Job` is the set of stock movements. `Move`
is any movement with the intent it records in its own transaction
(`stockSyncIntentWriter.ts`), `Materialize` and `SettleIntent` are the outbox's
handling of it, with a crash in between as "handled again"; `ReadStock`,
`Compare`, `Push`, `Confirm`, `FailSync` are `syncExternalListingStock`, one
step per awaited call. `overlapped` is a history variable: two runs have been
inside the listing at once, which nothing in the code prevents. Left out: sales
at the marketplace itself, a timed-out request that the marketplace applies
later than its answer was given up, several listings, and the manual
synchronisation, whose key is constant (`stock:<listing>:manual`, `app.ts:343`,
`routes/stockSync.ts:15`), so that a second one finds the first one's job and
nothing runs.

### IntakePhotos

The photos of one intake, with photo ownership fencing off. `staged` and
`photos` are rows, `file` the private and canonical files, each none, cut off
(`partial`) or whole. `StartUpload`, `Save`, `InsertStaged` are an upload (file
first). An insert may be durable although its acknowledgement is lost: then the
request removes the file of a row that stays (`unacked`, `Disowned`), unless
image admission is on (`ImageAdmission`), where it keeps the file and closes the
admission (`aiIntakePhotos.ts:90-97`). `DeleteStaged`, `RetentionOver` with `RemovePrivate` remove rows first;
`StartFinalize`, `Look`, `OpenCanonical`, `FillCanonical`, `CommitFinalize` are
finalization, whose `writeIdempotent` reads, opens and writes in three steps;
`Walk`, `Ask`, `Sweep` are the cleanup's two sweeps, one question per step. A
walk stops after 100 000 entries (`aiIntakeCleanup.ts:38`,
`managedFileDeletion.ts:125`), in the order of the directory, and the next one
starts over: `MaxExamined` says for each root how many of the modelled files a
walk gets to see, the rest of the cap being spent on files of other intakes. The
walk's time limit never fires, since every run passes one fixed `now`. With
`ExecutionEnabled` FALSE, the default, no run deletes anything. `fresh` are the files younger than the process, which no walk reports: the age
grace only adds waiting. `Restart` ends everything under way and makes every
file old. `doubled` is a history variable: two finalizations have opened one file.

### Checkout

Drafts with their lines, one piece per line. `Prepare`, `CreateSession`,
`SaveReference` are the initialize request: two transactions around a call of
Stripe; `PaySession` is the customer; `Webhook(d, e)` is one delivery of a paid
event: it fulfils, links an existing order, refuses (refund due) or repeats an
earlier answer. `PlaceCashOrder`, `Settle`, `Advance`, `Cancel` and the product
edits are the other callers (`use-cases/order`, `application/inventory`).
`received` is a history variable: pieces received by purchases. Quantity is
always one and a price is one of two values; shipping cost and address are left
out, and the reviewed price of a cash order is its enabling condition. Rejections
of wrong amounts, currencies or identities need a Stripe that reports what was
not paid, and are not reachable here; the expiry of Stripe's idempotency key is
not modelled.

## 3 The runs

| Run | Instance | What it shows |
|---|---|---|
| `photo_operation` | 2 executions, 2 processes on one machine and 1 on another, one of the former not confined, 2 artifacts, trusted operator | a committed photo is wholly published (`CommittedIsPublished`); an authorized intent pins its generation (`AuthorityPinsGeneration`); one executor at a time (`OneLiveExecutor`); no public name before its record (`RecordedBeforeNamed`); review only with a rejected or damaged file, a foreign one, or a legacy seal before a confined executor (`ReviewNeedsEvidence`); authority moves only after an exit (`TransferAfterExit`); the protocol implements `PublishOnce` (`PublishesOnce`); an unobstructed retry ends (`RetryConverges`) |
| `invoice_outbox` | 2 runs, 1 administrator, 3 attempts, 2 faults, 1 reactivation | one dispatch at a time (`OneDispatch`); a dead letter has used its attempts (`DeadLetterJustified`); success is final (`SucceededIsFinal`); a paid order's event settles (`Converges`) |
| `invoice_outbox_slow` | locks go stale under live runs, 2 administrators, 2 reactivations | still one draft at most (`AtMostOneDraft`), and success means a draft or no need of one (`SucceededMeansDrafted`) |
| `refund` | 2 refunds, 2 runs, batches of 2, 2 attempts, 3 claims, 1 lost run, 1 order to the queue, each refund asked for twice | a refund is paid at most as often as it was asked for (`PaidOnlyWhenAsked`); a success has its entry and was paid (`BooksMatchRefunds`), and stays (`SettledForGood`); refunds created on a balance that was still the one checked, and not brought back after a failure, fit what was paid (`VettedRefundsFit`); of the queue: two runs meet on a job only after an order (`OverlapNeedsAnOrder`), a processing job is held or lost with its run (`ProcessingIsHeld`), late results are dropped (`OnlyTheHolderSettles`) |
| `stock_sync` | 2 movements, 2 runs, up to 1 piece, 1 attempt per job, 1 lost run, 1 order | the listing differs from the stock only with work left, work given up, a recorded conflict, or after two runs were inside it (`DriftHasAReason`); a difference ends, or has such a reason (`DriftEnds`) |
| `intake_photos` | 2 photos, one with failing writes and acknowledgements, 2 finalizations, 1 cleanup, 1 restart, walks that see 2 private files and 1 canonical one | no sweep takes the file of a staged row, only its own request may after a lost acknowledgement (`SourcesAreKept`); none takes that of a product's photo (`PhotosAreKept`), however it interleaves with uploads and finalizations; files without a row go in the end from a root that a walk examines whole (`OrphansGo`) |
| `scheduled_publish` | 2 runs, 1 direct request, 3 claims, 1 death, 1 order | one container and one publication (`AtMostOnce`); the row never claims what did not happen nor denies what did (`RowIsTruthful`); a job succeeds on a durable publication (`SucceededIsPublished`); only a run that still owns the job's token enters the provider, for content still approved (`EntryIsFenced`); no state is replayed (`NoReplay`); an approved due schedule settles, or its claim was lost with its run (`ScheduleSettles`) |
| `upload_admission` | 3 requests of up to 2 forks, 1 active and 1 waiting place | the counter is exactly what is held (`CapacityAccounted`); native work belongs to a held lease (`LeafWorkIsOwned`); leases come back (`LeasesComeBack`); a closed gate drains (`ClosedDrains`) |
| `checkout` | 2 drafts that share a product with one piece, 1 request, 2 events, 1 edit | every piece is in stock or in one live order (`StockConserved`); a handled charge is booked or refunded (`ChargesAreSettled`); an order is paid through one payment (`PaidOnce`); charges are answered unless the code blocks them (`ChargesAreAnswered`) |

Three more runs, `invoice_outbox_totals`, `refund_retry` and `checkout_booked`,
expect a violation: section 4.

**Why the bounds are enough.** The races of these protocols are between two
actors, over a row a third party may touch once in between. Two executions,
runs or requests give every pair of steps in every order; the third (an
administrator, a direct request, an operator, a third upload that finds the gate
full) is the disturbance. Attempt limits of two or three reach the last attempt,
the one before it, and a reactivation. Two artifacts give a first, a last and a
partial publication. One shared piece of stock makes two drafts compete; the
second product of one draft makes a refusal partial. `MaxClaims` in the live runs
is larger than a behaviour can use before it settles, so the bound itself never
decides liveness. Bounds: `MaxFaults`, `MaxRetries`, `MaxSlow`, `MaxClaims`,
`MaxAdmin`, `MaxChain`, `MaxEdits`, `MaxAsks`, `MaxRestarts`, `MaxStock`, `Faulty`. They limit how often something happens in a
run of TLC, and the theorems hold for every value of them. In `stock_sync` every job has one
attempt, so that two movements, a loss and an order fit; more attempts only
repeat the read and the push. One restart in `intake_photos` makes every leftover
file eligible for the sweep. Its canonical walk sees one file of up to two, so
both a truncated walk and a whole one occur; the failures of one upload meet
those of none.
In `photo_operation` the two processes of one machine allow a hand-over without
an operator, the third one needs an attestation, and with one process not confined
each of the two pairings of seal and executor occurs. `Total` is 1 in the refund runs: two refunds of the
whole compete for it.

**Symmetry** is used only in runs without liveness: over runs and administrators
(`invoice_outbox_slow`), and over refunds and runs (`refund`).

**Deadlock** is not checked: each system may stop when all work is settled and
every bounded fault has been used.

**Fairness.** `PhotoOperation`: an execution that can go on does (promises
resolve), and an open transaction ends; clients need not retry, so
`RetryConverges` speaks of an execution that exists. `InvoiceOutbox`: the
scheduler calls again and again, so a claimable event is claimed, stale locks
are released, time passes and a live run goes on. `JobQueue`: a run goes on, and
a job that is due again and again is claimed sometime, since a batch is ordered
by priority and `run_after` and the backlog is finite. `ScheduledPublish`: some
run of the queue always goes on, jobs are claimed, and discovery sees the due
schedule; direct requests owe nothing. `Refund`, `StockSync`: the queue's
fairness (a run goes on since every call to a marketplace has a timeout; a job
that is waiting again and again is claimed sometime), and the outbox's events are
handled. `IntakePhotos`: an external scheduler calls the cleanup again and again, and
events settle; this is a property of the deployment and not of the code, which
starts nothing by itself and deletes only with
`AI_INTAKE_CLEANUP_EXECUTION_ENABLED` (hence the premise of `OrphansGo`); uploads and finalizations owe nothing. `UploadAdmission`: microtasks,
`finally` blocks and native work end; nothing is asked of clients, timers or
`close`. `Checkout`: Stripe delivers an event until it gets a 2xx answer.
Administrators, customers, operators and failures owe nothing anywhere.

## 4 Where the code differs from what it says

| Run | Property | What happens |
|---|---|---|
| `invoice_outbox_totals` | `SucceededIsComplete` | the draft is committed with zero totals and calculated afterwards; when the process dies in between, the retried handler finds the draft, does not calculate it, and the event succeeds |
| `refund_retry` | `RetriedRefundRuns` | a refund that failed and is asked for again is Pending, but its job has the same key as the job that has ended: `enqueueJob` returns the old row, and no run ever takes the refund up |
| `checkout_booked` | `FulfilledChargeIsBooked` | a draft that became a cash order is also paid by card: the webhook links the payment to that order, reports it fulfilled, and leaves the order unpaid without an invoice |

The lines, and the sentences of the repository they disagree with, are in
`findings`. None was looked for: each came up as a counterexample to a property
first written as an invariant.

More behaviours are the code's and are modelled as they are, and no
sentence of the repository denies them: a claim lost with its run stays in
`processing` until an administrator retries it; the upload gate stays closed
after its alarm; a webhook for a paused product or an already settled cash order
fails at every delivery (`Blocked` in `Checkout`); a retry of an invoice event
reads the status and updates by id (`Reactivate`), which is why exclusive
dispatch needs one administrator at a time; a refund asked for again is not
checked against the balance, and two requests that check it before either
writes may both pass (`VettedRefundsFit` leaves out both, `raced`); a confined
process sends a healthy upload to review when its seal is legacy
(`LegacyRefused`); an insert whose acknowledgement is lost leaves a staged row
without its file (`Disowned`); files beyond the cap of a walk are never examined
(`Seen`); the slower of two runs in one listing leaves
an old quantity there (`overlapped`); a process that dies inside `writeFile`
leaves a cut canonical file, every later finalization of that intake ends in a
conflict, and the sweep spares the file as long as its staged row exists (`Look`,
`Claimed`).

## 5 The proofs

`tlapm` checks every proof; nothing is assumed but the `ASSUME`s of the modules,
which TLC evaluates in every run. Each proof has the same shape: an inductive
invariant `IInv`, a step lemma for each conjunct with a case for each action,
and the properties as consequences. Every conjunct was first checked by TLC.

| Theorem | Property | Under |
|---|---|---|
| `PhotoOperation_proofs!TypeCorrect` | type invariant | – |
| `PhotoOperation_proofs!IntentPinsItsGeneration` | `AuthorityPinsGeneration` | `TrustedOperator` |
| `…!SingleExecutor` | `OneLiveExecutor` | `TrustedOperator` |
| `…!CommitIsConsistent` | `CommittedIsPublished` | `TrustedOperator` |
| `…!NamesAreRecorded` | `RecordedBeforeNamed` | `TrustedOperator` |
| `…!ReviewIsJustified` | `ReviewNeedsEvidence` | `TrustedOperator` |
| `…!HistoryIsLinear` | one live generation | `TrustedOperator` |
| `…!HandOverIsSafe` | `TransferAfterExit` | `TrustedOperator` |
| `…!ProtocolPublishesOnce` | `PublishesOnce`: `PhotoOperation` implements `PublishOnce` | `TrustedOperator` |
| `InvoiceOutbox_proofs!OneDraftPerOrder`, `SuccessHasItsDraft` | `AtMostOneDraft`, `SucceededMeansDrafted` | – |
| `…!LockIsExclusive`, `GivingUpIsJustified` | `OneDispatch`, `DeadLetterJustified` (each until a run outlives the threshold) | one administrator at a time |
| `…!CallsAreBounded` | attempts within the budget and the abandoned runs | the same |
| `…!SuccessIsFinal` | `SucceededIsFinal` | the same |
| `JobQueue_proofs!ClaimIsExclusive`, `WorkIsExclusive` | one holder of a claim; `OverlapNeedsAnOrder` | – |
| `…!NothingIsForgotten`, `BudgetIsKept` | `ProcessingIsHeld`; the attempt budget decides | – |
| `…!LateResultsAreLost` | `OnlyTheHolderSettles` | – |
| `QueueBodies_proofs!RefundsAreJobs`, `SyncsAreJobs` | `Refund` and `StockSync` implement `JobQueue` | – |
| `…!NoUnaskedPayment`, `BooksAreTrue`, `SuccessIsFinal` | `PaidOnlyWhenAsked`, `BooksMatchRefunds`, `SettledForGood` | – |
| `…!BalanceIsKept` | `VettedRefundsFit` | finitely many refunds |
| `…!DriftIsExplained` | `DriftHasAReason` | – |
| `ScheduledPublish_proofs!ScheduleIsAJob` | `ScheduledPublish` implements `JobQueue` | – |
| `…!PublishedOnce`, `RowIsRight`, `SuccessIsPublication` | `AtMostOnce`, `RowIsTruthful`, `SucceededIsPublished` | – |
| `…!EntryFenced`, `NothingReplayed` | `EntryIsFenced`, `NoReplay` | – |
| `UploadAdmission_proofs!CountersExact`, `WorkIsOwned` | `CapacityAccounted`, `LeafWorkIsOwned` | finitely many requests and operations |
| `…!QueueIsFair` | `FirstComeFirstServed` | the same |
| `IntakePhotos_proofs!StagedFilesStay`, `PhotoFilesStay` | `SourcesAreKept`, `PhotosAreKept` | – |
| `Checkout_proofs!StockIsConserved` | `StockConserved` | finitely many drafts |
| `…!ChargesSettle`, `PaidThroughOnePayment` | `ChargesAreSettled`, `PaidOnce` | – |

*PhotoOperation.* `IInv` conjoins `TypeInv`, `GenerationInv` (one current
generation, the operation's), `IntentInv` (an intent repeats the sealed
operation), `EarlyInv` (before T1 an execution has published nothing),
`ExecutorInv` (who acts between T1 and T2 holds the intent, in a living
process), `ExitInv` (an exit record is of a past epoch, or of the current
executor, whose process is gone), `LockInv` (an open T2 still satisfies what its
fence checked), `FileInv` (a copy at a public name is recorded and holds the
authorized bytes), `ProgressInv` (the artifacts before the current one are published),
`PhotoInv` (the photo row exists exactly
when the operation is committed) and `SealInv` (a seal belongs to the owner of the
generation; review needs damage, a foreign file, or a legacy seal before a
confined executor). None of the properties is inductive alone: that a commit
is consistent needs the progress of its executor, that needs its exclusiveness,
and that needs the exit records to be true, which is where `TrustedOperator`
enters.

The refinement of `PublishOnce` uses the same invariant. Its mapping takes the
operation's status to the abstract one (`Progress`), the intent's token to the
holder, whether the executor is at work to `running` (`Handled`), what a public
name shows to the kind of its bytes (`NameKind`), and the photo rows to the
executions that committed them. A lemma per group of actions says which abstract action
a step is, or that it changes nothing the mapping shows; `FileInv`,
`ProgressInv` and `LockInv` are what make the abstract guards true.

*InvoiceOutbox.* `DraftInv` alone (a run past the insertion, or a success,
implies a draft when one was due) is inductive without any assumption about
time, since the unique key decides. Exclusiveness needs `SlotInv` (a run past
its claim is the only one and holds the lock; only dead locks go stale) and `CountInv` (its copy of the
count is the row's).

*JobQueue.* `TokenInv` (tokens are not from the future), `HandInv`, `ApartInv`
(no two runs hold the same copy), `UndisturbedInv` (without an order, a
processing job's copy is its newest).

*Refund.* `RefundsAreJobs` maps each step to a step of the queue or a stutter, so
the queue's invariant comes for free. `CallInv` is what the properties need
beyond it: an open call belongs to a run at work on a refund in processing, to
that run alone. It rests on `Stale`: recovery while the call is open would let
two runs settle one refund. The balance is a sum over refunds, which no prover
here can fold over; `SumOf` therefore counts the smallest units of the amounts,
and the step lemmas are about the cardinality of that set. `VettedRefundsFit`
alone is not inductive: `RoomInv` says that an amount which passed its check still
fits until another refund is written, and then the check is stale, so the refund
made of it is in `raced` and not vetted. That a refund which comes back after a
failure was asked for before, and so leaves the vetted ones, is `AskInv`.

*StockSync.* Again over the queue's invariant. `RowsInv` (the job of a movement
exists once its event was handled), `AloneInv` (a run alone in the listing leaves
there what it read) and `NewsInv`: as long as no two runs were inside at once and
no conflict was recorded, a listing that differs, or a run that read an old stock, has another movement whose
news is still open. That is inductive and `DriftHasAReason` is not: a run
completes its own job, so somebody else's must be open.

*IntakePhotos.* `UploadInv` (a photo is staged once, with its whole file unless its
own request disowned it; a file under way is fresh; a file is removed only
without its row or after a lost acknowledgement), `SweepInv` (a run looks at files whose upload is over, and
past each question the row it asked for will not come), `FinInv` and `PairInv`
(what a finalization has prepared is there; two that write one file have opened
it twice). The order of the sweep's questions is what makes `SweepInv` hold: a
photo row is made of a staged row, so asking for the staged row first leaves no
gap; the mutant `ClaimedSwapped` shows the gap.

*ScheduledPublish.* `ScheduleIsAJob` maps every step to a step of the queue with
one job. `EntryIsFenced` asks that the entering run owns the job's current token,
which the queue's invariant turns into a statement about the row: the mutant
`FenceByStatus`, which looks at the job's status alone, lets a run enter whose job
was retried and claimed by another one. What remains is a
protocol between the attempt's row and the callers that drive it. `Making` and
`Sending` are where a caller is that has claimed the container or the
publication and has not recorded the outcome. `MakerInv` and `SenderInv` say
that one caller at most is there, that the row is in the stage that waits for
this outcome, and that the provider has acted once after the call and never
before it. `CallerInv` says that a caller drives the row of its own key and that a
copy which reads published is right; `ProviderInv`, that nothing was made or
sent for a row that was never entered. `AtMostOnce` alone is not inductive: what
excludes a second request is the stage of the row, which only the
compare-and-set of `Transition` protects.

*UploadAdmission.* `CapacityAccounted` equates counters with cardinalities of
sets that each step changes by one element, or not at all. Two facts make that so.
`QueueInv`: a lease is in the queue once, exactly while it waits, hence whoever is taken from
it was waiting and is not counted twice. `LeafInv`: an operation that is
not settled is in the chain of a living owner, and the one that runs is its head; hence
an owner whose chain is empty has no work left, and at most one operation runs. `NoSlotIdles` (nobody
waits while a slot is free, or at a closed gate) gives the order of service.

*Checkout.* `Books`, one condition per draft on what its order, payment,
settlement, event and movement rows agree on, and `StockConserved`, whose
step lemmas are about the cardinality of the set of drafts that hold a product.

**Model-checked only:** liveness (`RetryConverges`, `Converges`, `DriftEnds`,
`OrphansGo`, `ScheduleSettles`, `LeasesComeBack`, `ClosedDrains`,
`ChargesAreAnswered`), which TLAPS cannot reach under fairness. Every invariant
and every action property of the runs is a theorem. **Proved only:** that a claim
has one holder and that the attempt budget decides; that admission is first come,
first served; the bound on the calls of an abandoned handler; that `StockSync` and
`ScheduledPublish` implement `JobQueue`; type correctness of each proved
module.

## 6 What is not modelled

`components` in `PROJECT.json` gives every part with its reason. In short: the
user interfaces, reads and reports, authentication and the pure calculations
hold no concurrent state; returns, offers, shipments, catalogue writes and the
ERP bridges are status changes inside one transaction; purchases, manual stock
changes, the fenced batch finalization of an intake, marketplace publishing and
the other users of the outbox and the queue are planned below. Most of the
repository's lines are of the first kind (forms, schemas, migrations, mappers and
validation), so the modules cover a small share of its lines and most of those
that interleave.

Two of the parts left out have races worth knowing. `cancelPurchaseUseCase` and
`receivePurchaseUseCase` check the purchase's status before their transaction
(`application/purchase/useCases.ts:508`, `:566`), so a cancellation without a
version can overwrite a receipt, and a receipt can book stock on a purchase just
cancelled. The replay check of `setQuantity`
(`application/inventory/useCases.ts:590`) compares with a difference computed
from the stock of today, so a repeated request may be refused.

Of the modelled parts, left out are: the Postgres driver's ambiguous commit of a
single mark of the outbox or the queue (there a database error counts as not
applied; the commits of T2 and of a staged row are ambiguous in the models), the
reversal of a sale, which reads the refundable balance and writes nothing others
read, quantities above one,
repeated lines in an instance (the guard `Repeats` is modelled), mock payment
providers, and the completion of a sale.

## 7 The plan

Order so far, by what a mistake would cost: photo publication, the outbox with
the invoice, the queue with scheduled publication, admission, checkout, refunds,
stock synchronisation, intake photos. Next:

1. `Purchase` with the stock of `Checkout`: the receipt's replay and the
   cancel/receive race, `setQuantity`.
2. The W4 batch owner: one T2 for several photos, over `PhotoOperation`; the photo
   outbox's handlers.
3. `PhotoOperation` without a trusted operator: which of its invariants survive.
   An exploration with two executors on two machines and two artifacts (411 588
   states, no run of this project) kept the single live generation and broke the
   other safety properties. Of `CommittedIsPublished` it broke the last clause
   alone, the staging name of a committed copy, which the second executor of a
   legacy operation sweeps: the row, the names and the bytes do not lean on the
   exit records, and a theorem without the assumption is within reach.
4. Marketplace creation as an operation with an ambiguous answer, over `JobQueue`.
5. Proofs: each module added by 1 to 4, and an abstract specification of the
   queue and of the admission gate for them to implement.
