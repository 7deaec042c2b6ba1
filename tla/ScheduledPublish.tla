-------------------------- MODULE ScheduledPublish --------------------------
(***************************************************************************)
(* Scheduled publication to Instagram: one due schedule of one approved    *)
(* content.  Discovery (services/socialPublishScheduleExecutions.ts) hands *)
(* it to the job queue of JobQueue, the executor                           *)
(* (services/socialPublishScheduleExecutor.ts) binds the execution to one  *)
(* publishing attempt, and the publishing state machine                    *)
(* (services/instagramPublishing.ts) drives the attempt through the        *)
(* provider.  An administrator may publish the same approval directly      *)
(* (routes/instagram.ts), so the state machine has several drivers, and    *)
(* each await is a point where another may step in, or the process die.    *)
(***************************************************************************)
EXTENDS Naturals, FiniteSets

CONSTANTS
  Schedule, Worker, Direct,   \* the schedule; runs; direct requests (one key)
  MaxAttempts, MaxClaims, MaxFaults, MaxAdmin, None  \* as in JobQueue

ASSUME BoundsAssumption ==
  /\ MaxAttempts \in Nat \ {0}
  /\ MaxClaims \in Nat /\ MaxFaults \in Nat /\ MaxAdmin \in Nat
ASSUME CallerAssumption == Worker \intersect Direct = {}

VARIABLES
  job, batch, hand, claims, faults, orders, lost,   \* as in JobQueue
  approved,  \* the content is still the approved version, on its account
  bound,     \* the execution is bound to its attempt
  attempt,   \* the one instagram_publish_attempts row of the approval, or None
  call,      \* the local state of each publishInstagramImage caller
  made,      \* containers created at the provider
  sent       \* publications made at the provider

Queue == INSTANCE JobQueue WITH Job <- {Schedule}, BatchSize <- 1

queue    == <<job, batch, hand, claims, faults, orders, lost>>
provider == <<made, sent>>
vars     == <<queue, approved, bound, attempt, call, provider>>

Caller == Worker \union Direct
Stage  == {"pending", "container_created", "processing", "ready",
           "publishing", "published", "failed", "reconciliation_required"}
Attempt == [key : {"schedule", "direct"}, status : Stage, entered : BOOLEAN,
            container : BOOLEAN]
Place  == {"idle", "prepare", "recheck", "lookup", "authorize", "bind",
           "verify", "claim", "create", "record", "refuse", "begin", "poll",
           "mark", "invalid", "send", "publish", "publication", "unknown",
           "result", "outcome"}
Pass   == {"bind", "publish"}
Call   == [at : Place, pass : Pass, row : Attempt \union {None}]

ASSUME NoneAssumption == None \notin Attempt \union Queue!Row \union Queue!Copy

AtRest == [at |-> "idle", pass |-> "bind", row |-> None]
Key(c) == IF c \in Worker THEN "schedule" ELSE "direct"

\* The run is inside executeJob with this job.
Executing(w) == hand[w].at = "work"
\* A direct request has no claim to lose.
Fenced(c) == c \in Worker => Queue!Owned(hand[c].copy)

At(c, place) == call[c].at = place /\ (c \in Worker => Executing(c))
Goto(c, place) == call' = [call EXCEPT ![c].at = place]

\* The call ends in an exception; the executor turns it into a job failure.
Throw(c, retryable) ==
  /\ call' = [call EXCEPT ![c] = AtRest]
  /\ IF c \in Worker THEN Queue!Raise(c, retryable) ELSE UNCHANGED queue
\* The claim is gone: ownershipLost, and the executor returns null.
Yield(w) == Queue!Leave(w) /\ call' = [call EXCEPT ![w] = AtRest]

Resumable(row) == /\ row.container
                  /\ row.status \in {"container_created", "processing", "ready"}
Unstarted(row) == row.status = "pending" /\ ~row.entered /\ ~row.container
Drivable(row)  == row # None => (Resumable(row) \/ Unstarted(row))

\* The row, if there is one, carries the caller's idempotency key.
Mine(c) == attempt # None => attempt.key = Key(c)

\* Mutant: the update by id alone.
TransitionById(from, to) == attempt' = [attempt EXCEPT !.status = to]

\* An update guarded by the status it moves on from.
Transition(from, to) ==
  attempt' = IF attempt.status = from THEN [attempt EXCEPT !.status = to]
                                      ELSE attempt
-----------------------------------------------------------------------------
Init ==
  /\ Queue!QueueInit
  /\ approved = TRUE
  /\ bound = FALSE
  /\ attempt = None
  /\ call = [c \in Caller |-> AtRest]
  /\ made = 0
  /\ sent = 0

\* discover, prepare, bindJob: execution and job in one transaction.
Discover ==
  /\ approved
  /\ Queue!Enqueue(Schedule)
  /\ UNCHANGED <<approved, bound, attempt, call, provider>>

\* The content gets another version; the approval stays with the old one.
EditContent ==
  /\ approved
  /\ approved' = FALSE
  /\ UNCHANGED <<queue, bound, attempt, call, provider>>
-----------------------------------------------------------------------------
(***************************************************************************)
(* The executor, before it enters the state machine.                       *)
(***************************************************************************)
\* snapshot: claim, binding and the whole chain in one transaction, twice,
\* around the file inspection.
Snapshot(w, from, to) ==
  /\ At(w, from)
  /\ \/ Queue!Owned(hand[w].copy) /\ approved /\ Goto(w, to) /\ UNCHANGED queue
     \/ Queue!Owned(hand[w].copy) /\ ~approved /\ Throw(w, FALSE)
     \/ Yield(w)
  /\ UNCHANGED <<approved, bound, attempt, provider>>
Begin(w)   == Snapshot(w, "idle", "prepare")
Prepare(w) ==
  /\ At(w, "prepare")
  /\ Goto(w, "recheck") /\ UNCHANGED queue
  /\ UNCHANGED <<approved, bound, attempt, provider>>
Recheck(w) == Snapshot(w, "recheck", "lookup")

\* The transaction after the binding pass: the keyed attempt, bound under
\* the claim.
CommitBinding(w) ==
  /\ At(w, "bind")
  /\ \/ /\ attempt # None /\ attempt.key = "schedule"
        /\ Queue!Owned(hand[w].copy)
        /\ bound' = TRUE
        /\ call' = [call EXCEPT ![w] = [at |-> "lookup", pass |-> "publish",
                                        row |-> None]]
        /\ UNCHANGED queue
     \/ Yield(w) /\ UNCHANGED bound
  /\ UNCHANGED <<approved, attempt, provider>>
-----------------------------------------------------------------------------
(***************************************************************************)
(* publishInstagramImage.                                                  *)
(***************************************************************************)
StartDirect(c) ==
  /\ call[c].at = "idle"
  /\ call' = [call EXCEPT ![c] = [at |-> "lookup", pass |-> "publish",
                                  row |-> None]]
  /\ UNCHANGED <<queue, approved, bound, attempt, provider>>

\* A row that can go no further is returned as it is.
Returned(c, row) ==
  call' = [call EXCEPT ![c].row = row,
             ![c].at = IF call[c].pass = "bind" THEN "bind" ELSE "outcome"]

\* resolveAttempt, and the first snapshot of what is to be published.
Lookup(c) ==
  /\ At(c, "lookup")
  /\ \/ ~Mine(c) /\ Throw(c, FALSE)
     \/ /\ Mine(c) /\ ~Drivable(attempt)
        /\ Returned(c, attempt) /\ UNCHANGED queue
     \/ /\ Mine(c) /\ Drivable(attempt) /\ approved
        /\ call' = [call EXCEPT ![c].row = attempt, ![c].at = "authorize"]
        /\ UNCHANGED queue
     \/ Mine(c) /\ Drivable(attempt) /\ ~approved /\ Throw(c, FALSE)
  /\ UNCHANGED <<approved, bound, attempt, provider>>

NewAttempt(c) == [key |-> Key(c), status |-> "pending", entered |-> FALSE,
                  container |-> FALSE]

\* Mutant: the fence looks at the job's status and not at its token.
FenceByStatus(c) == c \in Worker => Queue!Is(Schedule, {"processing"})
EntryFence(c) == Fenced(c)

\* The authorization transaction: it creates the row at most once, and in
\* the binding pass binds it.  A row inserted by someone else since the
\* lookup is either found or lost the insert to; who loses never continues.
Authorize(c) ==
  /\ At(c, "authorize")
  /\ \/ /\ Fenced(c) /\ approved
        /\ attempt # None => attempt.key = Key(c)
        /\ attempt' = IF attempt = None THEN NewAttempt(c) ELSE attempt
        /\ bound' = (bound \/ call[c].pass = "bind")
        /\ IF call[c].pass = "bind" \/ ~Drivable(attempt')
           THEN Returned(c, attempt')
           ELSE call' = [call EXCEPT ![c].row = attempt', ![c].at = "verify"]
        /\ UNCHANGED queue
     \/ /\ Fenced(c)
        /\ ~(approved /\ Mine(c))
        /\ Throw(c, FALSE) /\ UNCHANGED <<attempt, bound>>
     \/ /\ call[c].row = None /\ attempt # None /\ attempt.key = Key(c)
        /\ Returned(c, attempt) /\ UNCHANGED <<queue, attempt, bound>>
     \/ c \in Worker /\ Yield(c) /\ UNCHANGED <<attempt, bound>>
  /\ UNCHANGED <<approved, provider>>

\* GET /me, repeatable.
Verify(c) ==
  /\ At(c, "verify")
  /\ Goto(c, IF call[c].row.container
             THEN IF call[c].row.status = "ready" THEN "send" ELSE "begin"
             ELSE "claim")
  /\ UNCHANGED <<queue, approved, bound, attempt, provider>>

EntryClaimable == Unstarted(attempt)

\* unclaimed -> claimed, the irreversible provider entry.
Enter(c) ==
  /\ At(c, "claim")
  /\ \/ /\ EntryFence(c) /\ approved
        /\ IF EntryClaimable
           THEN /\ attempt' = [attempt EXCEPT !.entered = TRUE]
                /\ Goto(c, "create")
           ELSE Goto(c, "result") /\ UNCHANGED attempt
        /\ UNCHANGED queue
     \/ /\ EntryFence(c) /\ ~approved
        /\ Throw(c, FALSE) /\ UNCHANGED attempt
     \/ c \in Worker /\ Yield(c) /\ UNCHANGED attempt
  /\ UNCHANGED <<approved, bound, provider>>

\* The provider makes the container, and may fail to say so.
CreateContainer(c) ==
  /\ At(c, "create")
  /\ \/ made' = made + 1 /\ (Goto(c, "record") \/ Goto(c, "refuse"))
     \/ made' = made /\ Goto(c, "refuse")
  /\ UNCHANGED <<queue, approved, bound, attempt, sent>>

\* Its identity becomes durable; a database error lands in the catch.
RecordContainer(c) ==
  /\ At(c, "record")
  /\ \/ /\ attempt.status = "pending"
        /\ attempt' = [attempt EXCEPT !.status = "container_created",
                                      !.container = TRUE]
        /\ Goto(c, "begin")
     \/ /\ attempt.status # "pending"
        /\ Goto(c, "result") /\ UNCHANGED attempt
     \/ Goto(c, "refuse") /\ UNCHANGED attempt
  /\ UNCHANGED <<queue, approved, bound, provider>>

Refuse(c) ==
  /\ At(c, "refuse")
  /\ Transition("pending", "failed")
  /\ Goto(c, "result")
  /\ UNCHANGED <<queue, approved, bound, provider>>

BeginProcessing(c) ==
  /\ At(c, "begin")
  /\ Transition("container_created", "processing")
  /\ Goto(c, "poll")
  /\ UNCHANGED <<queue, approved, bound, provider>>

\* waitForReady: ready, not ready in time, invalid media, any other error.
Poll(c) ==
  /\ At(c, "poll")
  /\ \E place \in {"mark", "invalid", "result"} : Goto(c, place)
  /\ UNCHANGED <<queue, approved, bound, attempt, provider>>

MarkReady(c) ==
  /\ At(c, "mark")
  /\ \/ Transition("processing", "ready") /\ Goto(c, "send")
     \/ Goto(c, "result") /\ UNCHANGED attempt
  /\ UNCHANGED <<queue, approved, bound, provider>>

MarkInvalid(c) ==
  /\ At(c, "invalid")
  /\ Transition("processing", "failed")
  /\ Goto(c, "result")
  /\ UNCHANGED <<queue, approved, bound, provider>>

\* Mutant: a publishing row may be claimed once more.
SendableAgain == attempt.status \in {"ready", "publishing"}

Sendable == attempt.status = "ready"

\* ready -> publishing, the sole publish claim.
ClaimPublish(c) ==
  /\ At(c, "send")
  /\ IF Sendable
     THEN attempt' = [attempt EXCEPT !.status = "publishing"] /\ Goto(c, "publish")
     ELSE Goto(c, "result") /\ UNCHANGED attempt
  /\ UNCHANGED <<queue, approved, bound, provider>>

\* The provider publishes, and may fail to say so.
PublishContainer(c) ==
  /\ At(c, "publish")
  /\ \/ sent' = sent + 1 /\ (Goto(c, "publication") \/ Goto(c, "unknown"))
     \/ sent' = sent /\ Goto(c, "unknown")
  /\ UNCHANGED <<queue, approved, bound, attempt, made>>

RecordPublication(c) ==
  /\ At(c, "publication")
  /\ \/ Transition("publishing", "published") /\ Goto(c, "result")
     \/ Goto(c, "unknown") /\ UNCHANGED attempt
  /\ UNCHANGED <<queue, approved, bound, provider>>

\* Mutant: an unknown outcome is taken for a refusal.
RefusedStage == "failed"

UnknownStage == "reconciliation_required"

RecordUnknown(c) ==
  /\ At(c, "unknown")
  /\ Transition("publishing", UnknownStage)
  /\ Goto(c, "result")
  /\ UNCHANGED <<queue, approved, bound, provider>>

Result(c) ==
  /\ At(c, "result")
  /\ call' = [call EXCEPT ![c].row = attempt, ![c].at = "outcome"]
  /\ UNCHANGED <<queue, approved, bound, attempt, provider>>

\* Mutant: a publication that is under way counts as success.
SuccessEarly == {"published", "publishing", "ready"}

SuccessStages == {"published"}

\* Success requires publication.  A container may be resumed, ambiguity
\* never is.
Outcome(c) ==
  /\ At(c, "outcome")
  /\ \/ /\ c \in Direct \/ call[c].row.status \in SuccessStages
        /\ call' = [call EXCEPT ![c] = AtRest]
        /\ IF c \in Worker THEN Queue!Complete(c) ELSE UNCHANGED queue
     \/ /\ c \in Worker /\ call[c].row.status \notin SuccessStages
        /\ Throw(c, Resumable(call[c].row))
     \/ /\ c \in Worker /\ call[c].row.status \in SuccessStages
        /\ Throw(c, TRUE)  \* completeJob failed on the database
  /\ UNCHANGED <<approved, bound, attempt, provider>>

\* Database, configuration and preflight errors where no catch awaits them;
\* the executor sorts them into retryable and not.
Fail(c) ==
  /\ call[c].at \notin {"create", "record", "poll", "mark", "publish",
                        "publication", "outcome"}
  /\ IF c \in Worker THEN Executing(c) ELSE call[c].at # "idle"
  /\ \E retryable \in BOOLEAN : Throw(c, retryable)
  /\ UNCHANGED <<approved, bound, attempt, provider>>
-----------------------------------------------------------------------------
(***************************************************************************)
(* The queue around the executor.                                          *)
(***************************************************************************)
RunStep(w) ==
  /\ Queue!TakeUp(w) \/ Queue!FailRead(w) \/ Queue!FailWrite(w)
  /\ UNCHANGED <<approved, bound, attempt, call, provider>>
RunClaims(w) ==
  /\ Queue!Claim(w, {Schedule})
  /\ UNCHANGED <<approved, bound, attempt, call, provider>>
RunDies(w) ==
  /\ Queue!Abort(w)
  /\ call' = [call EXCEPT ![w] = AtRest]
  /\ UNCHANGED <<approved, bound, attempt, provider>>
RequestDies(c) ==
  /\ call[c].at # "idle"
  /\ call' = [call EXCEPT ![c] = AtRest]
  /\ UNCHANGED <<queue, approved, bound, attempt, provider>>
AdminOrders ==
  /\ Queue!RetryJob(Schedule) \/ Queue!CancelJob(Schedule)
  /\ UNCHANGED <<approved, bound, attempt, call, provider>>

Publishing(c) ==
  \/ Lookup(c) \/ Authorize(c) \/ Verify(c) \/ Enter(c)
  \/ CreateContainer(c) \/ RecordContainer(c) \/ Refuse(c)
  \/ BeginProcessing(c) \/ Poll(c) \/ MarkReady(c) \/ MarkInvalid(c)
  \/ ClaimPublish(c) \/ PublishContainer(c) \/ RecordPublication(c)
  \/ RecordUnknown(c) \/ Result(c) \/ Outcome(c) \/ Fail(c)

WorkerStep(w) ==
  \/ RunStep(w) \/ Begin(w) \/ Prepare(w) \/ Recheck(w) \/ CommitBinding(w)
  \/ Publishing(w)

Next ==
  \/ Discover \/ EditContent \/ AdminOrders
  \/ \E w \in Worker : RunClaims(w) \/ WorkerStep(w) \/ RunDies(w)
  \/ \E c \in Direct : StartDirect(c) \/ Publishing(c) \/ RequestDies(c)

Spec == Init /\ [][Next]_vars
-----------------------------------------------------------------------------
TypeOK ==
  /\ Queue!TypeOK
  /\ approved \in BOOLEAN /\ bound \in BOOLEAN
  /\ attempt \in Attempt \union {None}
  /\ call \in [Caller -> Call]
  /\ made \in Nat /\ sent \in Nat

Has(stages) == attempt # None /\ attempt.status \in stages

(* publishInstagramImage: over all runs, direct requests, retries and      *)
(* crashes the provider is asked for at most one container, and is asked   *)
(* to publish at most once.                                                *)
AtMostOnce == made <= 1 /\ sent <= 1

(* The row never denies what the provider did: nothing is published behind *)
(* a row that is pending, ready or failed, and a row that says published   *)
(* is right.                                                               *)
RowIsTruthful ==
  /\ sent > 0 => Has({"publishing", "published", "reconciliation_required"})
  /\ Has({"published"}) => sent > 0
  /\ Has({"container_created", "processing", "ready"}) => made > 0

(* The executor: a succeeded job has published, through the attempt its    *)
(* execution is bound to.                                                  *)
SucceededIsPublished ==
  Queue!Is(Schedule, {"succeeded"}) =>
    bound /\ Has({"published"}) /\ attempt.key = "schedule"

\* The step is w's own, from the entry to the making of the container.
EntersAs(w) == Executing(w) /\ call[w].at = "claim" /\ call'[w].at = "create"

(* fenceProviderEntry, docs/deployment/render-production.md:193-194: a     *)
(* schedule enters the provider only for content still approved, and only  *)
(* by a run that holds the job's current token.  So a cancellation before  *)
(* the entry prevents the post, and so does a retry: a run that has lost   *)
(* its claim never enters, not even while another one processes the job.   *)
EntryIsFenced ==
  [][ (attempt' # attempt /\ attempt' # None /\ attempt'.entered
         /\ (attempt # None => ~attempt.entered))
      => /\ approved
         /\ attempt'.key = "schedule" =>
              \E w \in Worker : EntersAs(w) /\ Queue!Owned(hand[w].copy) ]_vars

(* "Irreversible claim": a claimed row without a container, and every row  *)
(* from "publishing" on, moves only to its one outcome.                    *)
NoReplay ==
  [][ attempt # None =>
        /\ attempt' # None /\ attempt'.key = attempt.key
        /\ attempt.entered => attempt'.entered
        /\ Has({"publishing"}) =>
             attempt'.status \in {"publishing", "published",
                                  "reconciliation_required"}
        /\ Has({"published", "failed", "reconciliation_required"}) =>
             attempt' = attempt ]_vars
-----------------------------------------------------------------------------
(***************************************************************************)
(* The strengthening behind these properties.                              *)
(***************************************************************************)
Making  == {"create", "record", "refuse"}
Sending == {"publish", "publication", "unknown"}
Driving == {"verify", "claim", "begin", "poll", "mark", "invalid", "send",
            "result", "outcome"} \union Making \union Sending

\* Whose row a caller drives, and what its local copy of the row still says.
CallerInv ==
  \A c \in Caller :
    /\ c \in Direct /\ call[c].at # "idle" => call[c].pass = "publish"
    /\ call[c].at \in Driving =>
         attempt # None /\ attempt.key = Key(c) /\ call[c].pass = "publish"
    /\ c \in Worker /\ call[c].pass = "publish" =>
         bound /\ attempt # None /\ attempt.key = "schedule"
    /\ call[c].at = "outcome" => call[c].row # None
    /\ call[c].row # None =>
         /\ attempt # None
         /\ call[c].row.status = "published" => attempt.status = "published"

\* Who is making the container is alone, and the row waits for the outcome.
MakerInv ==
  \A c \in Caller : call[c].at \in Making =>
    /\ attempt.entered /\ attempt.status = "pending"
    /\ call[c].at = "create" => made = 0
    /\ call[c].at = "record" => made = 1
    /\ \A d \in Caller : call[d].at \in Making => d = c

\* So is who is publishing it.
SenderInv ==
  \A c \in Caller : call[c].at \in Sending =>
    /\ attempt.status = "publishing"
    /\ call[c].at = "publish" => sent = 0
    /\ call[c].at = "publication" => sent = 1
    /\ \A d \in Caller : call[d].at \in Sending => d = c

\* What the row says of the provider, before and after the two calls.
ProviderInv ==
  /\ attempt = None \/ ~attempt.entered => made = 0 /\ sent = 0
  /\ attempt # None /\ ~attempt.entered => Unstarted(attempt)

IInv ==
  /\ TypeOK /\ CallerInv /\ MakerInv /\ SenderInv /\ ProviderInv
  /\ AtMostOnce /\ RowIsTruthful /\ SucceededIsPublished
-----------------------------------------------------------------------------
(* A run that does not die reaches the end of its batch (every provider    *)
(* call returns or times out), and the scheduler claims a due job.         *)
Fairness ==
  /\ WF_vars(\E w \in Worker : WorkerStep(w))
  /\ WF_vars(Discover)
  /\ SF_vars(\E w \in Worker : RunClaims(w))
LiveSpec == Spec /\ Fairness

(* runDueJobs, discover: a due schedule that stays approved is settled:    *)
(* published, failed or out of attempts, or lost with a run that died.     *)
ScheduleSettles ==
  <>(~approved \/ Queue!Is(Schedule, Queue!Settled) \/ Queue!Orphaned(Schedule))
=============================================================================
