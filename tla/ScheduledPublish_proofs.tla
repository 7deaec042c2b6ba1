----------------------- MODULE ScheduledPublish_proofs -----------------------
(***************************************************************************)
(* Proofs about ScheduledPublish for every set of runs and direct requests *)
(* and every number of claims, lost runs and orders.  What is proved of    *)
(* JobQueue holds of the schedule's job.                                   *)
(***************************************************************************)
EXTENDS ScheduledPublish, TLAPS

Proved == INSTANCE JobQueue_proofs WITH Job <- {Schedule}, BatchSize <- 1

LEMMA SameInit == Queue!QueueInit <=> Proved!QueueInit
BY DEF Queue!QueueInit, Proved!QueueInit, Queue!AtRest, Proved!AtRest

LEMMA SameOwned == \A c : Queue!Owned(c) <=> Proved!Owned(c)
BY DEF Queue!Owned, Proved!Owned, Queue!Is, Proved!Is

(* The transitions of the queue are the ones proved about.                 *)
LEMMA SameSteps ==
  /\ \A j : Queue!Enqueue(j) <=> Proved!Enqueue(j)
  /\ \A j, s : Queue!Order(j, s) <=> Proved!Order(j, s)
  /\ \A w, S : Queue!Claim(w, S) <=> Proved!Claim(w, S)
  /\ \A w : Queue!TakeUp(w) <=> Proved!TakeUp(w)
  /\ \A w : Queue!Complete(w) <=> Proved!Complete(w)
  /\ \A w : Queue!Leave(w) <=> Proved!Leave(w)
  /\ \A w, b : Queue!Raise(w, b) <=> Proved!Raise(w, b)
  /\ \A w : Queue!FailRead(w) <=> Proved!FailRead(w)
  /\ \A w : Queue!FailWrite(w) <=> Proved!FailWrite(w)
  /\ \A w : Queue!Abort(w) <=> Proved!Abort(w)
<1>1. \A j : Queue!Enqueue(j) <=> Proved!Enqueue(j)
  BY DEF Queue!Enqueue, Proved!Enqueue
<1>2. \A j, s : Queue!Order(j, s) <=> Proved!Order(j, s)
  BY DEF Queue!Order, Proved!Order, Queue!Released, Proved!Released
<1>3. \A w, S : Queue!Claim(w, S) <=> Proved!Claim(w, S)
  BY DEF Queue!Claim, Proved!Claim, Queue!Busy, Proved!Busy, Queue!Claimable,
         Proved!Claimable, Queue!Taken, Proved!Taken, Queue!Handed, Proved!Handed,
         Queue!Is, Proved!Is, Queue!Waiting, Proved!Waiting, Queue!Cardinality,
         Proved!Cardinality
<1>4. \A w : Queue!TakeUp(w) <=> Proved!TakeUp(w)
  BY SameOwned DEF Queue!TakeUp, Proved!TakeUp
<1>5. \A w : Queue!Complete(w) <=> Proved!Complete(w)
  BY SameOwned DEF Queue!Complete, Proved!Complete, Queue!Released,
     Proved!Released, Queue!AtRest, Proved!AtRest
<1>6. \A w : Queue!Leave(w) <=> Proved!Leave(w)
  BY SameOwned DEF Queue!Leave, Proved!Leave, Queue!AtRest, Proved!AtRest
<1>7. \A w, b : Queue!Raise(w, b) <=> Proved!Raise(w, b)
  BY DEF Queue!Raise, Proved!Raise
<1>8. \A w : Queue!FailRead(w) <=> Proved!FailRead(w)
  BY SameOwned DEF Queue!FailRead, Proved!FailRead, Queue!AtRest, Proved!AtRest
<1>9. \A w : Queue!FailWrite(w) <=> Proved!FailWrite(w)
  BY SameOwned DEF Queue!FailWrite, Proved!FailWrite, Queue!AtRest, Proved!AtRest,
     Queue!Writable, Proved!Writable, Queue!AfterFailure, Proved!AfterFailure
<1>10. \A w : Queue!Abort(w) <=> Proved!Abort(w)
  BY DEF Queue!Abort, Proved!Abort, Queue!Busy, Proved!Busy, Queue!Copies,
     Proved!Copies, Queue!AtRest, Proved!AtRest
<1>. QED
  BY <1>1, <1>2, <1>3, <1>4, <1>5, <1>6, <1>7, <1>8, <1>9, <1>10

(* The steps, one name each; a caller is a run or a direct request.        *)
LEMMA Steps ==
  ASSUME [Next]_vars
  PROVE  \/ UNCHANGED vars
         \/ Discover \/ EditContent \/ AdminOrders
         \/ \E w \in Worker : \/ RunStep(w) \/ RunClaims(w) \/ RunDies(w)
                              \/ Begin(w) \/ Prepare(w) \/ Recheck(w)
                              \/ CommitBinding(w)
         \/ \E c \in Direct : StartDirect(c) \/ RequestDies(c)
         \/ \E c \in Caller : Publishing(c)
BY DEF Next, WorkerStep, Caller

(* Whatever moves, the queue takes a step of its own or none.              *)
LEMMA QueueSteps ==
  ASSUME [Next]_vars
  PROVE  [Proved!QueueNext]_(Proved!queue)
<1>. DEFINE QStep ==
       \/ Queue!Enqueue(Schedule)
       \/ \E s \in {"pending", "cancelled"} : Queue!Order(Schedule, s)
       \/ \E w \in Worker :
            \/ Queue!Claim(w, {Schedule}) \/ Queue!TakeUp(w)
            \/ Queue!Complete(w) \/ Queue!Leave(w)
            \/ \E b \in BOOLEAN : Queue!Raise(w, b)
            \/ Queue!FailRead(w) \/ Queue!FailWrite(w) \/ Queue!Abort(w)
<1>1. QStep => Proved!QueueNext
  BY SameSteps DEF Proved!QueueNext, Proved!WorkerStep, Proved!RetryJob,
     Proved!CancelJob
<1>2. ASSUME NEW c \in Caller, Publishing(c)
      PROVE  QStep \/ UNCHANGED queue
  <2>1. ASSUME NEW b \in BOOLEAN, Throw(c, b)
        PROVE  QStep \/ UNCHANGED queue
    BY <2>1 DEF Throw
  <2>2. ASSUME c \in Worker, Yield(c) PROVE QStep
    BY <2>2 DEF Yield
  <2>3. \/ UNCHANGED queue
        \/ \E b \in BOOLEAN : Throw(c, b)
        \/ c \in Worker /\ Yield(c)
        \/ c \in Worker /\ Queue!Complete(c)
    <3>1. CASE Outcome(c)
      <4>. Resumable(call[c].row) \in BOOLEAN
        BY DEF Resumable
      <4>. QED
        BY <3>1 DEF Outcome
    <3>2. CASE Lookup(c) \/ Authorize(c) \/ Enter(c) \/ Fail(c)
      BY <3>2 DEF Lookup, Authorize, Enter, Fail
    <3>3. CASE UNCHANGED queue
      BY <3>3
    <3>. QED
      BY <1>2, <3>1, <3>2, <3>3 DEF Publishing, Verify, CreateContainer,
         RecordContainer, Refuse, BeginProcessing, Poll, MarkReady, MarkInvalid,
         ClaimPublish, PublishContainer, RecordPublication, RecordUnknown, Result
  <2>. QED
    BY <2>1, <2>2, <2>3
<1>3. QStep \/ UNCHANGED queue
  BY <1>2, Steps DEF Discover, EditContent, AdminOrders, RunStep, RunClaims,
     RunDies, Begin, Prepare, Recheck, Snapshot, CommitBinding, StartDirect,
     RequestDies, Throw, Yield, Queue!RetryJob, Queue!CancelJob, vars
<1>. QED
  BY <1>1, <1>3 DEF Proved!queue, queue

(* The schedule's job is a job: no request, run or publication touches its *)
(* row except through the queue, so ScheduledPublish implements JobQueue.  *)
THEOREM ScheduleIsAJob == Spec => Proved!QueueSpec
<1>1. Init => Proved!QueueInit
  BY SameInit DEF Init
<1>. QED
  BY <1>1, QueueSteps, PTL DEF Spec, Proved!QueueSpec

LEMMA QueueHolds == Spec => []Proved!IInv
<1>1. Proved!QueueAssumption /\ Proved!NoneAssumption
  BY BoundsAssumption, NoneAssumption
  DEF Proved!QueueAssumption, Proved!NoneAssumption, Queue!Row, Queue!Copy,
      Proved!Row, Proved!Copy, Proved!Status, Queue!Status
<1>2. Proved!QueueSpec => []Proved!IInv
  BY <1>1, Proved!Inductive
<1>. QED
  BY <1>2, ScheduleIsAJob
-----------------------------------------------------------------------------
(* The columns of the row and what a caller holds stay in their domains.   *)
LEMMA RowFacts ==
  /\ None \notin Attempt
  /\ \A r \in Attempt, s \in Stage : [r EXCEPT !.status = s] \in Attempt
  /\ \A r \in Attempt : [r EXCEPT !.entered = TRUE] \in Attempt
  /\ \A r \in Attempt, s \in Stage :
       [r EXCEPT !.status = s, !.container = TRUE] \in Attempt
  /\ \A c \in Caller : NewAttempt(c) \in Attempt
BY NoneAssumption DEF Attempt, NewAttempt, Key, Stage

(* A caller's step leaves the calls of the others alone.                   *)
LEMMA OneCall ==
  ASSUME call \in [Caller -> Call],
         attempt \in Attempt \union {None}, attempt' \in Attempt \union {None},
         NEW c \in Caller,
         \/ Publishing(c)
         \/ c \in Worker /\ (\/ RunDies(c) \/ Begin(c) \/ Prepare(c) \/ Recheck(c)
                             \/ CommitBinding(c))
         \/ c \in Direct /\ (StartDirect(c) \/ RequestDies(c))
  PROVE  \E x \in Call : call' = [call EXCEPT ![c] = x]
<1>. DEFINE Moves == \E x \in Call : call' = [call EXCEPT ![c] = x]
<1>1. ASSUME call' = [call EXCEPT ![c] = AtRest] PROVE Moves
  BY <1>1 DEF AtRest, Call, Place, Pass
<1>2. ASSUME NEW p \in Place, Goto(c, p) PROVE Moves
  <2>. [call[c] EXCEPT !.at = p] \in Call
    BY DEF Call
  <2>. QED
    BY <1>2 DEF Goto
<1>3. ASSUME NEW r \in Attempt \union {None}, NEW p \in Place,
             call' = [call EXCEPT ![c].row = r, ![c].at = p]
      PROVE  Moves
  <2>. [call[c] EXCEPT !.row = r, !.at = p] \in Call
    BY DEF Call
  <2>. QED
    BY <1>3
<1>4. ASSUME NEW q \in Pass, NEW p \in Place,
             call' = [call EXCEPT ![c] = [at |-> p, pass |-> q, row |-> None]]
      PROVE  Moves
  BY <1>4 DEF Call
<1>5. ASSUME NEW b, Throw(c, b) PROVE Moves
  BY <1>1, <1>5 DEF Throw
<1>6. ASSUME NEW r \in Attempt \union {None}, Returned(c, r) PROVE Moves
  BY <1>3, <1>6 DEF Returned, Place
<1>7. CASE Lookup(c)
  BY <1>3, <1>5, <1>6, <1>7 DEF Lookup, Place
<1>8. CASE Authorize(c)
  BY <1>1, <1>3, <1>5, <1>6, <1>8 DEF Authorize, Yield, Place
<1>9. CASE Enter(c) \/ Fail(c)
  BY <1>1, <1>2, <1>5, <1>9 DEF Enter, Fail, Yield, Place
<1>10. CASE Outcome(c) \/ (c \in Worker /\ RunDies(c)) \/ (c \in Direct /\ RequestDies(c))
  BY <1>1, <1>5, <1>10 DEF Outcome, RunDies, RequestDies
<1>11. CASE Result(c)
  BY <1>3, <1>11 DEF Result, Place
<1>12. CASE c \in Worker /\ (Begin(c) \/ Prepare(c) \/ Recheck(c))
  BY <1>1, <1>2, <1>5, <1>12 DEF Begin, Prepare, Recheck, Snapshot, Yield, Place
<1>13. CASE (c \in Worker /\ CommitBinding(c)) \/ (c \in Direct /\ StartDirect(c))
  BY <1>1, <1>4, <1>13 DEF CommitBinding, StartDirect, Yield, Place, Pass
<1>14. CASE \/ Verify(c) \/ CreateContainer(c) \/ RecordContainer(c) \/ Refuse(c)
            \/ BeginProcessing(c) \/ Poll(c) \/ MarkReady(c) \/ MarkInvalid(c)
            \/ ClaimPublish(c) \/ PublishContainer(c) \/ RecordPublication(c)
            \/ RecordUnknown(c)
  BY <1>2, <1>14 DEF Verify, CreateContainer, RecordContainer, Refuse,
     BeginProcessing, Poll, MarkReady, MarkInvalid, ClaimPublish,
     PublishContainer, RecordPublication, RecordUnknown, Place
<1>. QED
  BY <1>7, <1>8, <1>9, <1>10, <1>11, <1>12, <1>13, <1>14 DEF Publishing
-----------------------------------------------------------------------------
(* How the row of the attempt moves: it is inserted, entered, gets its     *)
(* container, and goes from stage to stage, each by a caller in its place. *)
Ladder == {<<"refuse", "pending", "failed">>,
           <<"begin", "container_created", "processing">>,
           <<"mark", "processing", "ready">>,
           <<"invalid", "processing", "failed">>,
           <<"send", "ready", "publishing">>,
           <<"publication", "publishing", "published">>,
           <<"unknown", "publishing", "reconciliation_required">>}

Inserts(c) == At(c, "authorize") /\ attempt = None /\ attempt' = NewAttempt(c)
Enters(c)  == /\ At(c, "claim") /\ Unstarted(attempt)
              /\ Fenced(c) /\ approved
              /\ attempt' = [attempt EXCEPT !.entered = TRUE]
              /\ call'[c].at = "create"
Makes(c)   == /\ At(c, "record") /\ attempt.status = "pending"
              /\ attempt' = [attempt EXCEPT !.status = "container_created",
                                            !.container = TRUE]
Climbs(c) == \E t \in Ladder :
                /\ At(c, t[1]) /\ attempt.status = t[2]
                /\ attempt' = [attempt EXCEPT !.status = t[3]]

LEMMA RowMoves ==
  ASSUME call \in [Caller -> Call], NEW c \in Caller, Publishing(c)
  PROVE  UNCHANGED attempt \/ Inserts(c) \/ Enters(c) \/ Makes(c) \/ Climbs(c)
<1>1. CASE Authorize(c)
  BY <1>1 DEF Authorize, Inserts
<1>2. CASE Enter(c)
  BY <1>2 DEF Enter, Enters, EntryFence, EntryClaimable, Goto, Call
<1>3. CASE RecordContainer(c)
  BY <1>3 DEF RecordContainer, Makes
<1>4. CASE \/ Refuse(c) \/ BeginProcessing(c) \/ MarkReady(c) \/ MarkInvalid(c)
           \/ ClaimPublish(c) \/ RecordPublication(c) \/ RecordUnknown(c)
  BY <1>4 DEF Refuse, BeginProcessing, MarkReady, MarkInvalid, ClaimPublish,
     RecordPublication, RecordUnknown, Transition, Sendable, UnknownStage,
     Climbs, Ladder
<1>. QED
  BY <1>1, <1>2, <1>3, <1>4 DEF Publishing, Lookup, Verify, CreateContainer,
     Poll, PublishContainer, Result, Outcome, Fail

(* How a caller comes to the two calls of the provider, and what they do.  *)
Mover(c) == \/ Publishing(c)
            \/ c \in Worker /\ (\/ RunDies(c) \/ Begin(c) \/ Prepare(c)
                                \/ Recheck(c) \/ CommitBinding(c))
            \/ c \in Direct /\ (StartDirect(c) \/ RequestDies(c))

Provides(c) ==
  LET here == call[c].at there == call'[c].at IN
  /\ there = "create" => Enters(c)
  /\ there = "record" => here = "create" /\ made' = made + 1
  /\ there = "refuse" =>
       \/ here = "create" /\ made' \in {made, made + 1}
       \/ here = "record" /\ attempt' = attempt
  /\ there = "publish" =>
       /\ here = "send" /\ attempt.status = "ready"
       /\ attempt' = [attempt EXCEPT !.status = "publishing"]
  /\ there = "publication" => here = "publish" /\ sent' = sent + 1
  /\ there = "unknown" =>
       \/ here = "publish" /\ sent' \in {sent, sent + 1}
       \/ here = "publication" /\ attempt' = attempt
  /\ made' = made \/ (here = "create" /\ made' = made + 1)
  /\ sent' = sent \/ (here = "publish" /\ sent' = sent + 1)
  /\ here \in {"create", "publish"} => attempt' = attempt

LEMMA ProviderMoves ==
  ASSUME call \in [Caller -> Call], NEW c \in Caller, Mover(c)
  PROVE  Provides(c)
<1>. USE DEF Call, Goto, At, provider
<1>1. ASSUME NEW b, Throw(c, b) PROVE call'[c].at = "idle"
  BY <1>1 DEF Throw, AtRest
<1>2. ASSUME Yield(c) PROVE call'[c].at = "idle"
  BY <1>2 DEF Yield, AtRest
<1>3. ASSUME NEW r, Returned(c, r) PROVE call'[c].at \in {"bind", "outcome"}
  BY <1>3 DEF Returned
<1>14. ASSUME UNCHANGED <<attempt, provider>>,
              call'[c].at \notin {"create", "record", "refuse", "publish",
                                  "publication", "unknown"}
       PROVE  Provides(c)
  BY <1>14 DEF Provides
<1>4. CASE Lookup(c)
  BY <1>1, <1>3, <1>4 DEF Lookup, Provides
<1>5. CASE Authorize(c)
  BY <1>1, <1>2, <1>3, <1>5 DEF Authorize, Provides
<1>6. CASE Enter(c)
  BY <1>1, <1>2, <1>6 DEF Enter, Enters, EntryFence, EntryClaimable, Provides
<1>7. CASE Outcome(c) \/ Fail(c)
  <2>1. call'[c].at = "idle" /\ UNCHANGED <<attempt, provider>>
    <3>1. CASE Outcome(c)
      <4>1. call' = [call EXCEPT ![c] = AtRest] /\ UNCHANGED <<attempt, provider>>
        BY <3>1, Zenon DEF Outcome, Throw
      <4>. QED
        BY <4>1 DEF AtRest
    <3>2. CASE Fail(c)
      BY <3>2, <1>1 DEF Fail
    <3>. QED
      BY <1>7, <3>1, <3>2
  <2>. QED
    BY <2>1, <1>14
<1>8. CASE CreateContainer(c) \/ RecordContainer(c) \/ Refuse(c)
  BY <1>8 DEF CreateContainer, RecordContainer, Refuse, Provides
<1>9. CASE PublishContainer(c) \/ RecordPublication(c) \/ RecordUnknown(c)
  BY <1>9 DEF PublishContainer, RecordPublication, RecordUnknown, Provides
<1>10. CASE ClaimPublish(c)
  BY <1>10 DEF ClaimPublish, Sendable, Provides
<1>11. CASE Verify(c) \/ BeginProcessing(c) \/ Poll(c) \/ MarkReady(c)
            \/ MarkInvalid(c) \/ Result(c)
  BY <1>11 DEF Verify, BeginProcessing, Poll, MarkReady, MarkInvalid, Result,
     Provides
<1>12. CASE c \in Worker /\ (\/ RunDies(c) \/ Begin(c) \/ Prepare(c)
                             \/ Recheck(c) \/ CommitBinding(c))
  <2>1. /\ call'[c].at \in {"idle", "prepare", "recheck", "lookup"}
        /\ UNCHANGED <<attempt, provider>>
    <3>1. CASE RunDies(c)
      BY <3>1 DEF RunDies, AtRest
    <3>2. CASE Begin(c) \/ Recheck(c)
      BY <3>2, <1>1, <1>2 DEF Begin, Recheck, Snapshot
    <3>3. CASE Prepare(c)
      BY <3>3 DEF Prepare
    <3>4. CASE CommitBinding(c)
      BY <3>4, <1>2 DEF CommitBinding
    <3>. QED
      BY <1>12, <3>1, <3>2, <3>3, <3>4
  <2>. QED
    BY <2>1, <1>14
<1>13. CASE c \in Direct /\ (StartDirect(c) \/ RequestDies(c))
  BY <1>13 DEF StartDirect, RequestDies, AtRest, Provides
<1>. QED
  BY <1>4, <1>5, <1>6, <1>7, <1>8, <1>9, <1>10, <1>11, <1>12, <1>13
  DEF Mover, Publishing

(* A step is a caller's, or moves neither calls nor row nor provider.      *)
LEMMA WhoMoves ==
  ASSUME [Next]_vars
  PROVE  \/ UNCHANGED <<call, attempt, provider>>
         \/ \E c \in Caller : Mover(c)
BY Steps DEF vars, Discover, EditContent, AdminOrders, RunStep, RunClaims, Mover,
   Caller

(* A caller that moves the row is publishing.                              *)
LEMMA RowSteps ==
  ASSUME call \in [Caller -> Call], NEW c \in Caller, Mover(c)
  PROVE  UNCHANGED attempt \/ Inserts(c) \/ Enters(c) \/ Makes(c) \/ Climbs(c)
<1>1. CASE Publishing(c)
  BY <1>1, RowMoves
<1>2. CASE ~Publishing(c)
  BY <1>2 DEF Mover, RunDies, Begin, Prepare, Recheck, CommitBinding, Snapshot,
     StartDirect, RequestDies
<1>. QED
  BY <1>1, <1>2

LEMMA RowTypeStep ==
  ASSUME TypeOK, CallerInv, [Next]_vars
  PROVE  attempt' \in Attempt \union {None}
<1>1. ASSUME NEW c \in Caller, Mover(c) PROVE attempt' \in Attempt \union {None}
  <2>. /\ call \in [Caller -> Call] /\ attempt \in Attempt \union {None}
    BY DEF TypeOK
  <2>1. CASE UNCHANGED attempt \/ Inserts(c)
    BY <2>1, RowFacts DEF Inserts
  <2>2. CASE Enters(c)
    BY <2>2, RowFacts DEF Enters, At, CallerInv, Driving
  <2>3. CASE Makes(c)
    BY <2>3, RowFacts DEF Makes, At, CallerInv, Driving, Making, Stage
  <2>4. CASE Climbs(c)
    <3>1. attempt # None
      BY <2>4 DEF Climbs, Ladder, At, CallerInv, Driving, Making, Sending
    <3>2. PICK t \in Ladder : attempt' = [attempt EXCEPT !.status = t[3]]
      BY <2>4 DEF Climbs
    <3>3. t[3] \in Stage
      BY DEF Ladder, Stage
    <3>. QED
      BY <3>1, <3>2, <3>3, RowFacts
  <2>. QED
    BY <1>1, RowSteps, <2>1, <2>2, <2>3, <2>4
<1>. QED
  BY <1>1, WhoMoves DEF TypeOK

LEMMA TypeStep ==
  ASSUME TypeOK, CallerInv, Proved!TypeOK', [Next]_vars
  PROVE  TypeOK'
<1>1. Queue!TypeOK'
  <2>. Proved!TypeOK' => Queue!TypeOK'
    BY DEF Proved!TypeOK, Queue!TypeOK, Proved!Row, Queue!Row, Proved!Copy,
       Queue!Copy, Proved!Status, Queue!Status, Proved!Place, Queue!Place
  <2>. QED
    OBVIOUS
<1>2. attempt' \in Attempt \union {None}
  BY RowTypeStep
<1>3. call' \in [Caller -> Call] /\ made' \in Nat /\ sent' \in Nat
  <2>1. ASSUME NEW c \in Caller, Mover(c)
        PROVE  call' \in [Caller -> Call] /\ made' \in Nat /\ sent' \in Nat
    <3>1. PICK x \in Call : call' = [call EXCEPT ![c] = x]
      BY <2>1, <1>2, OneCall DEF Mover, TypeOK
    <3>2. Provides(c)
      BY <2>1, ProviderMoves DEF TypeOK
    <3>. QED
      BY <3>1, <3>2 DEF Provides, TypeOK
  <2>. QED
    BY <2>1, WhoMoves DEF TypeOK, provider
<1>4. approved' \in BOOLEAN /\ bound' \in BOOLEAN
  <2>1. ASSUME NEW c \in Caller, Publishing(c)
        PROVE  approved' \in BOOLEAN /\ bound' \in BOOLEAN
    BY <2>1 DEF TypeOK, Publishing, Lookup, Authorize, Verify, Enter,
       CreateContainer, RecordContainer, Refuse, BeginProcessing, Poll, MarkReady,
       MarkInvalid, ClaimPublish, PublishContainer, RecordPublication,
       RecordUnknown, Result, Outcome, Fail
  <2>. QED
    BY <2>1, Steps DEF TypeOK, vars, Discover, EditContent, AdminOrders, RunStep,
       RunClaims, RunDies, Begin, Prepare, Recheck, Snapshot, CommitBinding,
       StartDirect, RequestDies
<1>. QED
  BY <1>1, <1>2, <1>3, <1>4 DEF TypeOK
-----------------------------------------------------------------------------
(* What one caller's row and another's place say of each other: the row    *)
(* keeps its key, and a published row is final.                            *)
LEMMA RowKeeps ==
  ASSUME TypeOK, CallerInv, NEW c \in Caller, Mover(c), attempt # None
  PROVE  /\ attempt' # None /\ attempt'.key = attempt.key
         /\ attempt.entered => attempt'.entered
         /\ attempt.status = "published" => attempt' = attempt
<1>. /\ call \in [Caller -> Call] /\ attempt \in Attempt
  BY DEF TypeOK
<1>1. CASE UNCHANGED attempt \/ Inserts(c)
  BY <1>1 DEF Inserts
<1>2. CASE Enters(c)
  <2>1. attempt' \in Attempt
    BY <1>2, RowFacts DEF Enters
  <2>. QED
    BY <1>2, <2>1, NoneAssumption DEF Enters, Unstarted, Attempt
<1>3. CASE Makes(c)
  <2>1. attempt' \in Attempt
    BY <1>3, RowFacts DEF Makes, Stage
  <2>. QED
    BY <1>3, <2>1, NoneAssumption DEF Makes, Attempt
<1>4. CASE Climbs(c)
  <2>1. PICK t \in Ladder : /\ attempt.status = t[2]
                            /\ attempt' = [attempt EXCEPT !.status = t[3]]
    BY <1>4 DEF Climbs
  <2>2. t[3] \in Stage /\ t[2] # "published"
    BY DEF Ladder, Stage
  <2>3. attempt' \in Attempt
    BY <2>1, <2>2, RowFacts
  <2>. QED
    BY <2>1, <2>2, <2>3, NoneAssumption DEF Attempt
<1>. QED
  BY RowSteps, <1>1, <1>2, <1>3, <1>4

(* An execution stays bound.                                               *)
LEMMA BoundStays ==
  ASSUME TypeOK, [Next]_vars
  PROVE  bound => bound'
<1>1. ASSUME NEW c \in Caller, Authorize(c) PROVE bound => bound'
  <2>. bound' = (bound \/ call[c].pass = "bind") \/ bound' = bound
    BY <1>1, Zenon DEF Authorize
  <2>. QED
    BY Zenon
<1>2. ASSUME NEW c \in Caller, Publishing(c) PROVE bound => bound'
  BY <1>1, <1>2 DEF Publishing, Lookup, Verify, Enter, CreateContainer,
     RecordContainer, Refuse, BeginProcessing, Poll, MarkReady, MarkInvalid,
     ClaimPublish, PublishContainer, RecordPublication, RecordUnknown, Result,
     Outcome, Fail
<1>. QED
  BY <1>2, Steps DEF vars, Discover, EditContent, AdminOrders, RunStep, RunClaims,
     RunDies, Begin, Prepare, Recheck, Snapshot, CommitBinding, StartDirect,
     RequestDies

(* How a caller comes to drive the row, and what it takes a copy of.       *)
Drives(c) ==
  LET here == call[c] there == call'[c] IN
  /\ c \in Direct /\ there.at # "idle" =>
       there.pass = "publish" \/ (here.at # "idle" /\ there.pass = here.pass)
  /\ there.at \in Driving =>
       \/ here.at \in Driving /\ there.pass = here.pass
       \/ /\ here.pass = "publish" /\ there.pass = here.pass
          /\ attempt' # None /\ attempt'.key = Key(c)
  /\ c \in Worker /\ there.pass = "publish" =>
       \/ here.pass = "publish"
       \/ bound' /\ attempt' # None /\ attempt'.key = "schedule"
  /\ there.at = "outcome" => there.row # None
  /\ there.row # None => there.row = here.row \/ there.row = attempt'

LEMMA DriverMoves ==
  ASSUME TypeOK, CallerInv, NEW c \in Caller, Mover(c)
  PROVE  Drives(c)
<1>. USE DEF Goto, At
<1>. /\ call \in [Caller -> Call] /\ attempt \in Attempt \union {None}
     /\ call[c] \in Call /\ c \in DOMAIN call
  BY DEF TypeOK
<1>1. ASSUME call' = [call EXCEPT ![c] = AtRest] PROVE Drives(c)
  BY <1>1 DEF AtRest, Drives, Driving, Making, Sending
<1>2. ASSUME NEW b, Throw(c, b) PROVE Drives(c)
  BY <1>1, <1>2 DEF Throw
<1>3. ASSUME Yield(c) PROVE Drives(c)
  BY <1>1, <1>3 DEF Yield
<1>4. ASSUME NEW r, r = attempt', attempt'.key = Key(c), attempt' # None, Returned(c, r),
             call[c].at # "idle"
      PROVE  Drives(c)
  BY <1>4 DEF Returned, Call, Pass, Drives, Driving, Making, Sending
<1>5. CASE Lookup(c)
  <2>1. CASE \E b : Throw(c, b)
    BY <2>1, <1>2
  <2>2. CASE Mine(c) /\ ~Drivable(attempt) /\ Returned(c, attempt)
    <3>. attempt # None /\ attempt.key = Key(c) /\ attempt' = attempt
      BY <1>5, <2>2 DEF Mine, Drivable, Lookup
    <3>. QED
      BY <2>2, <1>4, <1>5 DEF Lookup
  <2>3. CASE call' = [call EXCEPT ![c].row = attempt, ![c].at = "authorize"]
    BY <1>5, <2>3 DEF Lookup, Drives, Driving, Making, Sending, Call
  <2>. QED
    BY <1>5, <2>1, <2>2, <2>3 DEF Lookup
<1>6. CASE Authorize(c)
  <2>1. CASE /\ attempt # None /\ attempt.key = Key(c) /\ attempt' = attempt
             /\ Returned(c, attempt) /\ call[c].at # "idle"
    BY <1>4, <2>1
  <2>2. CASE /\ attempt' = IF attempt = None THEN NewAttempt(c) ELSE attempt
             /\ attempt # None => attempt.key = Key(c)
             /\ call[c].at # "idle"
             /\ IF call[c].pass = "bind" \/ ~Drivable(attempt')
                THEN Returned(c, attempt')
                ELSE call' = [call EXCEPT ![c].row = attempt', ![c].at = "verify"]
    <3>1. attempt' # None /\ attempt'.key = Key(c)
      BY <2>2, RowFacts DEF NewAttempt
    <3>. QED
      BY <1>4, <2>2, <3>1 DEF Drives, Driving, Making, Sending, Call, Pass
  <2>. QED
    BY <1>2, <1>3, <1>6, <2>1, <2>2 DEF Authorize
<1>7. CASE Enter(c)
  BY <1>7, <1>2, <1>3 DEF Enter, Drives, Driving, Making, Sending, Call
<1>8. CASE Outcome(c)
  <2>. call' = [call EXCEPT ![c] = AtRest]
    BY <1>8, Zenon DEF Outcome, Throw
  <2>. QED
    BY <1>1
<1>9. CASE Fail(c)
  BY <1>9, <1>2 DEF Fail
<1>10. CASE Result(c)
  BY <1>10 DEF Result, Drives, Driving, Making, Sending, Call, CallerInv
<1>11. CASE \/ Verify(c) \/ CreateContainer(c) \/ RecordContainer(c) \/ Refuse(c)
            \/ BeginProcessing(c) \/ Poll(c) \/ MarkReady(c) \/ MarkInvalid(c)
            \/ ClaimPublish(c) \/ PublishContainer(c) \/ RecordPublication(c)
            \/ RecordUnknown(c)
  <2>1. /\ call[c].at \in Driving \ {"outcome"}
        /\ \E p \in Driving \ {"outcome"} : Goto(c, p)
    BY <1>11 DEF Verify, CreateContainer, RecordContainer, Refuse,
       BeginProcessing, Poll, MarkReady, MarkInvalid, ClaimPublish,
       PublishContainer, RecordPublication, RecordUnknown, Driving, Making, Sending
  <2>. QED
    BY <2>1 DEF Drives, Driving, Making, Sending, Call
<1>12. CASE c \in Worker /\ (Begin(c) \/ Prepare(c) \/ Recheck(c))
  <2>1. \/ \E b : Throw(c, b)
        \/ Yield(c)
        \/ \E p \in {"prepare", "recheck", "lookup"} : Goto(c, p)
    BY <1>12 DEF Begin, Prepare, Recheck, Snapshot
  <2>2. c \notin Direct
    BY <1>12, CallerAssumption
  <2>. QED
    BY <1>2, <1>3, <2>1, <2>2 DEF Drives, Driving, Making, Sending, Call
<1>13. CASE \/ c \in Worker /\ (RunDies(c) \/ CommitBinding(c))
            \/ c \in Direct /\ (StartDirect(c) \/ RequestDies(c))
  BY <1>13, <1>1, <1>3, CallerAssumption
  DEF RunDies, CommitBinding, StartDirect, RequestDies, Drives, Driving, Making,
      Sending, Call
<1>. QED
  BY <1>5, <1>6, <1>7, <1>8, <1>9, <1>10, <1>11, <1>12, <1>13
  DEF Mover, Publishing

LEMMA CallerStep ==
  ASSUME TypeOK, CallerInv, attempt' \in Attempt \union {None}, [Next]_vars
  PROVE  CallerInv'
<1>1. CASE UNCHANGED <<call, attempt, provider>>
  <2>. QED
    BY <1>1, BoundStays DEF CallerInv, Key
<1>2. ASSUME NEW c \in Caller, Mover(c) PROVE CallerInv'
  <2>. /\ call \in [Caller -> Call] /\ attempt \in Attempt \union {None}
    BY DEF TypeOK
  <2>1. PICK x \in Call : call' = [call EXCEPT ![c] = x]
    BY <1>2, OneCall DEF Mover
  <2>2. /\ bound => bound'
        /\ attempt # None =>
             /\ attempt' # None /\ attempt'.key = attempt.key
             /\ attempt.status = "published" => attempt'.status = "published"
    BY <1>2, BoundStays, RowKeeps
  <2>3. ASSUME NEW d \in Caller, d # c
        PROVE  /\ d \in Direct /\ call'[d].at # "idle" => call'[d].pass = "publish"
               /\ call'[d].at \in Driving =>
                    /\ attempt' # None /\ attempt'.key = Key(d)
                    /\ call'[d].pass = "publish"
               /\ d \in Worker /\ call'[d].pass = "publish" =>
                    bound' /\ attempt' # None /\ attempt'.key = "schedule"
               /\ call'[d].at = "outcome" => call'[d].row # None
               /\ call'[d].row # None =>
                    /\ attempt' # None
                    /\ call'[d].row.status = "published" =>
                         attempt'.status = "published"
    <3>. call'[d] = call[d]
      BY <2>1, <2>3
    <3>. QED
      BY <2>2 DEF CallerInv
  <2>4. /\ c \in Direct /\ call'[c].at # "idle" => call'[c].pass = "publish"
        /\ call'[c].at \in Driving =>
             /\ attempt' # None /\ attempt'.key = Key(c)
             /\ call'[c].pass = "publish"
        /\ c \in Worker /\ call'[c].pass = "publish" =>
             bound' /\ attempt' # None /\ attempt'.key = "schedule"
        /\ call'[c].at = "outcome" => call'[c].row # None
        /\ call'[c].row # None =>
             /\ attempt' # None
             /\ call'[c].row.status = "published" => attempt'.status = "published"
    BY <1>2, <2>2, DriverMoves DEF Drives, CallerInv
  <2>. QED
    BY <2>3, <2>4 DEF CallerInv, Key
<1>. QED
  BY <1>1, <1>2, WhoMoves
-----------------------------------------------------------------------------
(* The maker of the container stays alone until the outcome is recorded.   *)
LEMMA MakerStep ==
  ASSUME TypeOK, CallerInv, MakerInv, ProviderInv, [Next]_vars
  PROVE  MakerInv'
<1>1. CASE UNCHANGED <<call, attempt, provider>>
  BY <1>1 DEF MakerInv, provider
<1>2. ASSUME NEW c \in Caller, Mover(c), attempt' \in Attempt \union {None}
      PROVE  MakerInv'
  <2>. /\ call \in [Caller -> Call] /\ attempt \in Attempt \union {None}
       /\ made \in Nat
    BY DEF TypeOK
  <2>1. PICK x \in Call : call' = [call EXCEPT ![c] = x]
    BY <1>2, OneCall DEF Mover
  <2>2. \A d \in Caller \ {c} : call'[d] = call[d]
    BY <2>1
  <2>3. Provides(c)
    BY <1>2, ProviderMoves
  <2>4. ASSUME NEW d \in Caller, call[d].at \in Making, c # d
        PROVE  /\ call[c].at \notin Making /\ call'[c].at \notin Making
               /\ attempt' = attempt /\ made' = made
    <3>1. /\ attempt # None /\ attempt.entered /\ attempt.status = "pending"
          /\ call[c].at \notin Making
      BY <2>4 DEF MakerInv, CallerInv, Driving
    <3>2. ~Inserts(c) /\ ~Enters(c) /\ ~Makes(c)
      BY <3>1 DEF Inserts, Enters, Unstarted, Makes, At, Making
    <3>3. ~Climbs(c)
      BY <3>1 DEF Climbs, Ladder, At, Making
    <3>. QED
      BY <1>2, <2>3, <3>1, <3>2, <3>3, RowSteps DEF Provides, Making
  <2>5. CASE call'[c].at = "create"
    <3>1. /\ Unstarted(attempt) /\ call[c].at = "claim"
          /\ attempt' = [attempt EXCEPT !.entered = TRUE]
      BY <2>3, <2>5 DEF Provides, Enters, At
    <3>2. attempt # None /\ attempt \in Attempt
      BY <3>1 DEF CallerInv, Driving, Making
    <3>3. attempt'.entered /\ attempt'.status = "pending"
      BY <3>1, <3>2 DEF Unstarted, Attempt
    <3>4. \A d \in Caller : call[d].at \notin Making
      BY <3>1 DEF MakerInv, Unstarted
    <3>5. made' = 0
      BY <2>3, <3>1, <3>2 DEF Provides, ProviderInv, Unstarted
    <3>. QED
      BY <2>2, <2>5, <3>3, <3>4, <3>5 DEF MakerInv
  <2>6. CASE call'[c].at \in {"record", "refuse"}
    <3>1. /\ call[c].at \in Making /\ attempt' = attempt
          /\ call'[c].at = "record" => call[c].at = "create" /\ made' = made + 1
      BY <2>3, <2>6 DEF Provides, Making
    <3>. QED
      BY <2>2, <2>6, <3>1 DEF MakerInv, Making
  <2>7. CASE call'[c].at \notin Making
    BY <2>2, <2>4, <2>7 DEF MakerInv
  <2>. QED
    BY <2>5, <2>6, <2>7 DEF Making
<1>. QED
  BY <1>1, <1>2, WhoMoves, RowTypeStep

(* So does the sender of the publication.                                  *)
LEMMA SenderStep ==
  ASSUME TypeOK, CallerInv, SenderInv, RowIsTruthful, [Next]_vars
  PROVE  SenderInv'
<1>1. CASE UNCHANGED <<call, attempt, provider>>
  BY <1>1 DEF SenderInv, provider
<1>2. ASSUME NEW c \in Caller, Mover(c), attempt' \in Attempt \union {None}
      PROVE  SenderInv'
  <2>. /\ call \in [Caller -> Call] /\ attempt \in Attempt \union {None}
       /\ sent \in Nat
    BY DEF TypeOK
  <2>1. PICK x \in Call : call' = [call EXCEPT ![c] = x]
    BY <1>2, OneCall DEF Mover
  <2>2. \A d \in Caller \ {c} : call'[d] = call[d]
    BY <2>1
  <2>3. Provides(c)
    BY <1>2, ProviderMoves
  <2>4. ASSUME NEW d \in Caller, call[d].at \in Sending, c # d
        PROVE  /\ call[c].at \notin Sending /\ call'[c].at \notin Sending
               /\ attempt' = attempt /\ sent' = sent
    <3>1. /\ attempt # None /\ attempt.status = "publishing"
          /\ call[c].at \notin Sending
      BY <2>4 DEF SenderInv, CallerInv, Driving
    <3>2. ~Inserts(c) /\ ~Enters(c) /\ ~Makes(c)
      BY <3>1 DEF Inserts, Enters, Unstarted, Makes
    <3>3. ~Climbs(c)
      BY <3>1 DEF Climbs, Ladder, At, Sending
    <3>. QED
      BY <1>2, <2>3, <3>1, <3>2, <3>3, RowSteps DEF Provides, Sending
  <2>5. CASE call'[c].at = "publish"
    <3>1. /\ attempt.status = "ready" /\ call[c].at = "send"
          /\ attempt' = [attempt EXCEPT !.status = "publishing"]
      BY <2>3, <2>5 DEF Provides
    <3>2. attempt # None /\ attempt \in Attempt
      BY <3>1 DEF CallerInv, Driving
    <3>3. attempt'.status = "publishing"
      BY <3>1, <3>2 DEF Attempt
    <3>4. \A d \in Caller : call[d].at \notin Sending
      BY <3>1 DEF SenderInv
    <3>5. sent' = 0
      BY <2>3, <3>1, <3>2 DEF Provides, RowIsTruthful, Has
    <3>. QED
      BY <2>2, <2>5, <3>3, <3>4, <3>5 DEF SenderInv
  <2>6. CASE call'[c].at \in {"publication", "unknown"}
    <3>1. /\ call[c].at \in Sending /\ attempt' = attempt
          /\ call'[c].at = "publication" =>
               call[c].at = "publish" /\ sent' = sent + 1
      BY <2>3, <2>6 DEF Provides, Sending
    <3>. QED
      BY <2>2, <2>6, <3>1 DEF SenderInv, Sending
  <2>7. CASE call'[c].at \notin Sending
    BY <2>2, <2>4, <2>7 DEF SenderInv
  <2>. QED
    BY <2>5, <2>6, <2>7 DEF Sending
<1>. QED
  BY <1>1, <1>2, WhoMoves, RowTypeStep

(* The row follows what the provider did.                                  *)
LEMMA ProviderStep ==
  ASSUME TypeOK, CallerInv, MakerInv, SenderInv, ProviderInv, AtMostOnce,
         RowIsTruthful, [Next]_vars
  PROVE  ProviderInv' /\ AtMostOnce' /\ RowIsTruthful'
<1>1. CASE UNCHANGED <<call, attempt, provider>>
  BY <1>1 DEF ProviderInv, AtMostOnce, RowIsTruthful, Unstarted, Has, provider
<1>2. ASSUME NEW c \in Caller, Mover(c)
      PROVE  ProviderInv' /\ AtMostOnce' /\ RowIsTruthful'
  <2>. USE DEF ProviderInv, AtMostOnce, RowIsTruthful, Has, Unstarted
  <2>. /\ call \in [Caller -> Call] /\ attempt \in Attempt \union {None}
       /\ made \in Nat /\ sent \in Nat
    BY DEF TypeOK
  <2>1. /\ made' = made \/ (call[c].at = "create" /\ made' = made + 1)
        /\ sent' = sent \/ (call[c].at = "publish" /\ sent' = sent + 1)
        /\ call[c].at \in {"create", "publish"} => attempt' = attempt
    BY <1>2, ProviderMoves DEF Provides
  <2>2. /\ call[c].at \in Driving => attempt # None
        /\ call[c].at \in Making => attempt.entered /\ attempt.status = "pending"
        /\ call[c].at = "create" => made = 0
        /\ call[c].at = "record" => made = 1
        /\ call[c].at \in Sending => attempt.status = "publishing"
        /\ call[c].at = "publish" => sent = 0
        /\ call[c].at = "publication" => sent = 1
    <3>1. call[c].at \in Driving => attempt # None
      BY DEF CallerInv
    <3>2. /\ call[c].at \in Making => attempt.entered /\ attempt.status = "pending"
          /\ call[c].at = "create" => made = 0
          /\ call[c].at = "record" => made = 1
      BY DEF MakerInv, Making
    <3>3. /\ call[c].at \in Sending => attempt.status = "publishing"
          /\ call[c].at = "publish" => sent = 0
          /\ call[c].at = "publication" => sent = 1
      BY DEF SenderInv, Sending
    <3>. QED
      BY <3>1, <3>2, <3>3
  <2>3. CASE UNCHANGED attempt
    BY <2>1, <2>2, <2>3 DEF Driving, Making, Sending
  <2>4. CASE Inserts(c)
    <3>. attempt' # None
      BY <2>4, RowFacts DEF Inserts
    <3>. QED
      BY <2>1, <2>4 DEF Inserts, NewAttempt, At
  <2>5. CASE Enters(c)
    <3>1. attempt # None /\ attempt' \in Attempt /\ attempt'.entered
          /\ attempt'.status = "pending" /\ made' = made /\ sent' = sent
      BY <2>1, <2>2, <2>5, RowFacts DEF Enters, At, Driving, Attempt
    <3>. QED
      BY <2>5, <3>1, RowFacts DEF Enters
  <2>6. CASE Makes(c)
    <3>1. /\ attempt # None /\ made' = made /\ sent' = sent /\ made = 1
          /\ attempt.entered /\ attempt.status = "pending"
      BY <2>1, <2>2, <2>6 DEF Makes, At, Driving, Making
    <3>2. attempt' \in Attempt
      BY <2>6, <3>1, RowFacts DEF Makes, Stage
    <3>3. attempt'.status = "container_created" /\ attempt'.entered
      BY <2>6, <3>1 DEF Makes, Attempt
    <3>. QED
      BY <3>1, <3>2, <3>3, NoneAssumption
  <2>7. CASE Climbs(c)
    <3>1. PICK t \in Ladder : /\ call[c].at = t[1] /\ attempt.status = t[2]
                              /\ attempt' = [attempt EXCEPT !.status = t[3]]
      BY <2>7 DEF Climbs, At
    <3>2. /\ attempt # None /\ made' = made /\ sent' = sent
      BY <2>1, <2>2, <3>1 DEF Ladder, Driving, Making, Sending
    <3>3. t[3] \in Stage
      BY DEF Ladder, Stage
    <3>4. attempt' \in Attempt
      BY <3>1, <3>2, <3>3, RowFacts
    <3>5. attempt'.status = t[3] /\ attempt'.entered = attempt.entered
      BY <3>1, <3>2 DEF Attempt
    <3>6. attempt.entered
      BY <2>2, <3>1, <3>2 DEF Ladder, Making
    <3>7. sent > 0 => t[3] \in {"publishing", "published", "reconciliation_required"}
      BY <3>1, <3>2 DEF Ladder
    <3>8. t[3] = "published" => sent > 0
      BY <2>2, <3>1 DEF Ladder, Sending
    <3>9. t[3] \in {"container_created", "processing", "ready"} => made > 0
      BY <3>1, <3>2 DEF Ladder
    <3>. QED
      BY <3>2, <3>4, <3>5, <3>6, <3>7, <3>8, <3>9, NoneAssumption
  <2>. QED
    BY <1>2, RowSteps, <2>3, <2>4, <2>5, <2>6, <2>7
<1>. QED
  BY <1>1, <1>2, WhoMoves
-----------------------------------------------------------------------------
(* A job succeeds by the outcome of a run, and by nothing else.            *)
LEMMA OnlyOutcomesSucceed ==
  ASSUME TypeOK, [Next]_vars, ~Queue!Is(Schedule, {"succeeded"}),
         Queue!Is(Schedule, {"succeeded"})'
  PROVE  \E w \in Worker : Outcome(w) /\ call[w].row.status = "published"
<1>. USE DEF Queue!Is
<1>. job \in [{Schedule} -> Queue!Row \union {None}]
  BY DEF TypeOK, Queue!TypeOK
<1>1. job' # job
  OBVIOUS
<1>2. ~Queue!Enqueue(Schedule)
  BY DEF Queue!Enqueue
<1>3. ASSUME NEW s \in {"pending", "cancelled"} PROVE ~Queue!Order(Schedule, s)
  BY <1>3 DEF Queue!Order, Queue!Released, Queue!Row
<1>4. ASSUME NEW w \in Worker PROVE ~Queue!Claim(w, {Schedule})
  <2>. SUFFICES ASSUME Queue!Claim(w, {Schedule}) PROVE FALSE
    OBVIOUS
  <2>1. /\ job[Schedule] \in Queue!Row
        /\ job'[Schedule] = Queue!Taken(Schedule)
    BY DEF Queue!Claim, Queue!Claimable
  <2>2. job'[Schedule].status = "processing"
    BY <2>1 DEF Queue!Taken, Queue!Row
  <2>. QED
    BY <2>2
<1>5. \A w \in Worker : ~Queue!FailWrite(w)
  BY DEF Queue!FailWrite, Queue!AfterFailure
<1>6. ASSUME NEW c \in Caller, Publishing(c)
      PROVE  \E w \in Worker : Outcome(w) /\ call[w].row.status = "published"
  <2>1. ~UNCHANGED queue
    BY <1>1 DEF queue
  <2>2. \A b : ~Throw(c, b)
    BY <1>1 DEF Throw, Queue!Raise, queue
  <2>3. ~Yield(c)
    BY <1>1 DEF Yield, Queue!Leave
  <2>4. ~(Lookup(c) \/ Authorize(c) \/ Enter(c) \/ Fail(c))
    BY <2>1, <2>2, <2>3 DEF Lookup, Authorize, Enter, Fail
  <2>5. Outcome(c)
    BY <1>6, <2>1, <2>4 DEF Publishing, Verify, CreateContainer,
       RecordContainer, Refuse, BeginProcessing, Poll, MarkReady, MarkInvalid,
       ClaimPublish, PublishContainer, RecordPublication, RecordUnknown, Result
  <2>6. c \in Worker /\ call[c].row.status \in SuccessStages
    <3>1. ~Throw(c, Resumable(call[c].row)) /\ ~Throw(c, TRUE)
      BY <2>2, Zenon
    <3>2. c \in Worker => c \notin Direct
      BY CallerAssumption
    <3>. QED
      BY <2>1, <2>5, <3>1, <3>2, Zenon DEF Outcome
  <2>. QED
    BY <2>5, <2>6 DEF SuccessStages
<1>7. ~UNCHANGED job
  BY <1>1
<1>8. \A w \in Worker : ~(\/ RunStep(w) \/ RunClaims(w) \/ RunDies(w))
  BY <1>4, <1>5, <1>7 DEF RunStep, RunClaims, RunDies, Queue!TakeUp,
     Queue!FailRead, Queue!Abort
<1>9. \A w \in Worker : ~(Begin(w) \/ Prepare(w) \/ Recheck(w) \/ CommitBinding(w))
  BY <1>7 DEF Begin, Prepare, Recheck, Snapshot, CommitBinding, Throw, Yield,
     Queue!Raise, Queue!Leave, queue
<1>10. ~Discover /\ ~EditContent /\ ~AdminOrders /\ ~UNCHANGED vars
  BY <1>2, <1>3, <1>7 DEF Discover, EditContent, AdminOrders, Queue!RetryJob,
     Queue!CancelJob, vars, queue
<1>11. \A c \in Direct : ~StartDirect(c) /\ ~RequestDies(c)
  BY <1>7 DEF StartDirect, RequestDies, queue
<1>. QED
  BY Steps, <1>6, <1>8, <1>9, <1>10, <1>11

(* What success says when it is recorded, nothing takes back.              *)
LEMMA SuccessStep ==
  ASSUME TypeOK, CallerInv, SucceededIsPublished, [Next]_vars
  PROVE  SucceededIsPublished'
<1>. SUFFICES ASSUME Queue!Is(Schedule, {"succeeded"})'
              PROVE  bound' /\ Has({"published"})' /\ attempt'.key = "schedule"
  BY DEF SucceededIsPublished
<1>. attempt \in Attempt \union {None}
  BY DEF TypeOK
<1>1. bound /\ attempt # None /\ attempt.status = "published"
      /\ attempt.key = "schedule"
  <2>1. CASE Queue!Is(Schedule, {"succeeded"})
    BY <2>1 DEF SucceededIsPublished, Has
  <2>2. CASE ~Queue!Is(Schedule, {"succeeded"})
    <3>1. PICK w \in Worker : Outcome(w) /\ call[w].row.status = "published"
      BY <2>2, OnlyOutcomesSucceed
    <3>2. call[w].at = "outcome" /\ w \in Caller
      BY <3>1, Zenon DEF Outcome, At, Caller
    <3>. QED
      BY <3>1, <3>2 DEF CallerInv, Driving
  <2>. QED
    BY <2>1, <2>2
<1>2. attempt' # None /\ attempt'.key = "schedule" /\ attempt'.status = "published"
  BY <1>1, RowKeeps, WhoMoves
<1>. QED
  BY <1>1, <1>2, BoundStays DEF Has
-----------------------------------------------------------------------------
LEMMA InitIsInv == Init => IInv
<1>. SUFFICES ASSUME Init PROVE IInv
  OBVIOUS
<1>. USE DEF Init
<1>1. TypeOK
  <2>1. Queue!TypeOK
    BY DEF Queue!QueueInit, Queue!TypeOK, Queue!AtRest, Queue!Place
  <2>. QED
    BY <2>1 DEF TypeOK, AtRest, Call, Place, Pass
<1>2. \A c \in Caller : call[c] = AtRest
  OBVIOUS
<1>3. CallerInv /\ MakerInv /\ SenderInv
  BY <1>2 DEF CallerInv, MakerInv, SenderInv, AtRest, Driving, Making, Sending
<1>4. ProviderInv /\ AtMostOnce /\ RowIsTruthful
  BY DEF ProviderInv, AtMostOnce, RowIsTruthful, Has
<1>5. SucceededIsPublished
  BY DEF SucceededIsPublished, Queue!QueueInit, Queue!Is
<1>. QED
  BY <1>1, <1>3, <1>4, <1>5 DEF IInv

LEMMA StepKeepsInv ==
  ASSUME IInv, Proved!TypeOK', [Next]_vars
  PROVE  IInv'
<1>. USE DEF IInv
<1>1. TypeOK'
  BY TypeStep
<1>2. CallerInv'
  BY CallerStep, RowTypeStep
<1>3. MakerInv' /\ SenderInv'
  BY MakerStep, SenderStep
<1>4. ProviderInv' /\ AtMostOnce' /\ RowIsTruthful'
  BY ProviderStep
<1>5. SucceededIsPublished'
  BY SuccessStep
<1>. QED
  BY <1>1, <1>2, <1>3, <1>4, <1>5

(* publishInstagramImage and its executor: the strengthening is inductive, *)
(* on top of what holds of the queue.                                      *)
THEOREM Inductive == Spec => []IInv
<1>1. Proved!IInv => Proved!TypeOK
  BY DEF Proved!IInv
<1>2. IInv /\ Proved!IInv' /\ [Next]_vars => IInv'
  <2>. Proved!IInv' => Proved!TypeOK'
    BY DEF Proved!IInv
  <2>. QED
    BY StepKeepsInv
<1>. QED
  BY <1>2, InitIsInv, QueueHolds, PTL DEF Spec

(* The values of the variables of ScheduledPublish.                        *)
THEOREM TypeCorrect == Spec => []TypeOK
<1>1. IInv => TypeOK
  BY DEF IInv
<1>. QED
  BY <1>1, Inductive, PTL

(* publishInstagramImage: however many runs and requests drive the row,    *)
(* die and return, one container is made and one publication is sent.      *)
THEOREM PublishedOnce == Spec => []AtMostOnce
<1>1. IInv => AtMostOnce
  BY DEF IInv
<1>. QED
  BY <1>1, Inductive, PTL

(* transition, recordUnknown: the row never denies what the provider did.  *)
THEOREM RowIsRight == Spec => []RowIsTruthful
<1>1. IInv => RowIsTruthful
  BY DEF IInv
<1>. QED
  BY <1>1, Inductive, PTL

(* The executor completes the job only over a published row that its       *)
(* execution is bound to, and neither is taken back.                       *)
THEOREM SuccessIsPublication == Spec => []SucceededIsPublished
<1>1. IInv => SucceededIsPublished
  BY DEF IInv
<1>. QED
  BY <1>1, Inductive, PTL
-----------------------------------------------------------------------------
(* A row that moves without being entered anew was entered before.         *)
LEMMA OnlyEntersEnters ==
  ASSUME IInv, NEW c \in Caller, Mover(c), attempt' # attempt, attempt' # None,
         attempt'.entered, attempt # None => ~attempt.entered
  PROVE  Enters(c)
<1>. USE DEF IInv
<1>. call \in [Caller -> Call] /\ attempt \in Attempt \union {None}
  BY DEF TypeOK
<1>1. ~Inserts(c)
  BY DEF Inserts, NewAttempt
<1>2. ~Makes(c)
  BY DEF Makes, At, CallerInv, MakerInv, Driving, Making
<1>3. ~Climbs(c)
  <2>. SUFFICES ASSUME NEW t \in Ladder, call[c].at = t[1], attempt.status = t[2]
                PROVE  FALSE
    BY DEF Climbs, At
  <2>1. attempt # None
    BY DEF Ladder, CallerInv, Driving, Making, Sending
  <2>2. t[2] = "pending" => call[c].at \in Making
    BY DEF Ladder, Making
  <2>. QED
    BY <2>1, <2>2 DEF MakerInv, ProviderInv, Unstarted
<1>. QED
  BY RowSteps, <1>1, <1>2, <1>3

(* fenceProviderEntry: a step into the provider finds the content approved *)
(* and is, for a schedule, that of the run that holds the job's token.     *)
THEOREM EntryFenced == Spec => EntryIsFenced
<1>. DEFINE Entry ==
       attempt' # attempt /\ attempt' # None /\ attempt'.entered
         /\ (attempt # None => ~attempt.entered)
<1>1. ASSUME IInv, Proved!IInv, [Next]_vars, Entry
      PROVE  /\ approved
             /\ attempt'.key = "schedule" =>
                  \E w \in Worker : EntersAs(w) /\ Queue!Owned(hand[w].copy)
  <2>1. PICK c \in Caller : Enters(c)
    BY <1>1, WhoMoves, OnlyEntersEnters
  <2>2. attempt # None /\ attempt.key = Key(c) /\ attempt'.key = attempt.key
    BY <1>1, <2>1 DEF IInv, CallerInv, Enters, At, Driving, TypeOK, Attempt
  <2>3. CASE c \in Worker
    <3>1. Queue!Owned(hand[c].copy)
      BY <2>1, <2>3 DEF Enters, Fenced
    <3>2. EntersAs(c)
      BY <1>1, <2>1, <2>3 DEF EntersAs, Enters, At, Goto, IInv, TypeOK, Call
    <3>. QED
      BY <2>1, <2>3, <3>1, <3>2 DEF Enters
  <2>. QED
    BY <2>1, <2>2, <2>3 DEF Key, Enters
<1>. QED
  BY <1>1, Inductive, QueueHolds, PTL DEF Spec, EntryIsFenced

(* How a row may go on.                                                    *)
LEMMA RowGoesOn ==
  ASSUME IInv, NEW c \in Caller, Mover(c), attempt # None
  PROVE  /\ attempt.status = "publishing" =>
              attempt'.status \in {"publishing", "published",
                                   "reconciliation_required"}
         /\ attempt.status \in {"published", "failed", "reconciliation_required"} =>
              attempt' = attempt
<1>. USE DEF IInv
<1>. call \in [Caller -> Call] /\ attempt \in Attempt
  BY DEF TypeOK
<1>1. CASE Inserts(c) \/ Enters(c) \/ Makes(c)
  BY <1>1 DEF Inserts, Enters, Unstarted, Makes
<1>2. CASE Climbs(c)
  <2>1. PICK t \in Ladder : /\ attempt.status = t[2]
                            /\ attempt' = [attempt EXCEPT !.status = t[3]]
    BY <1>2 DEF Climbs
  <2>2. attempt'.status = t[3]
    BY <2>1 DEF Attempt
  <2>. QED
    BY <2>1, <2>2 DEF Ladder
<1>. QED
  BY RowSteps, <1>1, <1>2

(* "Irreversible claim": no step takes an entry, a publication under way   *)
(* or an outcome back.                                                     *)
THEOREM NothingReplayed == Spec => NoReplay
<1>1. ASSUME IInv, [Next]_vars, attempt # None
      PROVE  /\ attempt' # None /\ attempt'.key = attempt.key
             /\ attempt.entered => attempt'.entered
             /\ Has({"publishing"}) =>
                  attempt'.status \in {"publishing", "published",
                                       "reconciliation_required"}
             /\ Has({"published", "failed", "reconciliation_required"}) =>
                  attempt' = attempt
  <2>1. CASE attempt' = attempt
    BY <1>1, <2>1 DEF Has
  <2>2. CASE \E c \in Caller : Mover(c)
    BY <1>1, <2>2, RowKeeps, RowGoesOn DEF IInv, Has
  <2>. QED
    BY <1>1, <2>1, <2>2, WhoMoves
<1>. QED
  BY <1>1, Inductive, PTL DEF Spec, NoReplay
=============================================================================
