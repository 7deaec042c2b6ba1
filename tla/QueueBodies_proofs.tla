------------------------- MODULE QueueBodies_proofs -------------------------
(***************************************************************************)
(* Proofs about the two bodies of queue jobs, Refund and StockSync, which  *)
(* rest on what JobQueue_proofs says of the queue: for every set of        *)
(* refunds, movements and runs, every sum and stock, and every number of   *)
(* claims, requests, lost runs and orders.                                 *)
(***************************************************************************)
EXTENDS Refund, StockSync, JobQueue_proofs, FiniteSetTheorems, TLAPS

(***************************************************************************)
(* Refund.                                                                 *)
(***************************************************************************)
\* What a step does to the queue is a step of the queue, or nothing.
LEMMA QueueSteps ==
  ASSUME [RefundNext]_vars
  PROVE  [QueueNext]_queue
<1>. USE DEF queue
<1>1. CASE UNCHANGED vars
  BY <1>1 DEF vars
<1>2. ASSUME NEW r \in Job, NEW c, NEW status, Create(r, c, status)
      PROVE  UNCHANGED queue
  BY <1>2 DEF Create
<1>3. ASSUME NEW r \in Job, NEW S, Ask(r, S)
      PROVE  Enqueue(r) \/ UNCHANGED queue
  BY <1>3 DEF Ask, EnqueueRefund
<1>4. ASSUME NEW r \in Job, Cancel(r)
      PROVE  UNCHANGED queue
  BY <1>4 DEF Cancel
<1>5. ASSUME NEW r \in Job, NEW amount, CheckBalance(r, amount)
      PROVE  UNCHANGED queue
  BY <1>5 DEF CheckBalance
<1>6. ASSUME NEW r \in Job, AdminJob(r)
      PROVE  RetryJob(r) \/ CancelJob(r)
  BY <1>6 DEF AdminJob
<1>7. ASSUME NEW w \in Worker, RunStep(w)
      PROVE  WorkerStep(w) \/ UNCHANGED queue
  BY <1>7 DEF RunStep, QueueStep, FindDone, Refuse, Recover, Call, Succeed,
              Fail, FailUnrecorded, WorkerStep
<1>8. ASSUME NEW w \in Worker, Die(w)
      PROVE  Abort(w)
  BY <1>8 DEF Die
<1>9. ASSUME NEW w \in Worker, NEW S \in SUBSET Job, ClaimBatch(w, S)
      PROVE  Claim(w, S)
  BY <1>9 DEF ClaimBatch
<1>. QED
  BY <1>1, <1>2, <1>3, <1>4, <1>5, <1>6, <1>7, <1>8, <1>9
  DEF RefundNext, Submit, Retry, QueueNext

(* Refund implements JobQueue: no request and no outcome of a refund       *)
(* touches the rows of background_jobs except through the queue.           *)
THEOREM RefundsAreJobs == RefundSpec => ImplementsQueue
<1>1. RefundInit => QueueInit
  BY DEF RefundInit
<1>. QED
  BY <1>1, QueueSteps, PTL DEF RefundSpec, ImplementsQueue, QueueSpec

\* All that is proved of the queue holds of it here.
LEMMA QueueHolds == RefundSpec => []IInv
BY RefundsAreJobs, Inductive DEF ImplementsQueue

-----------------------------------------------------------------------------
\* A run at work is at work on a refund.
LEMMA SubjectIsJob ==
  ASSUME IInv, NEW w \in Worker, hand[w].at # "next"
  PROVE  Subject(w) \in Job
BY HandCopy DEF IInv, Subject

\* Each step of the queue moves one run at most.
LEMMA OneHand ==
  ASSUME IInv, NEW w \in Worker,
         TakeUp(w) \/ Complete(w) \/ FailRead(w) \/ FailWrite(w) \/ Abort(w)
           \/ \E b \in BOOLEAN : Raise(w, b)
  PROVE  \A v \in Worker : v # w => hand'[v] = hand[v]
<1>1. hand \in [Worker -> [at : Place, copy : Copy \union {None}, count : Nat,
                           retryable : BOOLEAN]]
  BY DEF IInv, TypeOK
<1>. QED
  BY <1>1 DEF TakeUp, Complete, FailRead, FailWrite, Abort, Raise

\* The steps of RefundNext, the requests first.
LEMMA RefundSteps ==
  ASSUME [RefundNext]_vars
  PROVE  \/ UNCHANGED vars
         \/ \E r \in Job, amount \in 1 .. Total : CheckBalance(r, amount)
         \/ \E r \in Job : \E c \in checks[r], status \in {"draft", "succeeded"} :
               Create(r, c, status)
         \/ \E r \in Job : Ask(r, {"draft", "pending", "failed"})
         \/ \E r \in Job : Cancel(r)
         \/ UNCHANGED <<books, call, hand>>
         \/ \E w \in Worker : RunStep(w) \/ Die(w)
<1>1. ASSUME NEW r \in Job, Retry(r)
      PROVE  Ask(r, {"draft", "pending", "failed"})
  BY <1>1 DEF Retry, Ask, In
<1>2. ASSUME NEW r \in Job, AdminJob(r)
      PROVE  UNCHANGED <<books, call, hand>>
  BY <1>2 DEF AdminJob, RetryJob, CancelJob, Order
<1>3. ASSUME NEW w \in Worker, NEW S \in SUBSET Job, ClaimBatch(w, S)
      PROVE  UNCHANGED <<books, call, hand>>
  BY <1>3 DEF ClaimBatch, Claim
<1>. QED
  BY <1>1, <1>2, <1>3 DEF RefundNext, Submit
-----------------------------------------------------------------------------
\* An open call stays what it was as long as its run and its refund do.
LEMMA CallFrame ==
  ASSUME CallInv,
         \A v \in Worker : call'[v].open =>
           /\ call'[v] = call[v] /\ hand'[v] = hand[v]
           /\ refund'[Subject(v)] = refund[Subject(v)]
           /\ paid'[Subject(v)] = paid[Subject(v)]
  PROVE  CallInv'
BY DEF CallInv, Calling, Subject, In

LEMMA RefundTypeStep ==
  ASSUME IInv, RefundTypeOK, CallInv, [RefundNext]_vars
  PROVE  RefundTypeOK'
<1>. USE NoRefundAssumption DEF RefundTypeOK
<1>0. /\ \A row \in RefundRow, s \in RefundStatus :
            [row EXCEPT !.status = s] \in RefundRow
      /\ \A row \in RefundRow, s \in RefundStatus :
            [row EXCEPT !.status = s, !.external = TRUE] \in RefundRow
      /\ NoCall \in [open : BOOLEAN, paid : BOOLEAN]
  BY DEF RefundRow, NoCall
<1>1. CASE UNCHANGED vars
  BY <1>1 DEF vars, books, requests
<1>2. ASSUME NEW r \in Job, NEW c \in checks[r],
             NEW status \in {"draft", "succeeded"}, Create(r, c, status)
      PROVE  RefundTypeOK'
  <2>1. /\ c \in Check /\ \A q \in Job : \A d \in checks[q] : d \in Check
        /\ \A d \in Check : [d EXCEPT !.stale = TRUE] \in Check
    BY DEF Check
  <2>2. [status |-> status, amount |-> c.amount, external |-> FALSE] \in RefundRow
    BY <2>1 DEF Check, RefundRow, RefundStatus
  <2>3. /\ refund' \in [Job -> RefundRow \union {None}]
        /\ entries' \in SUBSET Job /\ raced' \in SUBSET Job
        /\ UNCHANGED <<call, asked, paid>>
    BY <1>2, <2>2 DEF Create, Posted
  <2>4. checks' \in [Job -> SUBSET Check]
    BY <1>2, <2>1 DEF Create
  <2>. QED
    BY <2>3, <2>4
<1>3. ASSUME NEW r \in Job, Ask(r, {"draft", "pending", "failed"})
      PROVE  RefundTypeOK'
  <2>1. "pending" \in RefundStatus /\ refund[r] \in RefundRow /\ asked[r] \in Nat
    BY <1>3 DEF RefundStatus, Ask, In
  <2>2. refund' = [refund EXCEPT ![r] = [refund[r] EXCEPT !.status = "pending"]]
    BY <1>3 DEF Ask
  <2>3. asked' \in [Job -> Nat]
    BY <1>3, <2>1 DEF Ask
  <2>4. refund' \in [Job -> RefundRow \union {None}]
    BY <1>0, <2>1, <2>2
  <2>5. UNCHANGED <<entries, call, paid, checks, raced>>
    BY <1>3 DEF Ask, requests
  <2>. QED
    BY <2>3, <2>4, <2>5
<1>4. ASSUME NEW r \in Job, Cancel(r)
      PROVE  RefundTypeOK'
  <2>1. "cancelled" \in RefundStatus /\ refund[r] \in RefundRow
    BY <1>4 DEF RefundStatus, Cancel, In
  <2>. QED
    BY <1>0, <1>4, <2>1 DEF Cancel, requests
<1>5. CASE UNCHANGED <<books, call, hand>>
  BY <1>5 DEF books, requests
<1>11. ASSUME NEW r \in Job, NEW amount \in 1 .. Total, CheckBalance(r, amount)
       PROVE  RefundTypeOK'
  <2>1. [amount |-> amount, stale |-> FALSE] \in Check
    BY DEF Check
  <2>. QED
    BY <1>11, <2>1 DEF CheckBalance
<1>6. ASSUME NEW w \in Worker,
             \/ QueueStep(w) \/ Refuse(w) \/ FindDone(w)
             \/ FailUnrecorded(w) \/ Die(w)
      PROVE  RefundTypeOK'
  BY <1>0, <1>6 DEF QueueStep, Refuse, FindDone, FailUnrecorded, Die, books,
                    requests
<1>7. ASSUME NEW w \in Worker, Recover(w)
      PROVE  RefundTypeOK'
  <2>1. hand[w].at # "next" /\ In(Subject(w), {"processing"})
    BY <1>7 DEF Recover, Begins, Stale
  <2>2. Subject(w) \in Job /\ refund[Subject(w)] \in RefundRow
    BY <2>1, SubjectIsJob DEF In
  <2>. QED
    BY <1>0, <1>7, <2>2 DEF Recover, RefundStatus, requests
<1>8. ASSUME NEW w \in Worker, Call(w)
      PROVE  RefundTypeOK'
  <2>1. hand[w].at # "next" /\ In(Subject(w), {"pending"})
    BY <1>8 DEF Call, Begins, Callable
  <2>2. Subject(w) \in Job /\ refund[Subject(w)] \in RefundRow
    BY <2>1, SubjectIsJob DEF In
  <2>3. PICK pays \in BOOLEAN :
          /\ paid' = [paid EXCEPT ![Subject(w)] =
                        IF pays THEN paid[Subject(w)] + 1 ELSE paid[Subject(w)]]
          /\ call' = [call EXCEPT ![w] = [open |-> TRUE, paid |-> pays]]
    BY <1>8 DEF Call
  <2>4. paid' \in [Job -> Nat]
    BY <2>2, <2>3
  <2>5. refund' = [refund EXCEPT ![Subject(w)] =
                     [refund[Subject(w)] EXCEPT !.status = "processing"]]
    BY <1>8 DEF Call
  <2>6. refund' \in [Job -> RefundRow \union {None}]
    BY <1>0, <2>2, <2>5 DEF RefundStatus
  <2>7. call' \in [Worker -> [open : BOOLEAN, paid : BOOLEAN]]
    BY <2>3
  <2>. QED
    BY <1>8, <2>4, <2>6, <2>7 DEF Call, requests
<1>9. ASSUME NEW w \in Worker,
             Succeed(w) \/ \E b \in BOOLEAN : Fail(w, b)
      PROVE  RefundTypeOK'
  <2>1. hand[w].at # "next" /\ In(Subject(w), {"processing"})
    BY <1>9 DEF CallInv, Succeed, Fail
  <2>2. Subject(w) \in Job /\ refund[Subject(w)] \in RefundRow
    BY <2>1, SubjectIsJob DEF In
  <2>3. call' \in [Worker -> [open : BOOLEAN, paid : BOOLEAN]]
    BY <1>0, <1>9 DEF Succeed, Fail
  <2>4. refund' \in [Job -> RefundRow \union {None}]
    <3>1. CASE Succeed(w)
      <4>1. refund' = [refund EXCEPT ![Subject(w)] =
              [refund[Subject(w)] EXCEPT !.status = "succeeded",
                                         !.external = TRUE]]
        BY <3>1, <2>1, <2>2 DEF Succeed, In
      <4>. QED
        BY <1>0, <2>2, <4>1 DEF RefundStatus
    <3>2. ASSUME NEW b \in BOOLEAN, Fail(w, b)
          PROVE  refund' \in [Job -> RefundRow \union {None}]
      <4>1. refund' = [refund EXCEPT ![Subject(w)] =
              [refund[Subject(w)] EXCEPT !.status = "failed"]]
        BY <3>2 DEF Fail
      <4>. QED
        BY <1>0, <2>2, <4>1 DEF RefundStatus
    <3>. QED
      BY <1>9, <3>1, <3>2
  <2>5. entries' \in SUBSET Job /\ UNCHANGED <<asked, paid, checks, raced>>
    BY <1>9, <2>2 DEF Succeed, Fail, requests
  <2>. QED
    BY <2>3, <2>4, <2>5
<1>10. ASSUME NEW w \in Worker, RunStep(w) \/ Die(w)
       PROVE  RefundTypeOK'
  BY <1>6, <1>7, <1>8, <1>9, <1>10 DEF RunStep
<1>. QED
  BY <1>1, <1>2, <1>3, <1>4, <1>5, <1>10, <1>11, RefundSteps
-----------------------------------------------------------------------------
\* The run whose step it is has no open call afterwards, the others keep
\* theirs, and no other run's refund is touched.
LEMMA CallStep ==
  ASSUME IInv, RefundTypeOK, CallInv, [RefundNext]_vars
  PROVE  CallInv'
<1>. USE DEF RefundTypeOK
<1>0. \A v \in Worker : call[v].open =>
        hand[v].at = "work" /\ Subject(v) \in Job /\ In(Subject(v), {"processing"})
  BY SubjectIsJob DEF CallInv
<1>1. CASE UNCHANGED vars
  BY <1>1, CallFrame DEF vars, books, queue
<1>2. ASSUME NEW r \in Job, NEW c \in checks[r],
             NEW status \in {"draft", "succeeded"}, Create(r, c, status)
      PROVE  CallInv'
  BY <1>0, <1>2, CallFrame DEF Create, In, queue
<1>3. ASSUME NEW r \in Job, Ask(r, {"draft", "pending", "failed"})
      PROVE  CallInv'
  <2>1. UNCHANGED <<hand, call, paid>>
    BY <1>3 DEF Ask, EnqueueRefund, Enqueue, queue
  <2>. QED
    BY <1>0, <1>3, <2>1, CallFrame DEF Ask, In
<1>4. ASSUME NEW r \in Job, Cancel(r)
      PROVE  CallInv'
  BY <1>0, <1>4, CallFrame DEF Cancel, In, queue
<1>5. CASE UNCHANGED <<books, call, hand>>
  BY <1>5, CallFrame DEF books
<1>11. ASSUME NEW r \in Job, NEW amount \in 1 .. Total, CheckBalance(r, amount)
       PROVE  CallInv'
  BY <1>11, CallFrame DEF CheckBalance, queue
<1>6. ASSUME NEW w \in Worker,
             \/ QueueStep(w) \/ Refuse(w) \/ FindDone(w)
             \/ FailUnrecorded(w) \/ Die(w)
      PROVE  CallInv'
  <2>1. ~call'[w].open
    <3>1. CASE QueueStep(w)
      BY <1>0, <3>1 DEF QueueStep, TakeUp, FailRead, FailWrite
    <3>2. CASE Refuse(w) \/ FindDone(w)
      BY <3>2 DEF Refuse, FindDone, Begins
    <3>3. CASE FailUnrecorded(w) \/ Die(w)
      <4>1. call' = [call EXCEPT ![w] = NoCall]
        BY <3>3 DEF FailUnrecorded, Die
      <4>. QED
        BY <4>1 DEF NoCall
    <3>. QED
      BY <1>6, <3>1, <3>2, <3>3
  <2>2. UNCHANGED books /\ \A v \in Worker : v # w => call'[v] = call[v]
    BY <1>6 DEF QueueStep, Refuse, FindDone, FailUnrecorded, Die
  <2>3. \A v \in Worker : v # w => hand'[v] = hand[v]
    BY <1>6, OneHand DEF QueueStep, Refuse, FindDone, FailUnrecorded, Die
  <2>. QED
    BY <2>1, <2>2, <2>3, CallFrame DEF books
<1>7. ASSUME NEW w \in Worker, Recover(w)
      PROVE  CallInv'
  <2>1. ~call'[w].open /\ UNCHANGED <<call, paid>>
    BY <1>7 DEF Recover, Begins
  <2>2. \A v \in Worker : v # w => hand'[v] = hand[v]
    BY <1>7, OneHand DEF Recover
  <2>3. \A v \in Worker : call[v].open =>
          refund'[Subject(v)] = refund[Subject(v)]
    BY <1>7 DEF Recover, Stale, Calling
  <2>. QED
    BY <2>1, <2>2, <2>3, CallFrame
<1>8. ASSUME NEW w \in Worker, Call(w)
      PROVE  CallInv'
  <2>. DEFINE s == Subject(w)
  <2>1. /\ hand[w].at = "work" /\ ~call[w].open /\ ~Done(s) /\ In(s, {"pending"})
        /\ refund' = [refund EXCEPT ![s] = [refund[s] EXCEPT !.status = "processing"]]
        /\ UNCHANGED hand
    BY <1>8 DEF Call, Begins, Callable, queue
  <2>2. s \in Job /\ refund[s] \in RefundRow /\ paid[s] \in Nat
    BY <2>1, SubjectIsJob DEF In
  <2>3. PICK pays \in BOOLEAN :
          /\ paid' = [paid EXCEPT ![s] = IF pays THEN paid[s] + 1 ELSE paid[s]]
          /\ call' = [call EXCEPT ![w] = [open |-> TRUE, paid |-> pays]]
    BY <1>8 DEF Call
  <2>4. /\ refund'[s] # None /\ refund'[s].status = "processing"
        /\ ~refund'[s].external /\ paid[s] <= paid'[s]
        /\ pays => paid'[s] > 0
    BY <2>1, <2>2, <2>3, NoRefundAssumption DEF Done, In, RefundRow, RefundStatus
  <2>5. \A v \in Worker : call[v].open =>
          /\ v # w /\ Subject(v) # s /\ Subject(v) \in Job
          /\ refund'[Subject(v)] = refund[Subject(v)]
          /\ paid'[Subject(v)] = paid[Subject(v)] /\ call'[v] = call[v]
    BY <1>0, <2>1, <2>2, <2>3 DEF In
  <2>6. \A v \in Worker : Subject(v)' = Subject(v)
    BY <2>1 DEF Subject
  <2>7. call'[w] = [open |-> TRUE, paid |-> pays]
        /\ \A v \in Worker : v # w => call'[v] = call[v]
    BY <2>3
  <2>8. ASSUME NEW v \in Worker, call'[v].open
        PROVE  /\ hand'[v].at = "work"
               /\ In(Subject(v), {"processing"})'
               /\ ~refund'[Subject(v)].external
               /\ call'[v].paid => paid'[Subject(v)] > 0
    <3>1. CASE v = w
      BY <2>1, <2>4, <2>6, <2>7, <3>1 DEF In
    <3>2. CASE v # w
      BY <2>1, <2>5, <2>6, <2>7, <2>8, <3>2 DEF In, CallInv
    <3>. QED
      BY <3>1, <3>2
  <2>9. ASSUME NEW v \in Worker, NEW u \in Worker, call'[v].open, call'[u].open,
               Subject(u) = Subject(v)
        PROVE  u = v
    <3>1. CASE u = w \/ v = w
      BY <2>5, <2>7, <2>9, <3>1
    <3>2. CASE u # w /\ v # w
      BY <2>7, <2>9, <3>2 DEF CallInv, Calling
    <3>. QED
      BY <3>1, <3>2
  <2>. QED
    BY <2>6, <2>8, <2>9 DEF CallInv, Calling
<1>9. ASSUME NEW w \in Worker, Succeed(w) \/ \E b \in BOOLEAN : Fail(w, b)
      PROVE  CallInv'
  <2>1. call[w].open /\ ~call'[w].open /\ UNCHANGED paid
        /\ \A v \in Worker : v # w => call'[v] = call[v]
    BY <1>9 DEF Succeed, Fail, NoCall
  <2>2. \A v \in Worker : v # w => hand'[v] = hand[v]
    BY <1>9, OneHand DEF Succeed, Fail
  <2>3. \A v \in Worker : v # w /\ call[v].open => Subject(v) # Subject(w)
    BY <2>1 DEF CallInv, Calling
  <2>4. \A v \in Worker : v # w /\ call[v].open =>
          refund'[Subject(v)] = refund[Subject(v)]
    BY <1>0, <1>9, <2>3 DEF Succeed, Fail
  <2>. QED
    BY <2>1, <2>2, <2>4, CallFrame
<1>10. ASSUME NEW w \in Worker, RunStep(w) \/ Die(w)
       PROVE  CallInv'
  BY <1>6, <1>7, <1>8, <1>9, <1>10 DEF RunStep
<1>. QED
  BY <1>1, <1>2, <1>3, <1>4, <1>5, <1>10, <1>11, RefundSteps
-----------------------------------------------------------------------------
\* What a step makes of one refund, whichever step it is.
Same(r) == /\ paid'[r] = paid[r]
           /\ asked'[r] = asked[r]
           /\ r \in entries' <=> r \in entries
Moves(r, from, to) == /\ In(r, from) /\ In(r, to)'
                      /\ refund'[r].external = refund[r].external
                      /\ refund'[r].amount = refund[r].amount

Begun(r) ==
  /\ \E c \in checks[r], status \in {"draft", "succeeded"} : Create(r, c, status)
  /\ refund[r] = None
  /\ In(r, {"draft", "succeeded"})'
  /\ ~refund'[r].external
  /\ paid'[r] = paid[r] /\ asked'[r] = asked[r]
  /\ r \in entries' <=> r \in entries \/ In(r, {"succeeded"})'
Wanted(r) ==
  /\ Moves(r, {"draft", "pending", "failed"}, {"pending"})
  /\ paid'[r] = paid[r] /\ (r \in entries' <=> r \in entries)
  /\ asked'[r] = IF In(r, {"pending"}) THEN asked[r] ELSE asked[r] + 1
Dropped(r) ==
  /\ \/ Moves(r, {"draft", "pending", "failed"}, {"cancelled"})
     \/ Moves(r, {"processing"}, {"failed"})
  /\ Same(r)
Called(r) ==
  /\ Moves(r, {"pending"}, {"processing"})
  /\ ~refund[r].external
  /\ paid'[r] \in {paid[r], paid[r] + 1} /\ asked'[r] = asked[r]
  /\ r \in entries' <=> r \in entries
Paid(r) ==
  /\ In(r, {"processing"}) /\ In(r, {"succeeded"})'
  /\ refund'[r].amount = refund[r].amount
  /\ paid[r] > 0 /\ paid'[r] = paid[r] /\ asked'[r] = asked[r]
  /\ r \in entries'
Kept(r) == refund'[r] = refund[r] /\ Same(r)

LEMMA OneRefund ==
  ASSUME IInv, RefundTypeOK, CallInv, [RefundNext]_vars, NEW r \in Job
  PROVE  Begun(r) \/ Wanted(r) \/ Dropped(r) \/ Called(r) \/ Paid(r) \/ Kept(r)
<1>. USE NoRefundAssumption DEF RefundTypeOK
<1>. DEFINE With(row, s) == [row EXCEPT !.status = s]
<1>0. ASSUME NEW row \in RefundRow, NEW s \in RefundStatus
      PROVE  /\ With(row, s) \in RefundRow /\ With(row, s) # None
             /\ With(row, s).status = s
             /\ With(row, s).external = row.external
             /\ With(row, s).amount = row.amount
  BY DEF RefundRow
<1>. HIDE DEF With
<1>a. ASSUME NEW q \in Job, NEW from, NEW s \in RefundStatus, In(q, from),
             refund' = [refund EXCEPT ![q] = With(refund[q], s)]
      PROVE  /\ Moves(q, from, {s})
             /\ \A p \in Job \ {q} : refund'[p] = refund[p]
  <2>1. refund[q] \in RefundRow
    BY <1>a DEF In
  <2>. QED
    BY <1>0, <1>a, <2>1 DEF Moves, In
<1>1. CASE UNCHANGED vars
  BY <1>1 DEF vars, books, Kept, Same
<1>2. ASSUME NEW q \in Job, NEW c \in checks[q],
             NEW status \in {"draft", "succeeded"}, Create(q, c, status)
      PROVE  Begun(r) \/ Kept(r)
  <2>. DEFINE new == [status |-> status, amount |-> c.amount, external |-> FALSE]
  <2>0. new \in RefundRow
    BY DEF Check, RefundRow, RefundStatus
  <2>1. new # None /\ new.status = status /\ ~new.external
    BY <2>0
  <2>2. /\ refund[q] = None /\ refund' = [refund EXCEPT ![q] = new]
        /\ UNCHANGED <<asked, paid>>
        /\ entries' = IF status = "succeeded" THEN entries \union {q} ELSE entries
    BY <1>2 DEF Create, Posted
  <2>3. CASE r # q
    BY <2>2, <2>3 DEF Kept, Same
  <2>4. CASE r = q
    BY <1>2, <2>1, <2>2, <2>4 DEF Begun, In
  <2>. QED
    BY <2>3, <2>4
<1>3. ASSUME NEW q \in Job, Ask(q, {"draft", "pending", "failed"})
      PROVE  Wanted(r) \/ Kept(r)
  <2>1. /\ In(q, {"draft", "pending", "failed"})
        /\ refund' = [refund EXCEPT ![q] = With(refund[q], "pending")]
        /\ asked' = [asked EXCEPT ![q] = IF In(q, {"pending"}) THEN asked[q]
                                                               ELSE asked[q] + 1]
        /\ UNCHANGED <<entries, paid>>
    BY <1>3 DEF Ask, With
  <2>2. /\ Moves(q, {"draft", "pending", "failed"}, {"pending"})
        /\ \A p \in Job \ {q} : refund'[p] = refund[p]
    BY <1>a, <2>1 DEF RefundStatus
  <2>. QED
    BY <2>1, <2>2 DEF Wanted, Kept, Same
<1>4. ASSUME NEW q \in Job, Cancel(q)
      PROVE  Dropped(r) \/ Kept(r)
  <2>1. /\ In(q, {"draft", "pending", "failed"})
        /\ refund' = [refund EXCEPT ![q] = With(refund[q], "cancelled")]
        /\ UNCHANGED <<entries, asked, paid>>
    BY <1>4 DEF Cancel, With
  <2>2. /\ Moves(q, {"draft", "pending", "failed"}, {"cancelled"})
        /\ \A p \in Job \ {q} : refund'[p] = refund[p]
    BY <1>a, <2>1 DEF RefundStatus
  <2>. QED
    BY <2>1, <2>2 DEF Dropped, Moves, In, Kept, Same
<1>5. CASE \/ UNCHANGED <<books, call, hand>>
           \/ \E q \in Job, amount \in 1 .. Total : CheckBalance(q, amount)
  BY <1>5 DEF CheckBalance, books, Kept, Same
<1>6. ASSUME NEW w \in Worker,
             \/ QueueStep(w) \/ Refuse(w) \/ FindDone(w)
             \/ FailUnrecorded(w) \/ Die(w)
      PROVE  Kept(r)
  BY <1>6 DEF QueueStep, Refuse, FindDone, FailUnrecorded, Die, books, Kept, Same
<1>7. ASSUME NEW w \in Worker, Recover(w)
      PROVE  Dropped(r) \/ Kept(r)
  <2>1. hand[w].at # "next"
    BY <1>7 DEF Recover, Begins
  <2>2. PICK q \in Job : q = Subject(w)
    BY <2>1, SubjectIsJob
  <2>3. /\ In(q, {"processing"}) /\ UNCHANGED <<entries, asked, paid>>
        /\ refund' = [refund EXCEPT ![q] = With(refund[q], "failed")]
    BY <1>7, <2>2 DEF Recover, Begins, Stale, With
  <2>4. /\ Moves(q, {"processing"}, {"failed"})
        /\ \A p \in Job \ {q} : refund'[p] = refund[p]
    BY <1>a, <2>3 DEF RefundStatus
  <2>. QED
    BY <2>3, <2>4 DEF Dropped, Moves, In, Kept, Same
<1>8. ASSUME NEW w \in Worker, Call(w)
      PROVE  Called(r) \/ Kept(r)
  <2>1. hand[w].at # "next"
    BY <1>8 DEF Call, Begins
  <2>2. PICK q \in Job : q = Subject(w)
    BY <2>1, SubjectIsJob
  <2>3. /\ In(q, {"pending"}) /\ ~refund[q].external
        /\ refund' = [refund EXCEPT ![q] = With(refund[q], "processing")]
        /\ UNCHANGED <<entries, asked>>
    BY <1>8, <2>2 DEF Call, Callable, Done, With
  <2>4. /\ Moves(q, {"pending"}, {"processing"})
        /\ \A p \in Job \ {q} : refund'[p] = refund[p]
    BY <1>a, <2>3 DEF RefundStatus
  <2>5. PICK pays \in BOOLEAN :
          paid' = [paid EXCEPT ![q] = IF pays THEN paid[q] + 1 ELSE paid[q]]
    BY <1>8, <2>2 DEF Call
  <2>. QED
    BY <2>3, <2>4, <2>5 DEF Called, Kept, Same
<1>9. ASSUME NEW w \in Worker, Succeed(w)
      PROVE  Paid(r) \/ Kept(r)
  <2>. DEFINE s == Subject(w)
  <2>1. /\ hand[w].at # "next" /\ In(s, {"processing"}) /\ paid[s] > 0
        /\ ~In(s, {"succeeded"}) /\ UNCHANGED <<asked, paid>>
    BY <1>9 DEF Succeed, CallInv, In
  <2>2. /\ entries' = entries \union {s}
        /\ refund' = [refund EXCEPT ![s] =
             [refund[s] EXCEPT !.status = "succeeded", !.external = TRUE]]
    BY <1>9, <2>1 DEF Succeed
  <2>3. s \in Job /\ refund[s] \in RefundRow
    BY <2>1, SubjectIsJob DEF In
  <2>4. LET new == [refund[s] EXCEPT !.status = "succeeded", !.external = TRUE]
        IN  new.status = "succeeded" /\ new.amount = refund[s].amount /\ new \in RefundRow
    BY <2>3 DEF RefundRow, RefundStatus
  <2>. QED
    BY <2>1, <2>2, <2>3, <2>4 DEF Paid, Kept, Same, In
<1>10. ASSUME NEW w \in Worker, NEW b \in BOOLEAN, Fail(w, b)
       PROVE  Dropped(r) \/ Kept(r)
  <2>1. hand[w].at # "next"
    BY <1>10 DEF Fail, CallInv
  <2>2. PICK q \in Job : q = Subject(w)
    BY <2>1, SubjectIsJob
  <2>3. /\ In(q, {"processing"}) /\ UNCHANGED <<entries, asked, paid>>
        /\ refund' = [refund EXCEPT ![q] = With(refund[q], "failed")]
    BY <1>10, <2>2 DEF Fail, CallInv, With
  <2>4. /\ Moves(q, {"processing"}, {"failed"})
        /\ \A p \in Job \ {q} : refund'[p] = refund[p]
    BY <1>a, <2>3 DEF RefundStatus
  <2>. QED
    BY <2>3, <2>4 DEF Dropped, Moves, In, Kept, Same
<1>11. ASSUME NEW w \in Worker, RunStep(w) \/ Die(w)
       PROVE  Dropped(r) \/ Called(r) \/ Paid(r) \/ Kept(r)
  BY <1>6, <1>7, <1>8, <1>9, <1>10, <1>11 DEF RunStep
<1>. QED
  BY <1>1, <1>2, <1>3, <1>4, <1>5, <1>11, RefundSteps
-----------------------------------------------------------------------------
LEMMA PaidStep ==
  ASSUME IInv, RefundTypeOK, CallInv, PaidOnlyWhenAsked, [RefundNext]_vars
  PROVE  PaidOnlyWhenAsked'
<1>. SUFFICES ASSUME NEW r \in Job
              PROVE  paid'[r] + (IF In(r, {"pending"})' THEN 1 ELSE 0) <= asked'[r]
  BY DEF PaidOnlyWhenAsked
<1>1. /\ paid[r] \in Nat /\ asked[r] \in Nat
      /\ paid[r] + (IF In(r, {"pending"}) THEN 1 ELSE 0) <= asked[r]
  BY DEF PaidOnlyWhenAsked, RefundTypeOK
<1>. QED
  BY <1>1, OneRefund
  DEF Begun, Wanted, Dropped, Called, Paid, Kept, Same, Moves, In

LEMMA BooksStep ==
  ASSUME IInv, RefundTypeOK, CallInv, BooksMatchRefunds, [RefundNext]_vars
  PROVE  BooksMatchRefunds'
<1>. SUFFICES ASSUME NEW r \in Job
              PROVE  /\ r \in entries' <=> In(r, {"succeeded"})'
                     /\ refund'[r] # None /\ refund'[r].external => paid'[r] > 0
  BY DEF BooksMatchRefunds
<1>1. /\ paid[r] \in Nat
      /\ r \in entries <=> In(r, {"succeeded"})
      /\ refund[r] # None /\ refund[r].external => paid[r] > 0
  BY DEF BooksMatchRefunds, RefundTypeOK
<1>. QED
  BY <1>1, OneRefund
  DEF Begun, Wanted, Dropped, Called, Paid, Kept, Same, Moves, In

LEMMA SettledStep ==
  ASSUME IInv, RefundTypeOK, CallInv, BooksMatchRefunds, [RefundNext]_vars,
         NEW r \in Job, In(r, {"succeeded"})
  PROVE  refund'[r] = refund[r] /\ r \in entries' /\ paid'[r] = paid[r]
<1>1. r \in entries
  BY DEF BooksMatchRefunds
<1>. QED
  BY <1>1, OneRefund
  DEF Begun, Wanted, Dropped, Called, Paid, Kept, Same, Moves, In
LEMMA AskStep ==
  ASSUME IInv, RefundTypeOK, CallInv, AskInv, [RefundNext]_vars
  PROVE  AskInv'
<1>. SUFFICES ASSUME NEW r \in Job, In(r, {"pending", "processing", "failed"})'
              PROVE  asked'[r] > 0
  BY DEF AskInv
<1>1. asked[r] \in Nat /\ (In(r, {"pending", "processing", "failed"}) => asked[r] > 0)
  BY DEF AskInv, RefundTypeOK
<1>. QED
  BY <1>1, OneRefund
  DEF Begun, Wanted, Dropped, Called, Paid, Kept, Same, Moves, In

\* Sums of refunds are finite.
LEMMA SumFacts ==
  ASSUME NEW S \in SUBSET Job
  PROVE  IsFiniteSet(Units(S)) /\ SumOf(S) \in Nat
<1>1. IsFiniteSet(1 .. Total) /\ IsFiniteSet(S)
  BY RefundAssumption, FS_Interval, FS_Subset
<1>2. IsFiniteSet(S \X (1 .. Total))
  BY <1>1, FS_Product
<1>3. IsFiniteSet(Units(S))
  BY <1>2, FS_Subset DEF Units
<1>. QED
  BY <1>3, FS_CardinalityType DEF SumOf

\* What counts against the order.
Held == {r \in Job : In(r, Refunded \union Reserved)}

LEMMA VettedIsHeld == Vetted \subseteq Held
BY DEF Vetted, Held, Refunded, Reserved, In

LEMMA VettedSum ==
  /\ IsFiniteSet(Units(Vetted)) /\ SumOf(Vetted) \in Nat
  /\ SumOf(Held) \in Nat /\ SumOf(Vetted) <= SumOf(Held)
<1>1. Vetted \in SUBSET Job /\ Held \in SUBSET Job
  BY DEF Vetted, Held
<1>2. Units(Vetted) \subseteq Units(Held)
  BY VettedIsHeld DEF Units
<1>. QED
  BY <1>1, <1>2, SumFacts, FS_Subset DEF SumOf

\* Only the two steps of a creation touch what a request has checked.
LEMMA RequestSteps ==
  ASSUME [RefundNext]_vars
  PROVE  \/ UNCHANGED <<checks, raced>>
         \/ \E r \in Job, amount \in 1 .. Total : CheckBalance(r, amount)
         \/ \E r \in Job : \E c \in checks[r], status \in {"draft", "succeeded"} :
               Create(r, c, status)
<1>1. ASSUME NEW w \in Worker, RunStep(w) \/ Die(w)
      PROVE  UNCHANGED <<checks, raced>>
  BY <1>1 DEF RunStep, QueueStep, FindDone, Refuse, Recover, Call, Succeed, Fail,
              FailUnrecorded, Die, books, requests
<1>2. ASSUME NEW r \in Job, Ask(r, {"draft", "pending", "failed"}) \/ Cancel(r)
      PROVE  UNCHANGED <<checks, raced>>
  BY <1>2 DEF Ask, Cancel, requests
<1>3. CASE UNCHANGED vars \/ UNCHANGED <<books, call, hand>>
  BY <1>3 DEF vars, books, requests
<1>. QED
  BY <1>1, <1>2, <1>3, RefundSteps

\* A refund that is there stays out of the vetted ones if it is out: one that
\* comes back after a failure is asked for a second time.
LEMMA VettedShrinks ==
  ASSUME IInv, RefundTypeOK, CallInv, AskInv, [RefundNext]_vars,
         NEW r \in Job, r \in Vetted', refund[r] # None
  PROVE  r \in Vetted /\ refund'[r].amount = refund[r].amount
<1>1. /\ asked[r] \in Nat /\ asked'[r] \in Nat /\ asked'[r] <= 1
      /\ In(r, {"pending", "processing", "failed"}) => asked[r] > 0
  BY RefundTypeStep DEF AskInv, RefundTypeOK, Vetted
<1>2. raced \subseteq raced'
  BY RequestSteps DEF CheckBalance, Create
<1>3. Wanted(r) \/ Dropped(r) \/ Called(r) \/ Paid(r) \/ Kept(r)
  BY OneRefund DEF Begun
<1>4. asked[r] <= asked'[r]
  BY <1>1, <1>3 DEF Wanted, Dropped, Called, Paid, Kept, Same
<1>5. In(r, {"succeeded", "draft", "pending", "processing"})'
  BY DEF Vetted
<1>6. /\ In(r, {"succeeded", "draft", "pending", "processing"})
      /\ refund'[r].amount = refund[r].amount
  BY <1>1, <1>3, <1>5 DEF Wanted, Dropped, Called, Paid, Kept, Same, Moves, In
<1>. QED
  BY <1>1, <1>2, <1>4, <1>6 DEF Vetted

\* A new row takes the room its check has found, if nobody came in between,
\* and makes every other check stale.
LEMMA CreateFits ==
  ASSUME RefundTypeOK, VettedRefundsFit, RoomInv,
         NEW q \in Job, NEW c \in checks[q], NEW status \in {"draft", "succeeded"},
         Create(q, c, status)
  PROVE  VettedRefundsFit' /\ RoomInv'
<1>. USE DEF RefundTypeOK
<1>. DEFINE new == {q} \X (1 .. c.amount)
<1>1. c \in Check /\ \A r \in Job : \A d \in checks[r] : d \in Check
  OBVIOUS
<1>2. /\ refund' = [refund EXCEPT ![q] = [status |-> status, amount |-> c.amount,
                                          external |-> FALSE]]
      /\ raced' = IF c.stale THEN raced \union {q} ELSE raced
      /\ checks' = [r \in Job |-> IF r = q THEN {}
                        ELSE {[d EXCEPT !.stale = TRUE] : d \in checks[r]}]
      /\ UNCHANGED asked
  BY DEF Create
<1>3. RoomInv'
  <2>1. \A d \in Check : [d EXCEPT !.stale = TRUE].stale
    BY DEF Check
  <2>2. ASSUME NEW r \in Job, NEW d \in checks'[r] PROVE d.stale
    BY <1>1, <1>2, <2>1
  <2>. QED
    BY <2>2 DEF RoomInv
<1>4. IsFiniteSet(Units(Vetted)) /\ SumOf(Vetted) \in Nat
  BY VettedSum
<1>5. refund'[q].amount = c.amount /\ c.amount \in 1 .. Total
  BY <1>1, <1>2 DEF Check
<1>6. \A r \in Job \ {q} :
        refund'[r] = refund[r] /\ (r \in Vetted' => r \in Vetted)
  BY <1>2 DEF Vetted, In
<1>7. CASE q \notin Vetted'
  <2>1. ASSUME NEW r \in Job, r \in Vetted'
        PROVE  r \in Vetted /\ refund'[r].amount = refund[r].amount
    BY <1>6, <1>7, <2>1
  <2>2. Vetted \subseteq Job /\ Vetted' \subseteq Job
    BY DEF Vetted
  <2>3. Units(Vetted)' \subseteq Units(Vetted)
    BY <2>1, <2>2 DEF Units
  <2>4. Cardinality(Units(Vetted)') \in Nat
        /\ Cardinality(Units(Vetted)') <= Cardinality(Units(Vetted))
    BY <1>4, <2>3, FS_Subset, FS_CardinalityType
  <2>. QED
    BY <1>3, <1>4, <2>4, RefundAssumption DEF SumOf, VettedRefundsFit
<1>8. CASE q \in Vetted'
  <2>1. ~c.stale
    BY <1>2, <1>8 DEF Vetted
  <2>2. c.amount + SumOf(Vetted) <= Total
    BY <2>1 DEF RoomInv
  <2>3. IsFiniteSet(new) /\ Cardinality(new) = c.amount
    <3>. DEFINE k == c.amount
    <3>1. 1 \in Int /\ k \in Int /\ k >= 1
      BY <1>5, RefundAssumption
    <3>. HIDE DEF k
    <3>2. IsFiniteSet(1 .. k) /\ Cardinality(1 .. k) = k
      <4>1. IsFiniteSet(1 .. k) /\ Cardinality(1 .. k) = IF 1 > k THEN 0 ELSE k - 1 + 1
        BY <3>1, FS_Interval
      <4>2. (IF 1 > k THEN 0 ELSE k - 1 + 1) = k
        BY <3>1
      <4>. QED
        BY <4>1, <4>2
    <3>3. IsFiniteSet({q}) /\ Cardinality({q}) = 1
      BY FS_Singleton
    <3>4. /\ IsFiniteSet({q} \X (1 .. k))
          /\ Cardinality({q} \X (1 .. k)) = Cardinality({q}) * Cardinality(1 .. k)
      BY <3>2, <3>3, FS_Product
    <3>5. Cardinality({q} \X (1 .. k)) = k
      BY <3>1, <3>2, <3>3, <3>4
    <3>. QED
      BY <3>4, <3>5 DEF k
  <2>4. Units(Vetted)' \subseteq Units(Vetted) \union new
    <3>1. Vetted \subseteq Job /\ Vetted' \subseteq Job
      BY DEF Vetted
    <3>2. \A u \in Job \X (1 .. Total) : u[1] = q /\ u[2] <= c.amount => u \in new
      BY <1>5, RefundAssumption
    <3>3. ASSUME NEW u \in Units(Vetted)' PROVE u \in Units(Vetted) \union new
      <4>1. /\ u \in Vetted' \X (1 .. Total) /\ u[2] <= refund'[u[1]].amount
            /\ u[1] \in Job /\ u \in Job \X (1 .. Total)
        BY <3>1, <3>3 DEF Units
      <4>2. CASE u[1] = q
        BY <1>5, <3>2, <4>1, <4>2
      <4>3. CASE u[1] # q
        BY <1>6, <4>1, <4>3 DEF Units
      <4>. QED
        BY <4>2, <4>3
    <3>. QED
      BY <3>3
  <2>5. /\ IsFiniteSet(Units(Vetted) \union new)
        /\ Cardinality(Units(Vetted) \union new) <= SumOf(Vetted) + c.amount
    <3>1. /\ IsFiniteSet(Units(Vetted) \union new)
          /\ Cardinality(Units(Vetted) \union new) =
               SumOf(Vetted) + c.amount - Cardinality(Units(Vetted) \intersect new)
      BY <1>4, <2>3, FS_Union DEF SumOf
    <3>2. Cardinality(Units(Vetted) \intersect new) \in Nat
      BY <1>4, FS_Intersection, FS_CardinalityType
    <3>. QED
      BY <1>4, <1>5, <3>1, <3>2, RefundAssumption
  <2>6. /\ Cardinality(Units(Vetted)') <= Cardinality(Units(Vetted) \union new)
        /\ Cardinality(Units(Vetted)') \in Nat
        /\ Cardinality(Units(Vetted) \union new) \in Nat
    BY <2>4, <2>5, FS_Subset, FS_CardinalityType
  <2>. QED
    BY <1>3, <1>4, <1>5, <2>2, <2>5, <2>6, RefundAssumption DEF SumOf, VettedRefundsFit
<1>. QED
  BY <1>7, <1>8

\* Whatever else happens, the vetted refunds become no more.
LEMMA BalanceStep ==
  ASSUME IInv, RefundTypeOK, CallInv, AskInv, VettedRefundsFit, RoomInv,
         [RefundNext]_vars
  PROVE  VettedRefundsFit' /\ RoomInv'
<1>1. CASE \E q \in Job : \E c \in checks[q], status \in {"draft", "succeeded"} :
             Create(q, c, status)
  BY <1>1, CreateFits
<1>2. CASE ~(\E q \in Job : \E c \in checks[q], status \in {"draft", "succeeded"} :
               Create(q, c, status))
  <2>1. ASSUME NEW r \in Job, r \in Vetted'
        PROVE  r \in Vetted /\ refund'[r].amount = refund[r].amount
    <3>1. ~Begun(r)
      BY <1>2 DEF Begun
    <3>2. refund[r] # None
      BY <2>1, <3>1, OneRefund
      DEF Wanted, Dropped, Called, Paid, Kept, Moves, In, Vetted
    <3>. QED
      BY <2>1, <3>2, VettedShrinks
  <2>2. Vetted \subseteq Job /\ Vetted' \subseteq Job
    BY DEF Vetted
  <2>3. Units(Vetted)' \subseteq Units(Vetted)
    BY <2>1, <2>2 DEF Units
  <2>4. /\ SumOf(Vetted) \in Nat /\ SumOf(Vetted)' \in Nat
        /\ SumOf(Vetted)' <= SumOf(Vetted)
    BY <2>3, VettedSum, FS_Subset, FS_CardinalityType DEF SumOf
  <2>5. VettedRefundsFit'
    BY <2>4, RefundAssumption DEF VettedRefundsFit
  <2>6. ASSUME NEW r \in Job, NEW c \in checks[r]
        PROVE  c.stale \/ c.amount + SumOf(Vetted)' <= Total
    <3>1. c.amount \in Nat
      BY RefundAssumption DEF RefundTypeOK, Check
    <3>. QED
      BY <2>4, <2>6, <3>1, RefundAssumption DEF RoomInv
  <2>7. CASE UNCHANGED <<checks, raced>>
    BY <2>5, <2>6, <2>7 DEF RoomInv
  <2>8. ASSUME NEW q \in Job, NEW amount \in 1 .. Total, CheckBalance(q, amount)
        PROVE  RoomInv'
    <3>1. amount + SumOf(Vetted)' <= Total
      BY <2>4, <2>8, VettedSum, RefundAssumption DEF CheckBalance, Refundable, Held
    <3>2. \A r \in Job : \A c \in checks'[r] :
            c \in checks[r] \/ c = [amount |-> amount, stale |-> FALSE]
      BY <2>8 DEF CheckBalance, RefundTypeOK
    <3>. QED
      BY <2>6, <3>1, <3>2 DEF RoomInv
  <2>. QED
    BY <1>2, <2>5, <2>7, <2>8, RequestSteps
<1>. QED
  BY <1>1, <1>2
-----------------------------------------------------------------------------
(* The inductive invariant of refunds, beside that of the queue.           *)
THEOREM RefundInductive == RefundSpec => []RefundInv
<1>1. RefundInit => RefundInv
  <2>1. RefundInit => RefundTypeOK /\ CallInv /\ PaidOnlyWhenAsked /\ BooksMatchRefunds
                      /\ AskInv
    BY DEF RefundInit, RefundTypeOK, CallInv, PaidOnlyWhenAsked, BooksMatchRefunds,
           AskInv, NoCall, In
  <2>2. RefundInit => VettedRefundsFit
    <3>1. RefundInit => Units(Vetted) = {}
      BY DEF RefundInit, Units, Vetted, In
    <3>. QED
      BY <3>1, FS_EmptySet, RefundAssumption DEF VettedRefundsFit, SumOf
  <2>3. RefundInit => RoomInv
    BY DEF RefundInit, RoomInv
  <2>. QED
    BY <2>1, <2>2, <2>3 DEF RefundInv
<1>2. IInv /\ RefundInv /\ [RefundNext]_vars => RefundInv'
  BY RefundTypeStep, CallStep, PaidStep, BooksStep, AskStep, BalanceStep DEF RefundInv
<1>. QED
  BY <1>1, <1>2, QueueHolds, PTL DEF RefundSpec

(* The rows, entries, calls and counters are always of their types.        *)
THEOREM RefundsAreTyped == RefundSpec => []RefundTypeOK
<1>1. RefundInv => RefundTypeOK
  BY DEF RefundInv
<1>. QED
  BY <1>1, RefundInductive, PTL

(* executeRefundUseCase: the marketplace never pays a refund more often    *)
(* than it was asked for.                                                  *)
THEOREM NoUnaskedPayment == RefundSpec => []PaidOnlyWhenAsked
<1>1. RefundInv => PaidOnlyWhenAsked
  BY DEF RefundInv
<1>. QED
  BY <1>1, RefundInductive, PTL

(* createFinanceEntrySync: a refund has its finance entry exactly when it  *)
(* has succeeded.                                                          *)
THEOREM BooksAreTrue == RefundSpec => []BooksMatchRefunds
<1>1. RefundInv => BooksMatchRefunds
  BY DEF RefundInv
<1>. QED
  BY <1>1, RefundInductive, PTL

(* calculateMaximumRefundUseCase: for any number of refunds of an order,   *)
(* those created on a balance that was still the one checked, and not      *)
(* brought back after a failure, together never exceed what was paid.      *)
THEOREM BalanceIsKept == RefundSpec => []VettedRefundsFit
<1>1. RefundInv => VettedRefundsFit
  BY DEF RefundInv
<1>. QED
  BY <1>1, RefundInductive, PTL

(* No late run, recovery or request undoes a refund that has succeeded.    *)
THEOREM SuccessIsFinal == RefundSpec => SettledForGood
<1>1. IInv /\ RefundInv /\ [RefundNext]_vars =>
        [\A r \in Job : In(r, {"succeeded"}) =>
           /\ refund'[r] = refund[r]
           /\ r \in entries'
           /\ paid'[r] = paid[r]]_vars
  BY SettledStep DEF RefundInv
<1>. QED
  BY <1>1, QueueHolds, RefundInductive, PTL DEF RefundSpec, SettledForGood
-----------------------------------------------------------------------------
(***************************************************************************)
(* StockSync.                                                              *)
(***************************************************************************)
\* The steps of StockNext, by what they do to the product and the listing.
LEMMA StockSteps ==
  ASSUME [StockNext]_stockVars
  PROVE  \/ UNCHANGED stockVars
         \/ \E m \in Job, delta \in {-1, 1} : Move(m, delta)
         \/ \E m \in Job : Materialize(m)
         \/ \E m \in Job : SettleIntent(m)
         \/ \E w \in Worker : ReadStock(w)
         \/ \E w \in Worker : Compare(w)
         \/ \E w \in Worker : Push(w)
         \/ \E w \in Worker : Confirm(w)
         \/ \E w \in Worker, retryable \in BOOLEAN : FailSync(w, retryable)
         \/ \E w \in Worker : LoseRun(w)
         \/ \E w \in Worker : QueueAround(w)
         \/ \E w \in Worker, S \in SUBSET Job : ClaimSyncs(w, S)
         \/ \E m \in Job : OrderJob(m)
BY DEF StockNext, SyncStep

\* What a step does to the queue is a step of the queue, or nothing.
LEMMA StockQueueSteps ==
  ASSUME [StockNext]_stockVars
  PROVE  [QueueNext]_queue
<1>. USE DEF queue
<1>1. CASE UNCHANGED stockVars
  BY <1>1 DEF stockVars
<1>2. ASSUME NEW m \in Job, NEW delta, Move(m, delta) PROVE UNCHANGED queue
  BY <1>2 DEF Move
<1>3. ASSUME NEW m \in Job, Materialize(m)
      PROVE  Enqueue(m) \/ UNCHANGED queue
  BY <1>3 DEF Materialize, EnqueueSync
<1>4. ASSUME NEW m \in Job, SettleIntent(m) PROVE UNCHANGED queue
  BY <1>4 DEF SettleIntent
<1>5. ASSUME NEW w \in Worker, ReadStock(w) \/ Push(w) PROVE UNCHANGED queue
  BY <1>5 DEF ReadStock, Push
<1>6. ASSUME NEW w \in Worker, Compare(w) \/ Confirm(w)
      PROVE  Complete(w) \/ UNCHANGED queue
  BY <1>6 DEF Compare, Confirm
<1>7. ASSUME NEW w \in Worker, NEW b \in BOOLEAN, FailSync(w, b)
      PROVE  Raise(w, b)
  BY <1>7 DEF FailSync
<1>8. ASSUME NEW w \in Worker, LoseRun(w) PROVE Abort(w)
  BY <1>8 DEF LoseRun
<1>9. ASSUME NEW w \in Worker, QueueAround(w)
      PROVE  TakeUp(w) \/ FailRead(w) \/ FailWrite(w)
  BY <1>9 DEF QueueAround
<1>10. ASSUME NEW w \in Worker, NEW S \in SUBSET Job, ClaimSyncs(w, S)
       PROVE  Claim(w, S)
  BY <1>10 DEF ClaimSyncs
<1>11. ASSUME NEW m \in Job, OrderJob(m) PROVE RetryJob(m) \/ CancelJob(m)
  BY <1>11 DEF OrderJob
<1>. QED
  BY <1>1, <1>2, <1>3, <1>4, <1>5, <1>6, <1>7, <1>8, <1>9, <1>10, <1>11,
     StockSteps DEF QueueNext, WorkerStep

\* All that is proved of the queue holds of it here.
(* StockSync implements JobQueue: neither the outbox nor a run inside the  *)
(* listing touches the rows of background_jobs except through the queue.   *)
THEOREM SyncsAreJobs == StockSpec => QueueSpec
<1>1. StockInit => QueueInit
  BY DEF StockInit
<1>. QED
  BY <1>1, StockQueueSteps, PTL DEF StockSpec, QueueSpec

LEMMA StockQueueHolds == StockSpec => []IInv
BY SyncsAreJobs, Inductive

-----------------------------------------------------------------------------
\* A row stays, and only completeJob makes it a success.
LEMMA RowStays ==
  ASSUME IInv, [QueueNext]_queue, NEW m \in Job, job[m] # None
  PROVE  /\ job'[m] # None
         /\ job[m].status # "succeeded" /\ job'[m].status = "succeeded" =>
              \E w \in Worker : Complete(w) /\ hand[w].copy.job = m
<1>. USE DEF IInv
<1>0. job \in [Job -> Row \union {None}] /\ job[m] \in Row
  BY DEF TypeOK
<1>1. CASE UNCHANGED queue
  BY <1>1 DEF queue
<1>2. ASSUME NEW j \in Job, Enqueue(j) PROVE job'[m] = job[m]
  BY <1>0, <1>2 DEF Enqueue
<1>3. ASSUME NEW j \in Job, NEW s \in {"pending", "cancelled"}, Order(j, s)
      PROVE  job'[m] \in Row /\ (job'[m] = job[m] \/ job'[m].status = s)
  <2>1. [job[m] EXCEPT !.status = s, !.token = 0] \in Row
    BY <1>0, RowUpdates DEF Status
  <2>2. [job[m] EXCEPT !.status = s, !.token = 0].status = s
    BY <1>0 DEF Row
  <2>. QED
    BY <1>0, <1>3, <2>1, <2>2 DEF Order, Released
<1>4. ASSUME NEW w \in Worker, NEW S \in SUBSET Job, Claim(w, S)
      PROVE  /\ job'[m] # None
             /\ job'[m] = job[m] \/ job'[m].status = "processing"
  BY <1>0, <1>4, ClaimStep
<1>5. ASSUME NEW w \in Worker, TakeUp(w) \/ Leave(w) \/ FailRead(w) \/ Abort(w)
                                 \/ \E b \in BOOLEAN : Raise(w, b)
      PROVE  job' = job
  BY <1>5 DEF TakeUp, Leave, FailRead, Abort, Raise
<1>6. ASSUME NEW w \in Worker, Complete(w)
      PROVE  job'[m] # None /\ (job'[m] = job[m] \/ hand[w].copy.job = m)
  <2>1. [job[m] EXCEPT !.status = "succeeded", !.token = 0] \in Row
    BY <1>0, RowUpdates DEF Status
  <2>. QED
    BY <1>0, <1>6, <2>1, NoneAssumption DEF Complete, Released
<1>7. ASSUME NEW w \in Worker, FailWrite(w)
      PROVE  /\ job'[m] # None
             /\ job'[m] = job[m] \/ job'[m].status # "succeeded"
  <2>1. hand[w].count + 1 \in Nat /\ hand[w].retryable \in BOOLEAN
    BY DEF TypeOK
  <2>2. [status |-> AfterFailure(hand[w].count + 1, hand[w].retryable),
         token |-> 0, attempts |-> hand[w].count + 1] \in Row
    BY <2>1, RowUpdates
  <2>3. AfterFailure(hand[w].count + 1, hand[w].retryable) # "succeeded"
    BY <2>1, QueueAssumption DEF AfterFailure
  <2>. QED
    BY <1>0, <1>7, <2>2, <2>3, NoneAssumption DEF FailWrite
<1>. QED
  BY <1>0, <1>1, <1>2, <1>3, <1>4, <1>5, <1>6, <1>7, Steps, NoneAssumption

\* Nobody holds a copy of a job that has no row.
LEMMA CopiesHaveRows ==
  ASSUME IInv, [QueueNext]_queue,
         \A w \in Worker : \A c \in Copies(w) : job[c.job] # None
  PROVE  \A w \in Worker : \A c \in Copies(w)' : job'[c.job] # None
<1>. USE DEF IInv
<1>1. \A w \in Worker : \A c \in Copies(w) : c.job \in Job
  BY CopiesOf DEF Copy
<1>2. \A w \in Worker : \A c \in Copies(w) : job'[c.job] # None
  BY <1>1, RowStays
<1>3. ASSUME NEW w \in Worker, NEW S \in SUBSET Job, Claim(w, S)
      PROVE  \A v \in Worker : \A c \in Copies(v)' : job'[c.job] # None
  BY <1>2, <1>3, ClaimStep DEF Handed
<1>4. CASE ~(\E w \in Worker, S \in SUBSET Job : Claim(w, S))
  BY <1>2, <1>4, QuietStep DEF Quiet
<1>. QED
  BY <1>3, <1>4
-----------------------------------------------------------------------------
\* Only a run that is told of another quantity records a conflict.
LEMMA ConflictStays ==
  ASSUME NEW w \in Worker, Compare(w) \/ Confirm(w), conflict \in BOOLEAN
  PROVE  /\ conflict' \in BOOLEAN
         /\ ~conflict' => ~conflict /\ (Confirm(w) => sync[w].at = "pushed")
<1>1. CASE Compare(w)
  <2>1. conflict' = conflict
    BY <1>1 DEF Compare, stock
  <2>2. ~Confirm(w)
    BY <1>1 DEF Compare, Confirm
  <2>. QED
    BY <2>1, <2>2
<1>2. CASE Confirm(w)
  <2>1. conflict' \in BOOLEAN /\ (~conflict' => ~conflict /\ sync[w].at # "differs")
    BY <1>2, Zenon DEF Confirm
  <2>. QED
    BY <1>2, <2>1 DEF Confirm
<1>. QED
  BY <1>1, <1>2

LEMMA StockTypeStep ==
  ASSUME IInv, StockTypeOK, [StockNext]_stockVars
  PROVE  StockTypeOK'
<1>. USE StockAssumption DEF StockTypeOK, stock
<1>1. CASE UNCHANGED stockVars
  BY <1>1 DEF stockVars
<1>2. ASSUME NEW m \in Job, NEW delta \in {-1, 1}, Move(m, delta)
      PROVE  StockTypeOK'
  BY <1>2 DEF Move, Recorded
<1>3. ASSUME NEW m \in Job, Materialize(m) \/ SettleIntent(m)
      PROVE  StockTypeOK'
  BY <1>3 DEF Materialize, SettleIntent
<1>4. ASSUME NEW w \in Worker, ReadStock(w) PROVE StockTypeOK'
  BY <1>4 DEF ReadStock
<1>5. ASSUME NEW w \in Worker, Compare(w) \/ Confirm(w) PROVE StockTypeOK'
  <2>1. conflict' \in BOOLEAN
    BY <1>5, ConflictStays
  <2>. QED
    BY <1>5, <2>1 DEF Compare, Confirm, Outside
<1>6. ASSUME NEW w \in Worker, Push(w) PROVE StockTypeOK'
  <2>1. PICK held \in 0 .. MaxStock :
          /\ remote' = held
          /\ sync' = [sync EXCEPT ![w].at = IF held = sync[w].stock THEN "pushed"
                                                                   ELSE "differs"]
    BY <1>6 DEF Push
  <2>. QED
    BY <1>6, <2>1 DEF Push
<1>7. ASSUME NEW w \in Worker, LoseRun(w) \/ \E b \in BOOLEAN : FailSync(w, b)
      PROVE  StockTypeOK'
  BY <1>7 DEF LoseRun, FailSync, Outside
<1>8. ASSUME NEW w \in Worker, QueueAround(w) \/ \E S \in SUBSET Job : ClaimSyncs(w, S)
      PROVE  StockTypeOK'
  BY <1>8 DEF QueueAround, ClaimSyncs
<1>9. ASSUME NEW m \in Job, OrderJob(m) PROVE StockTypeOK'
  BY <1>9 DEF OrderJob
<1>. QED
  BY <1>1, <1>2, <1>3, <1>4, <1>5, <1>6, <1>7, <1>8, <1>9, StockSteps

\* Only Materialize gives a movement a row, and only Move and the outbox
\* change its event.
LEMMA IntentMoves ==
  ASSUME IInv, StockTypeOK, RowsInv, [StockNext]_stockVars, NEW m \in Job
  PROVE  \/ intent'[m] = intent[m] /\ (job[m] = None => job'[m] = None)
         \/ intent[m] = "none" /\ intent'[m] = "due" /\ job'[m] = None
         \/ /\ intent[m] \in {"due", "handled"} /\ intent'[m] = "handled"
            /\ job'[m] # None
            /\ intent[m] = "due" => job'[m].status = "pending"
         \/ intent[m] = "handled" /\ intent'[m] = "done" /\ job' = job
         \/ intent[m] \in {"due", "handled"} /\ intent'[m] = "dead" /\ job' = job
<1>. USE DEF stock, StockTypeOK
<1>0. job \in [Job -> Row \union {None}]
  BY DEF IInv, TypeOK
<1>1. CASE UNCHANGED stockVars
  BY <1>1 DEF stockVars, queue
<1>2. ASSUME NEW n \in Job, NEW delta \in {-1, 1}, Move(n, delta)
      PROVE  \/ intent'[m] = intent[m] /\ job' = job
             \/ intent[m] = "none" /\ intent'[m] = "due" /\ job'[m] = None
  BY <1>2 DEF Move, Recorded, queue
<1>3. ASSUME NEW n \in Job, Materialize(n)
      PROVE  \/ intent'[m] = intent[m] /\ job'[m] = job[m]
             \/ /\ intent[m] \in {"due", "handled"} /\ intent'[m] = "handled"
                /\ job'[m] # None
                /\ intent[m] = "due" => job'[m].status = "pending"
  <2>1. [status |-> "pending", token |-> 0, attempts |-> 0] \in Row
    BY DEF Row, Status
  <2>. QED
    BY <1>0, <1>3, <2>1, NoneAssumption
    DEF Materialize, EnqueueSync, Enqueue, queue, RowsInv
<1>4. ASSUME NEW n \in Job, SettleIntent(n)
      PROVE  \/ intent'[m] = intent[m] /\ job' = job
             \/ intent[m] = "handled" /\ intent'[m] = "done" /\ job' = job
             \/ /\ intent[m] \in {"due", "handled"} /\ intent'[m] = "dead"
                /\ job' = job
  BY <1>4 DEF SettleIntent, queue
<1>5. ASSUME NEW w \in Worker, ReadStock(w) \/ Push(w)
      PROVE  intent' = intent /\ job' = job
  BY <1>5 DEF ReadStock, Push, queue
<1>6. ASSUME NEW w \in Worker, Compare(w) \/ Confirm(w)
      PROVE  intent' = intent /\ (job[m] = None => job'[m] = None)
  BY <1>0, <1>6 DEF Compare, Confirm, Complete, Owned, Is, queue
<1>7. ASSUME NEW w \in Worker, LoseRun(w) \/ \E b \in BOOLEAN : FailSync(w, b)
      PROVE  intent' = intent /\ job' = job
  BY <1>7 DEF LoseRun, FailSync, Abort, Raise
<1>8. ASSUME NEW w \in Worker, QueueAround(w)
      PROVE  intent' = intent /\ (job[m] = None => job'[m] = None)
  BY <1>0, <1>8 DEF QueueAround, TakeUp, FailRead, FailWrite, Writable, Owned, Is
<1>9. ASSUME NEW w \in Worker, NEW S \in SUBSET Job, ClaimSyncs(w, S)
      PROVE  intent' = intent /\ (job[m] = None => job'[m] = None)
  BY <1>0, <1>9 DEF ClaimSyncs, Claim, Claimable, Is
<1>10. ASSUME NEW n \in Job, OrderJob(n)
       PROVE  intent' = intent /\ (job[m] = None => job'[m] = None)
  BY <1>0, <1>10 DEF OrderJob, RetryJob, CancelJob, Order
<1>. QED
  BY <1>1, <1>2, <1>3, <1>4, <1>5, <1>6, <1>7, <1>8, <1>9, <1>10, StockSteps

LEMMA RowsStep ==
  ASSUME IInv, StockTypeOK, RowsInv, [StockNext]_stockVars
  PROVE  RowsInv'
<1>1. [QueueNext]_queue
  BY StockQueueSteps
<1>2. \A m \in Job : job[m] # None => job'[m] # None
  BY <1>1, RowStays
<1>3. ASSUME NEW m \in Job
      PROVE  /\ intent'[m] \in {"none", "due"} => job'[m] = None
             /\ intent'[m] \in {"handled", "done"} => job'[m] # None
  BY <1>2, IntentMoves DEF RowsInv
<1>4. ASSUME NEW w \in Worker, NEW c \in Copies(w)'
      PROVE  job'[c.job] # None
  BY <1>1, CopiesHaveRows DEF RowsInv
<1>. QED
  BY <1>3, <1>4 DEF RowsInv
-----------------------------------------------------------------------------
\* A run moves its own hand and its own place in the listing.
LEMMA OneRun ==
  ASSUME IInv, StockTypeOK, NEW w \in Worker, SyncStep(w) \/ LoseRun(w)
  PROVE  \A v \in Worker : v # w => hand'[v] = hand[v] /\ sync'[v] = sync[v]
<1>1. hand \in [Worker -> [at : Place, copy : Copy \union {None}, count : Nat,
                           retryable : BOOLEAN]]
  BY DEF IInv, TypeOK
<1>2. CASE ReadStock(w) \/ Push(w)
  BY <1>2 DEF ReadStock, Push, StockTypeOK, queue
<1>3. CASE Compare(w) \/ Confirm(w)
  BY <1>1, <1>3 DEF Compare, Confirm, Complete, StockTypeOK, queue
<1>4. CASE LoseRun(w) \/ \E b \in BOOLEAN : FailSync(w, b)
  BY <1>1, <1>4 DEF LoseRun, FailSync, Abort, Raise, StockTypeOK
<1>5. CASE QueueAround(w)
  BY <1>1, <1>5 DEF QueueAround, TakeUp, FailRead, FailWrite
<1>. QED
  BY <1>2, <1>3, <1>4, <1>5 DEF SyncStep

\* What is left of a run when it ends, fails or dies.
LEMMA RunEnds ==
  ASSUME IInv, StockTypeOK, NEW w \in Worker,
         sync' = [sync EXCEPT ![w] = Outside]
  PROVE  ~Inside(w)'
BY DEF StockTypeOK, Inside, Outside

\* The steps outside the listing.
LEMMA OutsideSteps ==
  ASSUME IInv, StockTypeOK, AloneInv, [StockNext]_stockVars,
         ~(\E w \in Worker : \/ ReadStock(w) \/ Compare(w) \/ Push(w) \/ Confirm(w)
                             \/ LoseRun(w) \/ \E b \in BOOLEAN : FailSync(w, b))
  PROVE  /\ sync' = sync /\ remote' = remote /\ overlapped' = overlapped
         /\ conflict' = conflict
         /\ \A w \in Worker : Inside(w) => hand'[w] = hand[w]
         /\ local' = local \/ \E m \in Job, delta \in {-1, 1} : Move(m, delta)
<1>. USE DEF stock
<1>1. CASE UNCHANGED stockVars
  BY <1>1 DEF stockVars, queue
<1>2. ASSUME NEW m \in Job, Materialize(m) \/ SettleIntent(m)
      PROVE  UNCHANGED <<sync, remote, conflict, overlapped, hand, local>>
  BY <1>2 DEF Materialize, SettleIntent, EnqueueSync, Enqueue, queue
<1>3. ASSUME NEW m \in Job, NEW delta \in {-1, 1}, Move(m, delta)
      PROVE  UNCHANGED <<sync, remote, conflict, overlapped, hand>>
  BY <1>3 DEF Move, queue
<1>4. ASSUME NEW m \in Job, OrderJob(m)
      PROVE  UNCHANGED <<sync, remote, conflict, overlapped, hand, local>>
  BY <1>4 DEF OrderJob, RetryJob, CancelJob, Order
<1>5. ASSUME NEW w \in Worker, NEW S \in SUBSET Job, ClaimSyncs(w, S)
      PROVE  UNCHANGED <<sync, remote, conflict, overlapped, hand, local>>
  BY <1>5 DEF ClaimSyncs, Claim
<1>6. ASSUME NEW w \in Worker, QueueAround(w)
      PROVE  /\ UNCHANGED <<sync, remote, conflict, overlapped, local>>
             /\ \A v \in Worker : Inside(v) => hand'[v] = hand[v]
  <2>1. ~Inside(w)
    BY <1>6 DEF QueueAround, TakeUp, FailRead, FailWrite, AloneInv
  <2>2. \A v \in Worker : v # w => hand'[v] = hand[v]
    BY <1>6, OneRun DEF SyncStep
  <2>. QED
    BY <1>6, <2>1, <2>2 DEF QueueAround
<1>. QED
  BY <1>1, <1>2, <1>3, <1>4, <1>5, <1>6, StockSteps

(* A run alone in the listing leaves there what it has read.               *)
LEMMA AloneStep ==
  ASSUME IInv, StockTypeOK, AloneInv, [StockNext]_stockVars
  PROVE  AloneInv'
<1>. USE DEF Inside
<1>0. /\ hand \in [Worker -> [at : Place, copy : Copy \union {None}, count : Nat,
                              retryable : BOOLEAN]]
      /\ sync \in [Worker -> [at : {"out", "ask", "push", "pushed", "differs"},
                              stock : 0 .. MaxStock]]
  BY DEF IInv, TypeOK, StockTypeOK
<1>1. ASSUME NEW w \in Worker, ReadStock(w) PROVE AloneInv'
  BY <1>0, <1>1 DEF ReadStock, AloneInv, queue
<1>2. ASSUME NEW w \in Worker, Compare(w) \/ Confirm(w),
             sync' = [sync EXCEPT ![w] = Outside]
      PROVE  AloneInv'
  <2>1. remote' = remote /\ overlapped' = overlapped
    BY <1>2 DEF Compare, Confirm, stock
  <2>2. \A v \in Worker : v # w => hand'[v] = hand[v] /\ sync'[v] = sync[v]
    BY <1>2, OneRun DEF SyncStep
  <2>3. sync'[w].at = "out"
    BY <1>0, <1>2 DEF Outside
  <2>. QED
    BY <2>1, <2>2, <2>3 DEF AloneInv
<1>3. ASSUME NEW w \in Worker, Compare(w), sync' # [sync EXCEPT ![w] = Outside]
      PROVE  AloneInv'
  <2>1. /\ hand' = hand /\ remote' = remote /\ overlapped' = overlapped
        /\ sync[w].at = "ask" /\ sync' = [sync EXCEPT ![w].at = "push"]
        /\ sync[w].stock # remote
    BY <1>3 DEF Compare, stock, queue
  <2>2. /\ sync'[w].at = "push" /\ sync'[w].stock = sync[w].stock
        /\ \A v \in Worker : v # w => sync'[v] = sync[v]
    BY <1>0, <2>1
  <2>. QED
    BY <2>1, <2>2 DEF AloneInv
<1>4. ASSUME NEW w \in Worker, Push(w) PROVE AloneInv'
  <2>1. /\ Inside(w) /\ hand' = hand /\ overlapped' = overlapped
        /\ sync'[w].at # "push"
        /\ sync'[w].at = "pushed" => remote' = sync'[w].stock
    BY <1>0, <1>4 DEF Push, queue
  <2>2. \A v \in Worker : v # w => sync'[v] = sync[v]
    BY <1>0, <1>4 DEF Push
  <2>. QED
    BY <2>1, <2>2 DEF AloneInv
<1>5. ASSUME NEW w \in Worker, LoseRun(w) \/ \E b \in BOOLEAN : FailSync(w, b)
      PROVE  AloneInv'
  <2>1. remote' = remote /\ overlapped' = overlapped
    BY <1>5 DEF LoseRun, FailSync, stock
  <2>2. \A v \in Worker : v # w => hand'[v] = hand[v] /\ sync'[v] = sync[v]
    BY <1>5, OneRun DEF SyncStep
  <2>3. sync'[w].at = "out"
    BY <1>0, <1>5 DEF LoseRun, FailSync, Outside
  <2>. QED
    BY <2>1, <2>2, <2>3 DEF AloneInv
<1>6. CASE ~(\E w \in Worker : \/ ReadStock(w) \/ Compare(w) \/ Push(w) \/ Confirm(w)
                               \/ LoseRun(w) \/ \E b \in BOOLEAN : FailSync(w, b))
  BY <1>6, OutsideSteps DEF AloneInv
<1>. QED
  BY <1>1, <1>2, <1>3, <1>4, <1>5, <1>6 DEF Confirm
-----------------------------------------------------------------------------
\* News of a movement stays on its way, unless its job has just succeeded.
LEMMA OpenStays ==
  ASSUME IInv, StockTypeOK, RowsInv, [StockNext]_stockVars, NEW m \in Job, Open(m)
  PROVE  Open(m)' \/ \E w \in Worker : Complete(w) /\ hand[w].copy.job = m
<1>1. CASE intent[m] = "dead"
  BY <1>1, IntentMoves DEF Open
<1>2. CASE intent[m] = "due"
  BY <1>2, IntentMoves DEF Open
<1>3. CASE job[m] # None /\ job[m].status # "succeeded"
  BY <1>3, StockQueueSteps, RowStays DEF Open
<1>. QED
  BY <1>1, <1>2, <1>3 DEF Open

\* Only a run that goes through the listing to its end makes a job succeed.
LEMMA NobodyCompletes ==
  ASSUME IInv, StockTypeOK, RowsInv, AloneInv, [StockNext]_stockVars,
         ~(\E w \in Worker : (Compare(w) \/ Confirm(w)) /\ hand' # hand),
         NEW m \in Job, Open(m)
  PROVE  Open(m)'
<1>0. /\ hand \in [Worker -> [at : Place, copy : Copy \union {None}, count : Nat,
                              retryable : BOOLEAN]]
      /\ AtRest.at = "next"
  BY DEF IInv, TypeOK, AtRest
<1>1. CASE \E w \in Worker : LoseRun(w)
  BY <1>1 DEF LoseRun, Abort, Open, stock
<1>2. CASE ~(\E w \in Worker : LoseRun(w))
  <2>1. CASE hand' = hand
    BY <1>0, <2>1, OpenStays DEF Complete
  <2>2. ASSUME NEW w \in Worker, NEW b \in BOOLEAN, FailSync(w, b)
        PROVE  \A v \in Worker : hand[v].at = "work" => hand'[v].at # "next"
    BY <1>0, <2>2 DEF FailSync, Raise
  <2>3. ASSUME NEW w \in Worker, QueueAround(w)
        PROVE  \A v \in Worker : hand[v].at = "work" => hand'[v].at # "next"
    BY <1>0, <2>3 DEF QueueAround, TakeUp, FailRead, FailWrite
  <2>4. \/ hand' = hand
        \/ \A v \in Worker : hand[v].at = "work" => hand'[v].at # "next"
    <3>1. CASE UNCHANGED stockVars
      BY <3>1 DEF stockVars, queue
    <3>2. ASSUME NEW n \in Job, \/ Materialize(n) \/ SettleIntent(n) \/ OrderJob(n)
                               \/ \E delta \in {-1, 1} : Move(n, delta)
          PROVE  hand' = hand
      BY <3>2 DEF Materialize, SettleIntent, OrderJob, Move, EnqueueSync, Enqueue,
                  RetryJob, CancelJob, Order, queue
    <3>3. ASSUME NEW w \in Worker, \/ ReadStock(w) \/ Push(w)
                                  \/ \E S \in SUBSET Job : ClaimSyncs(w, S)
          PROVE  hand' = hand
      BY <3>3 DEF ReadStock, Push, ClaimSyncs, Claim, queue
    <3>. QED
      BY <1>2, <2>2, <2>3, <3>1, <3>2, <3>3, StockSteps
  <2>. QED
    BY <1>0, <2>1, <2>4, OpenStays DEF Complete
<1>. QED
  BY <1>1, <1>2

(* The listing, and a run in it, are behind the product only while another *)
(* movement is open.                                                       *)
LEMMA NewsStep ==
  ASSUME IInv, StockTypeOK, RowsInv, AloneInv, NewsInv, [StockNext]_stockVars
  PROVE  NewsInv'
<1>. USE DEF Inside
<1>0. /\ hand \in [Worker -> [at : Place, copy : Copy \union {None}, count : Nat,
                              retryable : BOOLEAN]]
      /\ sync \in [Worker -> [at : {"out", "ask", "push", "pushed", "differs"},
                              stock : 0 .. MaxStock]]
  BY DEF IInv, TypeOK, StockTypeOK
<1>1. ASSUME NEW m \in Job, NEW delta \in {-1, 1}, Move(m, delta)
      PROVE  NewsInv'
  <2>1. Open(m)'
    BY <1>1 DEF Move, Recorded, Open, StockTypeOK
  <2>2. ASSUME NEW w \in Worker, Inside(w) PROVE m # hand[w].copy.job
    <3>1. hand[w].copy \in Copies(w)
      BY <2>2 DEF Copies, AloneInv
    <3>. QED
      BY <1>1, <3>1 DEF Move, RowsInv
  <2>3. hand' = hand /\ sync' = sync
    BY <1>1 DEF Move, queue
  <2>. QED
    BY <2>1, <2>2, <2>3 DEF NewsInv
<1>2. ASSUME NEW w \in Worker, Compare(w) \/ Confirm(w), hand' # hand
      PROVE  NewsInv'
  <2>. SUFFICES ASSUME ~conflict' PROVE NewsInv'
    BY DEF NewsInv
  <2>1. /\ Complete(w) /\ Inside(w) /\ sync' = [sync EXCEPT ![w] = Outside]
        /\ remote' = remote /\ local' = local /\ overlapped' = overlapped
        /\ sync[w].at = "ask" => sync[w].stock = remote
        /\ sync[w].at \in {"ask", "pushed"} /\ ~conflict
    BY <1>2, ConflictStays DEF Compare, Confirm, stock, queue, StockTypeOK
  <2>2. ~overlapped => \A v \in Worker : ~Inside(v)'
    <3>1. ~Inside(w)'
      BY <1>0, <2>1 DEF Outside
    <3>2. \A v \in Worker : v # w => sync'[v] = sync[v]
      BY <1>0, <2>1
    <3>. QED
      BY <2>1, <3>1, <3>2 DEF AloneInv
  <2>3. ASSUME NEW m \in Job, m # hand[w].copy.job, Open(m) PROVE Open(m)'
    <3>1. ASSUME NEW v \in Worker, Complete(v) PROVE v = w
      BY <1>0, <2>1, <3>1 DEF Complete, AtRest
    <3>. QED
      BY <2>3, <3>1, OpenStays
  <2>4. ~overlapped => sync[w].stock = remote
    BY <2>1 DEF AloneInv
  <2>. QED
    BY <2>1, <2>2, <2>3, <2>4 DEF NewsInv
<1>3. ASSUME ~(\E w \in Worker : (Compare(w) \/ Confirm(w)) /\ hand' # hand),
             ~(\E m \in Job, delta \in {-1, 1} : Move(m, delta))
      PROVE  NewsInv'
  <2>1. \A m \in Job : Open(m) => Open(m)'
    BY <1>3, NobodyCompletes
  <2>2. ASSUME NEW w \in Worker, ReadStock(w) PROVE NewsInv'
    <3>1. /\ hand' = hand /\ remote' = remote /\ local' = local
          /\ conflict' = conflict
          /\ sync' = [sync EXCEPT ![w] = [at |-> "ask", stock |-> local]]
          /\ ~overlapped' => ~overlapped /\ \A v \in Worker : ~Inside(v)
      BY <2>2 DEF ReadStock, queue
    <3>2. sync'[w].stock = local /\ \A v \in Worker : v # w => sync'[v] = sync[v]
      BY <1>0, <3>1
    <3>. QED
      BY <2>1, <3>1, <3>2 DEF NewsInv
  <2>3. ASSUME NEW w \in Worker, Compare(w) PROVE NewsInv'
    <3>1. /\ hand' = hand /\ remote' = remote /\ local' = local
          /\ overlapped' = overlapped /\ (~conflict' => ~conflict)
      BY <1>3, <2>3 DEF Compare, stock
    <3>2. \A v \in Worker : Inside(v)' => Inside(v) /\ sync'[v].stock = sync[v].stock
      BY <1>0, <2>3 DEF Compare, Outside
    <3>. QED
      BY <2>1, <3>1, <3>2 DEF NewsInv
  <2>4. ASSUME NEW w \in Worker, Push(w) PROVE NewsInv'
    <3>1. /\ hand' = hand /\ local' = local /\ conflict' = conflict
          /\ overlapped' = overlapped /\ Inside(w)
          /\ ~overlapped => remote # sync[w].stock
      BY <2>4 DEF Push, AloneInv, queue
    <3>2. \A v \in Worker : Inside(v)' => Inside(v) /\ sync'[v].stock = sync[v].stock
      BY <1>0, <2>4 DEF Push
    <3>3. ~overlapped /\ ~conflict => \/ remote' = local
                                     \/ \E m \in Job : Open(m)
      BY <3>1 DEF NewsInv
    <3>. QED
      BY <2>1, <3>1, <3>2, <3>3 DEF NewsInv
  <2>5. ASSUME NEW w \in Worker,
               Confirm(w) \/ LoseRun(w) \/ \E b \in BOOLEAN : FailSync(w, b)
        PROVE  NewsInv'
    <3>1. /\ remote' = remote /\ local' = local /\ overlapped' = overlapped
          /\ sync' = [sync EXCEPT ![w] = Outside] /\ (~conflict' => ~conflict)
      BY <2>5, ConflictStays DEF Confirm, LoseRun, FailSync, stock, StockTypeOK
    <3>2. \A v \in Worker : v # w => hand'[v] = hand[v] /\ sync'[v] = sync[v]
      BY <2>5, OneRun DEF SyncStep
    <3>3. sync'[w].at = "out"
      BY <1>0, <3>1 DEF Outside
    <3>. QED
      BY <2>1, <3>1, <3>2, <3>3 DEF NewsInv
  <2>6. CASE ~(\E w \in Worker :
                 \/ ReadStock(w) \/ Compare(w) \/ Push(w) \/ Confirm(w)
                 \/ LoseRun(w) \/ \E b \in BOOLEAN : FailSync(w, b))
    <3>1. /\ sync' = sync /\ remote' = remote /\ overlapped' = overlapped
          /\ conflict' = conflict
          /\ local' = local /\ \A w \in Worker : Inside(w) => hand'[w] = hand[w]
      BY <1>3, <2>6, OutsideSteps
    <3>. QED
      BY <2>1, <3>1 DEF NewsInv
  <2>. QED
    BY <2>2, <2>3, <2>4, <2>5, <2>6
<1>. QED
  BY <1>1, <1>2, <1>3

-----------------------------------------------------------------------------
(* StockInv is inductive: it holds at first, and every step of the         *)
(* movements, the outbox, the queue and the runs keeps it.                 *)
THEOREM StockInductive == StockSpec => []StockInv
<1>1. StockInit => StockInv
  <2>. SUFFICES ASSUME StockInit PROVE StockInv
    OBVIOUS
  <2>1. StockTypeOK
    <3>1. Outside \in [at : {"out", "ask", "push", "pushed", "differs"}, stock : 0 .. MaxStock]
      BY StockAssumption DEF Outside
    <3>. QED
      BY <3>1, StockAssumption DEF StockInit, StockTypeOK
  <2>2. \A w \in Worker : Copies(w) = {} /\ ~Inside(w)
    BY DEF StockInit, QueueInit, Copies, AtRest, Inside, Outside
  <2>3. RowsInv
    BY <2>2 DEF StockInit, QueueInit, RowsInv
  <2>4. AloneInv /\ NewsInv
    BY <2>2 DEF StockInit, AloneInv, NewsInv, Inside
  <2>. QED
    BY <2>1, <2>3, <2>4 DEF StockInv
<1>2. IInv /\ StockInv /\ [StockNext]_stockVars => StockInv'
  BY StockTypeStep, RowsStep, AloneStep, NewsStep DEF StockInv
<1>. QED
  BY <1>1, <1>2, StockQueueHolds, PTL DEF StockSpec

(* syncExternalListingStock, recordStockSyncIntent: a listing that shows   *)
(* the wrong stock is still to be told, or a movement was given up, or the *)
(* marketplace held another quantity, or two runs have overlapped in it.   *)
THEOREM DriftIsExplained == StockSpec => []DriftHasAReason
<1>1. IInv /\ StockInv => DriftHasAReason
  <2>. SUFFICES ASSUME IInv, StockInv, remote # local, ~overlapped, ~conflict
                PROVE  ToBeTold \/ GivenUp
    BY DEF DriftHasAReason
  <2>1. PICK m \in Job : Open(m)
    BY DEF StockInv, NewsInv
  <2>2. job[m] # None => job[m].status \in Status
    BY DEF IInv, TypeOK, Row
  <2>. QED
    BY <2>1, <2>2 DEF Open, ToBeTold, GivenUp, Is, Waiting, Status
<1>. QED
  BY <1>1, StockInductive, StockQueueHolds, PTL
=============================================================================
