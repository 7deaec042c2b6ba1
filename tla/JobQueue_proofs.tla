-------------------------- MODULE JobQueue_proofs --------------------------
(***************************************************************************)
(* Proofs about JobQueue for every set of jobs and runs and every number   *)
(* of claims, lost runs and orders.                                        *)
(***************************************************************************)
EXTENDS JobQueue, TLAPS

\* What a run works on is a copy it was handed.
LEMMA HandCopy ==
  ASSUME TypeOK, HandInv, NEW w \in Worker, hand[w].at # "next"
  PROVE  hand[w].copy \in Copy /\ hand[w].copy.job \in Job
BY DEF TypeOK, HandInv, Copy

\* A claim on a job is a claim on a row.
LEMMA OwnedRow ==
  ASSUME TypeOK, NEW c \in Copy, Owned(c)
  PROVE  /\ c.job \in Job /\ job[c.job] \in Row /\ job[c.job] # None
         /\ job[c.job].status = "processing" /\ job[c.job].token = c.token
BY NoneAssumption DEF TypeOK, Owned, Is, Copy

\* Every update of a row gives a row.
LEMMA RowUpdates ==
  /\ \A r \in Row, s \in Status : [r EXCEPT !.status = s, !.token = 0] \in Row
  /\ \A r \in Row, t \in Nat :
       [r EXCEPT !.status = "processing", !.token = t] \in Row
  /\ \A n \in Nat, b \in BOOLEAN :
       [status |-> AfterFailure(n, b), token |-> 0, attempts |-> n] \in Row
<1>1. \A r \in Row, s \in Status : [r EXCEPT !.status = s, !.token = 0] \in Row
  BY DEF Row
<1>2. \A r \in Row, t \in Nat :
        [r EXCEPT !.status = "processing", !.token = t] \in Row
  BY DEF Row, Status
<1>3. \A n \in Nat, b \in BOOLEAN : AfterFailure(n, b) \in Status
  BY QueueAssumption DEF AfterFailure, Status
<1>4. \A n \in Nat, b \in BOOLEAN :
        [status |-> AfterFailure(n, b), token |-> 0, attempts |-> n] \in Row
  BY <1>3 DEF Row
<1>. QED
  BY <1>1, <1>2, <1>4

\* The steps, one name each.
LEMMA Steps ==
  ASSUME [QueueNext]_queue
  PROVE  \/ UNCHANGED queue
         \/ \E j \in Job : Enqueue(j)
         \/ \E j \in Job, s \in {"pending", "cancelled"} : Order(j, s)
         \/ \E w \in Worker, S \in SUBSET Job : Claim(w, S)
         \/ \E w \in Worker : TakeUp(w)
         \/ \E w \in Worker : Complete(w)
         \/ \E w \in Worker : Leave(w)
         \/ \E w \in Worker, b \in BOOLEAN : Raise(w, b)
         \/ \E w \in Worker : FailRead(w)
         \/ \E w \in Worker : FailWrite(w)
         \/ \E w \in Worker : Abort(w)
BY DEF QueueNext, WorkerStep, RetryJob, CancelJob

-----------------------------------------------------------------------------
(* Every step keeps the columns and the runs' memory in their domains.     *)
LEMMA TypeStep ==
  ASSUME TypeOK, HandInv, [QueueNext]_queue
  PROVE  TypeOK'
<1>1. CASE UNCHANGED queue
  BY <1>1 DEF queue, TypeOK
<1>2. ASSUME NEW j \in Job, Enqueue(j) PROVE TypeOK'
  BY <1>2 DEF Enqueue, TypeOK, Row, Status
<1>3. ASSUME NEW j \in Job, NEW s \in {"pending", "cancelled"}, Order(j, s)
      PROVE  TypeOK'
  <2>1. Released(j, s) \in Row
    BY <1>3, RowUpdates DEF Order, Released, TypeOK, Status
  <2>. QED
    BY <1>3, <2>1 DEF Order, TypeOK
<1>4. ASSUME NEW w \in Worker, NEW S \in SUBSET Job, Claim(w, S)
      PROVE  TypeOK'
  <2>1. claims + 1 \in Nat
    BY DEF TypeOK
  <2>2. \A j \in S : Taken(j) \in Row
    <3>1. \A j \in S : job[j] \in Row
      BY <1>4 DEF Claim, Claimable, Is, TypeOK
    <3>. QED
      BY <3>1, <2>1, RowUpdates DEF Taken
  <2>3. job' \in [Job -> Row \union {None}]
    BY <1>4, <2>2 DEF Claim, TypeOK
  <2>4. Handed(S) \in SUBSET Copy
    BY <2>1 DEF Handed, Copy
  <2>5. batch' \in [Worker -> SUBSET Copy]
    BY <1>4, <2>4 DEF Claim, TypeOK
  <2>. QED
    BY <1>4, <2>1, <2>3, <2>5 DEF Claim, TypeOK
<1>5. ASSUME NEW w \in Worker, TakeUp(w) PROVE TypeOK'
  <2>1. PICK c \in batch[w] :
          /\ batch' = [batch EXCEPT ![w] = @ \ {c}]
          /\ hand' = IF Owned(c)
                     THEN [hand EXCEPT ![w].at = "work", ![w].copy = c]
                     ELSE hand
    BY <1>5 DEF TakeUp
  <2>2. c \in Copy
    BY DEF TypeOK
  <2>3. batch' \in [Worker -> SUBSET Copy]
    BY <2>1 DEF TypeOK
  <2>4. hand' \in [Worker -> [at : Place, copy : Copy \union {None},
                              count : Nat, retryable : BOOLEAN]]
    BY <2>1, <2>2 DEF TypeOK, Place
  <2>. QED
    BY <1>5, <2>3, <2>4 DEF TakeUp, TypeOK
<1>6. ASSUME NEW w \in Worker, Complete(w) PROVE TypeOK'
  <2>1. job' \in [Job -> Row \union {None}]
    <3>1. hand[w].copy \in Copy
      BY <1>6, HandCopy DEF Complete
    <3>2. ASSUME Owned(hand[w].copy)
          PROVE  Released(hand[w].copy.job, "succeeded") \in Row
      BY <3>1, <3>2, OwnedRow, RowUpdates DEF Released, Status
    <3>3. job' = job
          \/ /\ Owned(hand[w].copy)
             /\ job' = [job EXCEPT ![hand[w].copy.job] =
                              Released(hand[w].copy.job, "succeeded")]
      BY <1>6 DEF Complete
    <3>. QED
      BY <3>2, <3>3 DEF TypeOK
  <2>. QED
    BY <1>6, <2>1 DEF Complete, TypeOK, AtRest, Place
<1>7. ASSUME NEW w \in Worker, Leave(w) PROVE TypeOK'
  BY <1>7 DEF Leave, TypeOK, AtRest, Place
<1>8. ASSUME NEW w \in Worker, NEW b \in BOOLEAN, Raise(w, b) PROVE TypeOK'
  BY <1>8 DEF Raise, TypeOK, Place
<1>9. ASSUME NEW w \in Worker, FailRead(w) PROVE TypeOK'
  <2>1. hand[w].copy \in Copy
    BY <1>9, HandCopy DEF FailRead
  <2>2. Owned(hand[w].copy) => job[hand[w].copy.job].attempts \in Nat
    BY <2>1, OwnedRow DEF Row
  <2>. QED
    BY <1>9, <2>2 DEF FailRead, TypeOK, AtRest, Place
<1>10. ASSUME NEW w \in Worker, FailWrite(w) PROVE TypeOK'
  <2>1. hand[w].count + 1 \in Nat /\ hand[w].retryable \in BOOLEAN
    BY DEF TypeOK
  <2>2. [status |-> AfterFailure(hand[w].count + 1, hand[w].retryable),
         token |-> 0, attempts |-> hand[w].count + 1] \in Row
    BY <2>1, RowUpdates
  <2>3. job' \in [Job -> Row \union {None}]
    BY <1>10, <2>2 DEF FailWrite, TypeOK
  <2>. QED
    BY <1>10, <2>3 DEF FailWrite, TypeOK, AtRest, Place
<1>11. ASSUME NEW w \in Worker, Abort(w) PROVE TypeOK'
  <2>1. Copies(w) \subseteq Copy
    BY HandCopy DEF Copies, TypeOK
  <2>. QED
    BY <1>11, <2>1 DEF Abort, TypeOK, AtRest, Place
<1>. QED
  BY <1>1, <1>2, <1>3, <1>4, <1>5, <1>6, <1>7, <1>8, <1>9, <1>10, <1>11, Steps

(* What a run holds is consistent, and every token has been given out.     *)
LEMMA HandStep ==
  ASSUME TypeOK, TokenInv, HandInv, [QueueNext]_queue
  PROVE  HandInv'
<1>1. CASE UNCHANGED queue
  BY <1>1 DEF queue, HandInv
<1>2. ASSUME NEW j \in Job, Enqueue(j) PROVE HandInv'
  BY <1>2 DEF Enqueue, HandInv
<1>3. ASSUME NEW j \in Job, NEW s \in {"pending", "cancelled"}, Order(j, s)
      PROVE  HandInv'
  BY <1>3 DEF Order, HandInv
<1>4. ASSUME NEW w \in Worker, NEW S \in SUBSET Job, Claim(w, S)
      PROVE  HandInv'
  <2>. SUFFICES ASSUME NEW v \in Worker
                PROVE  /\ hand[v].at = "next" <=> hand[v].copy = None
                       /\ hand[v].at # "next" =>
                            /\ hand[v].copy.token \in 1 .. claims + 1
                            /\ hand[v].copy \notin batch'[v]
    BY <1>4 DEF Claim, HandInv
  <2>1. hand[v].at # "next" => v # w
    BY <1>4 DEF Claim, Busy
  <2>2. v # w => batch'[v] = batch[v]
    BY <1>4 DEF Claim, TypeOK
  <2>3. hand[v].at # "next" => hand[v].copy.token \in 1 .. claims + 1
    BY DEF HandInv, TypeOK
  <2>. QED
    BY <2>1, <2>2, <2>3 DEF HandInv
<1>5. ASSUME NEW w \in Worker, TakeUp(w) PROVE HandInv'
  <2>1. PICK c \in batch[w] :
          /\ batch' = [batch EXCEPT ![w] = @ \ {c}]
          /\ hand' = IF Owned(c)
                     THEN [hand EXCEPT ![w].at = "work", ![w].copy = c]
                     ELSE hand
    BY <1>5 DEF TakeUp
  <2>2. c \in Copy /\ c # None /\ c.token \in 1 .. claims
    BY NoneAssumption DEF TypeOK, TokenInv
  <2>3. claims' = claims
    BY <1>5 DEF TakeUp
  <2>. QED
    BY <2>1, <2>2, <2>3 DEF HandInv, TypeOK
<1>6. ASSUME NEW w \in Worker, Complete(w) PROVE HandInv'
  BY <1>6 DEF Complete, HandInv, AtRest, TypeOK
<1>7. ASSUME NEW w \in Worker, Leave(w) PROVE HandInv'
  BY <1>7 DEF Leave, HandInv, AtRest, TypeOK
<1>8. ASSUME NEW w \in Worker, NEW b \in BOOLEAN, Raise(w, b) PROVE HandInv'
  BY <1>8 DEF Raise, HandInv, TypeOK
<1>9. ASSUME NEW w \in Worker, FailRead(w) PROVE HandInv'
  BY <1>9 DEF FailRead, HandInv, AtRest, TypeOK
<1>10. ASSUME NEW w \in Worker, FailWrite(w) PROVE HandInv'
  BY <1>10 DEF FailWrite, HandInv, AtRest, TypeOK
<1>11. ASSUME NEW w \in Worker, Abort(w) PROVE HandInv'
  BY <1>11 DEF Abort, HandInv, AtRest, TypeOK
<1>. QED
  BY <1>1, <1>2, <1>3, <1>4, <1>5, <1>6, <1>7, <1>8, <1>9, <1>10, <1>11, Steps

-----------------------------------------------------------------------------
(* Tokens stay fresh, and a row has one exactly while it is processed.     *)
LEMMA TokenStep ==
  ASSUME TypeOK, TokenInv, HandInv, [QueueNext]_queue
  PROVE  TokenInv'
<1>0. \A v \in Worker : \A c \in Copies(v) : c.token \in 1 .. claims
  BY DEF TokenInv, HandInv, Copies
<1>1. CASE UNCHANGED queue
  BY <1>1 DEF queue, TokenInv
<1>2. ASSUME NEW j \in Job, Enqueue(j) PROVE TokenInv'
  BY <1>2 DEF Enqueue, TokenInv, TypeOK
<1>3. ASSUME NEW j \in Job, NEW s \in {"pending", "cancelled"}, Order(j, s)
      PROVE  TokenInv'
  <2>1. job[j] \in Row
    BY <1>3 DEF Order, TypeOK
  <2>2. /\ Released(j, s).token = 0
        /\ Released(j, s).status = s
    BY <2>1 DEF Released, Row
  <2>3. claims \in Nat
    BY DEF TypeOK
  <2>. QED
    BY <1>3, <2>2, <2>3 DEF Order, TokenInv, TypeOK
<1>4. ASSUME NEW w \in Worker, NEW S \in SUBSET Job, Claim(w, S)
      PROVE  TokenInv'
  <2>1. claims \in Nat /\ claims' = claims + 1
    BY <1>4 DEF Claim, TypeOK
  <2>2. \A j \in S : Taken(j).status = "processing" /\ Taken(j).token = claims + 1
    <3>1. \A j \in S : job[j] \in Row
      BY <1>4 DEF Claim, Claimable, Is, TypeOK
    <3>. QED
      BY <3>1 DEF Taken, Row
  <2>3. ASSUME NEW j \in Job, job'[j] # None
        PROVE  /\ job'[j].token <= claims'
               /\ job'[j].status = "processing" <=> job'[j].token # 0
    <3>1. CASE j \in S
      <4>1. job'[j] = Taken(j)
        BY <1>4, <3>1 DEF Claim
      <4>. QED
        BY <4>1, <3>1, <2>1, <2>2
    <3>2. CASE j \notin S
      <4>1. job'[j] = job[j]
        BY <1>4, <3>2 DEF Claim
      <4>2. job[j] \in Row
        BY <4>1, <2>3 DEF TypeOK
      <4>. QED
        BY <4>1, <4>2, <2>1, <2>3 DEF TokenInv, Row
    <3>. QED
      BY <3>1, <3>2
  <2>4. \A v \in Worker : \A c \in batch'[v] : c.token \in 1 .. claims + 1
    <3>1. \A c \in Handed(S) : c.token = claims + 1
      BY DEF Handed
    <3>2. \A v \in Worker : batch'[v] = batch[v] \/ batch'[v] = Handed(S)
      BY <1>4 DEF Claim, TypeOK
    <3>. QED
      BY <3>1, <3>2, <2>1 DEF TokenInv
  <2>5. \A c \in lost' : c.token \in 1 .. claims + 1
    BY <1>4, <2>1 DEF Claim, TokenInv
  <2>. QED
    BY <2>1, <2>3, <2>4, <2>5 DEF TokenInv
<1>5. ASSUME NEW w \in Worker, TakeUp(w) PROVE TokenInv'
  BY <1>5 DEF TakeUp, TokenInv, TypeOK
<1>6. ASSUME NEW w \in Worker, Complete(w) PROVE TokenInv'
  <2>1. hand[w].copy \in Copy
    BY <1>6, HandCopy DEF Complete
  <2>2. Owned(hand[w].copy) =>
          /\ Released(hand[w].copy.job, "succeeded").token = 0
          /\ Released(hand[w].copy.job, "succeeded").status = "succeeded"
    BY <2>1, OwnedRow DEF Released, Row
  <2>3. job' = job
        \/ /\ Owned(hand[w].copy)
           /\ job' = [job EXCEPT ![hand[w].copy.job] =
                            Released(hand[w].copy.job, "succeeded")]
    BY <1>6 DEF Complete
  <2>4. claims \in Nat /\ claims' = claims /\ batch' = batch /\ lost' = lost
    BY <1>6 DEF Complete, TypeOK
  <2>. QED
    BY <2>2, <2>3, <2>4 DEF TokenInv, TypeOK
<1>7. ASSUME NEW w \in Worker, Leave(w) PROVE TokenInv'
  BY <1>7 DEF Leave, TokenInv
<1>8. ASSUME NEW w \in Worker, NEW b \in BOOLEAN, Raise(w, b) PROVE TokenInv'
  BY <1>8 DEF Raise, TokenInv
<1>9. ASSUME NEW w \in Worker, FailRead(w) PROVE TokenInv'
  BY <1>9 DEF FailRead, TokenInv
<1>10. ASSUME NEW w \in Worker, FailWrite(w) PROVE TokenInv'
  <2>1. \A n, b : AfterFailure(n, b) # "processing"
    BY DEF AfterFailure
  <2>2. claims \in Nat /\ claims' = claims /\ batch' = batch /\ lost' = lost
    BY <1>10 DEF FailWrite, TypeOK
  <2>. QED
    BY <1>10, <2>1, <2>2 DEF FailWrite, TokenInv, TypeOK
<1>11. ASSUME NEW w \in Worker, Abort(w) PROVE TokenInv'
  <2>1. \A v \in Worker : \A c \in batch'[v] : c \in batch[v]
    BY <1>11 DEF Abort, TypeOK
  <2>2. \A c \in lost' : c.token \in 1 .. claims
    BY <1>11, <1>0 DEF Abort, TokenInv
  <2>. QED
    BY <1>11, <2>1, <2>2 DEF Abort, TokenInv
<1>. QED
  BY <1>1, <1>2, <1>3, <1>4, <1>5, <1>6, <1>7, <1>8, <1>9, <1>10, <1>11, Steps

(* A retry waits with attempts left and a dead letter has none.            *)
LEMMA BudgetStep ==
  ASSUME TypeOK, HandInv, BudgetDecides, [QueueNext]_queue
  PROVE  BudgetDecides'
<1>1. \/ \A j \in Job : job'[j] = job[j]
      \/ \E i \in Job :
           /\ \A j \in Job : j # i => job'[j] = job[j]
           /\ \/ job'[i].status \in {"pending", "cancelled", "succeeded"}
              \/ \E n \in Nat, b \in BOOLEAN :
                   /\ job'[i].status = AfterFailure(n, b)
                   /\ job'[i].attempts = n
      \/ \A j \in Job : job'[j] = job[j] \/ job'[j].status = "processing"
  <2>1. CASE UNCHANGED queue
    BY <2>1 DEF queue
  <2>2. ASSUME NEW j \in Job, Enqueue(j) PROVE <1>1!2
    BY <2>2 DEF Enqueue, TypeOK
  <2>3. ASSUME NEW j \in Job, NEW s \in {"pending", "cancelled"}, Order(j, s)
        PROVE  <1>1!2
    <3>1. job[j] \in Row
      BY <2>3 DEF Order, TypeOK
    <3>2. Released(j, s).status = s
      BY <3>1 DEF Released, Row
    <3>. QED
      BY <2>3, <3>2 DEF Order, TypeOK
  <2>4. ASSUME NEW w \in Worker, NEW S \in SUBSET Job, Claim(w, S)
        PROVE  <1>1!3
    <3>1. \A j \in S : Taken(j).status = "processing"
      BY <2>4 DEF Claim, Claimable, Is, TypeOK, Taken, Row
    <3>. QED
      BY <2>4, <3>1 DEF Claim
  <2>5. ASSUME NEW w \in Worker, TakeUp(w) \/ Leave(w) \/ FailRead(w) \/ Abort(w)
               \/ \E b \in BOOLEAN : Raise(w, b)
        PROVE  <1>1!1
    BY <2>5 DEF TakeUp, Leave, FailRead, Abort, Raise
  <2>6. ASSUME NEW w \in Worker, Complete(w) PROVE <1>1!1 \/ <1>1!2
    <3>1. hand[w].copy \in Copy /\ hand[w].copy.job \in Job
      BY <2>6, HandCopy DEF Complete
    <3>2. Owned(hand[w].copy) =>
            Released(hand[w].copy.job, "succeeded").status = "succeeded"
      BY <3>1, OwnedRow DEF Released, Row
    <3>. QED
      BY <2>6, <3>1, <3>2 DEF Complete, TypeOK
  <2>7. ASSUME NEW w \in Worker, FailWrite(w) PROVE <1>1!1 \/ <1>1!2
    <3>1. hand[w].copy \in Copy /\ hand[w].copy.job \in Job
      BY <2>7, HandCopy DEF FailWrite
    <3>2. hand[w].count + 1 \in Nat /\ hand[w].retryable \in BOOLEAN
      BY DEF TypeOK
    <3>. QED
      BY <2>7, <3>1, <3>2 DEF FailWrite, TypeOK
  <2>. QED
    BY <2>1, <2>2, <2>3, <2>4, <2>5, <2>6, <2>7, Steps
<1>2. \A n \in Nat, b \in BOOLEAN :
        /\ AfterFailure(n, b) = "retry_pending" => n < MaxAttempts
        /\ AfterFailure(n, b) = "dead_letter" => n >= MaxAttempts
  BY QueueAssumption DEF AfterFailure
<1>. QED
  BY <1>1, <1>2 DEF BudgetDecides, Is

-----------------------------------------------------------------------------
\* What a run holds, spelled out.
LEMMA CopiesOf ==
  ASSUME TypeOK, HandInv, NEW w \in Worker, NEW c
  PROVE  /\ c \in Copies(w) <=>
              c \in batch[w] \/ (hand[w].at # "next" /\ c = hand[w].copy)
         /\ c \in Copies(w) => c \in Copy
BY HandCopy DEF Copies, TypeOK

\* Between two claims: nobody gains a copy, a job processed afterwards has
\* not moved, and a copy is put away only when it is worthless or lost.
Quiet ==
  /\ claims' = claims
  /\ \A v \in Worker : Copies(v)' \subseteq Copies(v)
  /\ \A v \in Worker : batch'[v] \subseteq batch[v]
  /\ \A j \in Job : Is(j, {"processing"})' => job'[j] = job[j]
  /\ \A v \in Worker : \A c \in Copies(v) :
       Owned(c)' => c \in Copies(v)' \/ c \in lost'
  /\ lost \subseteq lost'

\* The steps that touch only the hand of one run and perhaps the row it has.
LEMMA PutAway ==
  ASSUME TypeOK, HandInv, NEW w \in Worker,
         NEW c \in Copy, c = hand[w].copy, hand[w].at # "next",
         hand' = [hand EXCEPT ![w] = AtRest],
         batch' = batch, claims' = claims, lost' = lost,
         \A j \in Job : Is(j, {"processing"})' => job'[j] = job[j],
         ~Owned(c)'
  PROVE  Quiet
<1>1. \A v \in Worker : v # w => Copies(v)' = Copies(v)
  BY DEF Copies, TypeOK
<1>2. Copies(w)' = batch[w] /\ Copies(w) = batch[w] \union {c}
  BY DEF Copies, TypeOK, AtRest
<1>. QED
  BY <1>1, <1>2 DEF Quiet

\* Every step but a claim is quiet.
LEMMA QuietStep ==
  ASSUME TypeOK, TokenInv, HandInv, [QueueNext]_queue,
         ~(\E w \in Worker, S \in SUBSET Job : Claim(w, S))
  PROVE  Quiet
<1>1. CASE UNCHANGED queue
  BY <1>1 DEF queue, Quiet, Copies, Is
<1>2. ASSUME NEW j \in Job, Enqueue(j) PROVE Quiet
  <2>1. \A v \in Worker : Copies(v)' = Copies(v)
    BY <1>2 DEF Enqueue, Copies
  <2>2. \A i \in Job : Is(i, {"processing"})' => job'[i] = job[i]
    BY <1>2 DEF Enqueue, Is, TypeOK
  <2>. QED
    BY <1>2, <2>1, <2>2 DEF Enqueue, Quiet
<1>3. ASSUME NEW j \in Job, NEW s \in {"pending", "cancelled"}, Order(j, s)
      PROVE  Quiet
  <2>1. \A v \in Worker : Copies(v)' = Copies(v)
    BY <1>3 DEF Order, Copies
  <2>2. \A i \in Job : Is(i, {"processing"})' => job'[i] = job[i]
    <3>1. Released(j, s).status = s
      BY <1>3 DEF Order, TypeOK, Released, Row
    <3>. QED
      BY <1>3, <3>1 DEF Order, Is, TypeOK
  <2>. QED
    BY <1>3, <2>1, <2>2 DEF Order, Quiet
<1>5. ASSUME NEW w \in Worker, TakeUp(w) PROVE Quiet
  <2>1. PICK c \in batch[w] :
          /\ batch' = [batch EXCEPT ![w] = @ \ {c}]
          /\ hand' = IF Owned(c)
                     THEN [hand EXCEPT ![w].at = "work", ![w].copy = c]
                     ELSE hand
    BY <1>5 DEF TakeUp
  <2>2. job' = job /\ claims' = claims /\ lost' = lost /\ hand[w].at = "next"
    BY <1>5 DEF TakeUp
  <2>3. \A v \in Worker : v # w => Copies(v)' = Copies(v)
    BY <2>1 DEF Copies, TypeOK
  <2>4. /\ Copies(w) = batch[w] /\ batch'[w] = batch[w] \ {c}
        /\ \A v \in Worker : batch'[v] \subseteq batch[v]
    BY <2>1, <2>2 DEF Copies, TypeOK
  <2>5. CASE Owned(c)
    <3>1. Copies(w)' = Copies(w)
      <4>1. hand'[w].at = "work" /\ hand'[w].copy = c
        BY <2>1, <2>5 DEF TypeOK
      <4>. QED
        BY <4>1, <2>4 DEF Copies
    <3>. QED
      BY <2>2, <2>3, <2>4, <3>1 DEF Quiet, Is
  <2>6. CASE ~Owned(c)
    <3>1. ~Owned(c)'
      BY <2>2, <2>6 DEF Owned, Is
    <3>2. Copies(w)' = batch[w] \ {c}
      BY <2>1, <2>2, <2>4, <2>6 DEF Copies
    <3>. QED
      BY <2>2, <2>3, <2>4, <3>1, <3>2 DEF Quiet, Is
  <2>. QED
    BY <2>5, <2>6
<1>6. ASSUME NEW w \in Worker, Complete(w) PROVE Quiet
  <2>1. PICK c \in Copy : c = hand[w].copy /\ c.job \in Job
    BY <1>6, HandCopy DEF Complete
  <2>2. Owned(c) => Released(c.job, "succeeded").status = "succeeded"
    BY <2>1, OwnedRow DEF Released, Row
  <2>3. /\ ~Owned(c)'
        /\ \A j \in Job : Is(j, {"processing"})' => job'[j] = job[j]
    BY <1>6, <2>1, <2>2 DEF Complete, Owned, Is, TypeOK
  <2>. QED
    BY <1>6, <2>1, <2>3, PutAway DEF Complete
<1>7. ASSUME NEW w \in Worker, Leave(w) PROVE Quiet
  <2>1. PICK c \in Copy : c = hand[w].copy
    BY <1>7, HandCopy DEF Leave
  <2>2. ~Owned(c)'
    BY <1>7, <2>1 DEF Leave, Owned, Is
  <2>. QED
    BY <1>7, <2>1, <2>2, PutAway DEF Leave, Is
<1>8. ASSUME NEW w \in Worker, NEW b \in BOOLEAN, Raise(w, b) PROVE Quiet
  <2>1. \A v \in Worker : Copies(v)' = Copies(v)
    BY <1>8 DEF Raise, Copies, TypeOK
  <2>. QED
    BY <1>8, <2>1 DEF Raise, Quiet
<1>9. ASSUME NEW w \in Worker, FailRead(w) PROVE Quiet
  <2>1. CASE Owned(hand[w].copy)
    <3>1. \A v \in Worker : Copies(v)' = Copies(v)
      BY <1>9, <2>1 DEF FailRead, Copies, TypeOK
    <3>. QED
      BY <1>9, <3>1 DEF FailRead, Quiet
  <2>2. CASE ~Owned(hand[w].copy)
    <3>1. PICK c \in Copy : c = hand[w].copy
      BY <1>9, HandCopy DEF FailRead
    <3>2. ~Owned(c)'
      BY <1>9, <2>2, <3>1 DEF FailRead, Owned, Is
    <3>. QED
      BY <1>9, <2>2, <3>1, <3>2, PutAway DEF FailRead, Is
  <2>. QED
    BY <2>1, <2>2
<1>10. ASSUME NEW w \in Worker, FailWrite(w) PROVE Quiet
  <2>1. PICK c \in Copy : c = hand[w].copy /\ c.job \in Job
    BY <1>10, HandCopy DEF FailWrite
  <2>2. \A n, b : AfterFailure(n, b) # "processing"
    BY DEF AfterFailure
  <2>3. /\ ~Owned(c)'
        /\ \A j \in Job : Is(j, {"processing"})' => job'[j] = job[j]
    BY <1>10, <2>1, <2>2 DEF FailWrite, Writable, Owned, Is, TypeOK
  <2>. QED
    BY <1>10, <2>1, <2>3, PutAway DEF FailWrite
<1>11. ASSUME NEW w \in Worker, Abort(w) PROVE Quiet
  <2>1. \A v \in Worker : v # w => Copies(v)' = Copies(v)
    BY <1>11 DEF Abort, Copies, TypeOK
  <2>2. Copies(w)' = {}
    BY <1>11 DEF Abort, Copies, TypeOK, AtRest
  <2>. QED
    BY <1>11, <2>1, <2>2 DEF Abort, Quiet, TypeOK
<1>. QED
  BY <1>1, <1>2, <1>3, <1>5, <1>6, <1>7, <1>8, <1>9, <1>10, <1>11, Steps

\* A claim hands out fresh copies to a run that had none.
LEMMA ClaimStep ==
  ASSUME TypeOK, TokenInv, HandInv,
         NEW w \in Worker, NEW S \in SUBSET Job, Claim(w, S)
  PROVE  /\ Copies(w) = {} /\ Copies(w)' = Handed(S)
         /\ \A v \in Worker : v # w => Copies(v)' = Copies(v)
         /\ \A v \in Worker : Handed(S) \intersect Copies(v) = {}
         /\ \A j \in S : /\ job'[j] # None
                         /\ job'[j].status = "processing"
                         /\ job'[j].token = claims + 1
         /\ \A j \in Job \ S : job'[j] = job[j]
<1>1. hand[w].at = "next" /\ batch[w] = {} /\ hand' = hand
  BY DEF Claim, Busy
<1>2. batch'[w] = Handed(S) /\ \A v \in Worker : v # w => batch'[v] = batch[v]
  BY DEF Claim, TypeOK
<1>3. Copies(w) = {} /\ Copies(w)' = Handed(S)
  BY <1>1, <1>2 DEF Copies
<1>4. \A v \in Worker : v # w => Copies(v)' = Copies(v)
  BY <1>1, <1>2 DEF Copies
<1>5. \A v \in Worker : Handed(S) \intersect Copies(v) = {}
  <2>1. \A v \in Worker : \A c \in Copies(v) : c.token \in 1 .. claims
    BY DEF TokenInv, HandInv, Copies
  <2>2. \A c \in Handed(S) : c.token = claims + 1
    BY DEF Handed
  <2>. QED
    BY <2>1, <2>2 DEF TypeOK
<1>6. \A j \in S : job[j] \in Row
  BY DEF Claim, Claimable, Is, TypeOK
<1>7. \A j \in S : Taken(j).status = "processing" /\ Taken(j).token = claims + 1
  BY <1>6 DEF Taken, Row
<1>8. claims + 1 \in Nat
  BY DEF TypeOK
<1>9. \A j \in S : Taken(j) \in Row
  BY <1>6, <1>8, RowUpdates DEF Taken
<1>10. \A j \in Job : job'[j] = IF j \in S THEN Taken(j) ELSE job[j]
  BY DEF Claim
<1>. QED
  BY <1>3, <1>4, <1>5, <1>7, <1>9, <1>10, NoneAssumption

(* No copy is ever in two hands.                                           *)
LEMMA ApartStep ==
  ASSUME TypeOK, TokenInv, HandInv, ApartInv, [QueueNext]_queue
  PROVE  ApartInv'
<1>1. ASSUME NEW w \in Worker, NEW S \in SUBSET Job, Claim(w, S)
      PROVE  ApartInv'
  BY <1>1, ClaimStep DEF ApartInv
<1>2. CASE ~(\E w \in Worker, S \in SUBSET Job : Claim(w, S))
  BY <1>2, QuietStep DEF ApartInv, Quiet
<1>. QED
  BY <1>1, <1>2

(* A job in "processing" keeps its run, or is lost with it.                *)
LEMMA ProcessingStep ==
  ASSUME TypeOK, TokenInv, HandInv, ProcessingIsHeld, [QueueNext]_queue
  PROVE  ProcessingIsHeld'
<1>. SUFFICES ASSUME NEW j \in Job, Is(j, {"processing"})'
              PROVE  \/ \E w \in Worker : \E c \in Copies(w)' :
                          c.job = j /\ Owned(c)'
                     \/ \E c \in lost' : c.job = j /\ Owned(c)'
  BY DEF ProcessingIsHeld, Holds
<1>1. \/ \E w \in Worker, S \in SUBSET Job : Claim(w, S) /\ j \in S
      \/ job'[j] = job[j]
  BY ClaimStep, QuietStep DEF Quiet
<1>2. ASSUME NEW w \in Worker, NEW S \in SUBSET Job, Claim(w, S), j \in S
      PROVE  \E c \in Copies(w)' : c.job = j /\ Owned(c)'
  <2>. DEFINE c == [job |-> j, token |-> claims + 1]
  <2>1. c \in Copies(w)'
    BY <1>2, ClaimStep DEF Handed
  <2>2. job'[j].token = claims + 1
    BY <1>2, ClaimStep
  <2>. QED
    BY <2>1, <2>2 DEF Owned, Is
<1>3. CASE job'[j] = job[j]
  <2>1. Is(j, {"processing"})
    BY <1>3 DEF Is
  <2>2. \A c : c.job = j => (Owned(c)' <=> Owned(c))
    BY <1>3 DEF Owned, Is
  <2>3. PICK c : /\ c.job = j /\ Owned(c)
                 /\ (\E w \in Worker : c \in Copies(w)) \/ c \in lost
    BY <2>1 DEF ProcessingIsHeld, Holds
  <2>4. (\E w \in Worker : c \in Copies(w)') \/ c \in lost'
    <3>1. ASSUME NEW w \in Worker, NEW S \in SUBSET Job, Claim(w, S)
          PROVE  <2>4
      BY <3>1, <2>3, ClaimStep DEF Claim
    <3>2. CASE ~(\E w \in Worker, S \in SUBSET Job : Claim(w, S))
      BY <3>2, <2>2, <2>3, QuietStep DEF Quiet
    <3>. QED
      BY <3>1, <3>2
  <2>. QED
    BY <2>2, <2>3, <2>4
<1>. QED
  BY <1>1, <1>2, <1>3

-----------------------------------------------------------------------------
(* A row is moved by the run that has the claim, or by an administrator.   *)
LEMMA SettleStep ==
  ASSUME TypeOK, HandInv, [QueueNext]_queue
  PROVE  HolderSettles
<1>1. CASE UNCHANGED queue
  BY <1>1 DEF queue, HolderSettles
<1>2. ASSUME NEW j \in Job, Enqueue(j) PROVE HolderSettles
  BY <1>2 DEF Enqueue, HolderSettles, Is, TypeOK
<1>3. ASSUME NEW j \in Job, NEW s \in {"pending", "cancelled"}, Order(j, s)
      PROVE  HolderSettles
  BY <1>3 DEF Order, HolderSettles, TypeOK
<1>4. ASSUME NEW w \in Worker, NEW S \in SUBSET Job, Claim(w, S)
      PROVE  HolderSettles
  <2>1. \A j \in S : job[j].status \in Waiting
    BY <1>4 DEF Claim, Claimable, Is
  <2>2. \A j \in Job \ S : job'[j] = job[j]
    BY <1>4 DEF Claim
  <2>. QED
    BY <2>1, <2>2 DEF HolderSettles, Is, Waiting, Settled
<1>5. ASSUME NEW w \in Worker, TakeUp(w) \/ Leave(w) \/ FailRead(w) \/ Abort(w)
             \/ \E b \in BOOLEAN : Raise(w, b)
      PROVE  HolderSettles
  BY <1>5 DEF TakeUp, Leave, FailRead, Abort, Raise, HolderSettles
<1>6. ASSUME NEW w \in Worker, Complete(w) \/ FailWrite(w) PROVE HolderSettles
  <2>1. PICK c \in Copy : c = hand[w].copy /\ c.job \in Job
    BY <1>6, HandCopy DEF Complete, FailWrite
  <2>2. hand[w].at # "next" /\ hand'[w] = AtRest
    BY <1>6 DEF Complete, FailWrite, TypeOK
  <2>3. \A j \in Job : job'[j] # job[j] => j = c.job /\ Owned(c)
    BY <1>6, <2>1 DEF Complete, FailWrite, Writable, TypeOK
  <2>4. Owned(c) => job[c.job].status = "processing"
    BY <2>1, OwnedRow
  <2>. QED
    BY <2>1, <2>2, <2>3, <2>4 DEF HolderSettles, Is, Settled
<1>. QED
  BY <1>1, <1>2, <1>3, <1>4, <1>5, <1>6, Steps

(* Without an administrator no claim is ever taken from a run.             *)
LEMMA UndisturbedStep ==
  ASSUME TypeOK, TokenInv, HandInv, ApartInv, UndisturbedInv, [QueueNext]_queue
  PROVE  UndisturbedInv'
<1>. SUFFICES ASSUME orders' = 0, NEW v \in Worker, NEW d \in Copies(v)'
              PROVE  Owned(d)'
  BY DEF UndisturbedInv
<1>1. orders = 0 /\ orders' = orders
  <2>1. orders' = orders \/ orders' = orders + 1
    BY Steps DEF queue, Enqueue, Order, Claim, TakeUp, Complete, Leave, Raise,
                 FailRead, FailWrite, Abort
  <2>. QED
    BY <2>1 DEF TypeOK
<1>2. \A w \in Worker : \A c \in Copies(w) : Owned(c)
  BY <1>1 DEF UndisturbedInv
<1>3. ASSUME NEW w \in Worker, NEW S \in SUBSET Job, Claim(w, S)
      PROVE  Owned(d)'
  <2>1. CASE v = w
    <3>1. PICK j \in S : d = [job |-> j, token |-> claims + 1]
      BY <1>3, <2>1, ClaimStep DEF Handed
    <3>. QED
      BY <1>3, <3>1, ClaimStep DEF Owned, Is
  <2>2. CASE v # w
    <3>1. d \in Copies(v) /\ d \in Copy /\ Owned(d)
      BY <1>2, <1>3, <2>2, ClaimStep, CopiesOf
    <3>2. d.job \in Job /\ job[d.job].status = "processing"
      BY <3>1, OwnedRow
    <3>3. d.job \notin S
      BY <1>3, <3>2 DEF Claim, Claimable, Is, Waiting
    <3>4. job'[d.job] = job[d.job]
      BY <1>3, <3>2, <3>3, ClaimStep
    <3>. QED
      BY <3>1, <3>4 DEF Owned, Is
  <2>. QED
    BY <2>1, <2>2
<1>4. CASE ~(\E w \in Worker, S \in SUBSET Job : Claim(w, S))
  <2>1. Quiet
    BY <1>4, QuietStep
  <2>2. d \in Copies(v) /\ d \in Copy /\ Owned(d)
    BY <1>2, <2>1, CopiesOf DEF Quiet
  <2>3. CASE job'[d.job] = job[d.job]
    BY <2>2, <2>3 DEF Owned, Is
  <2>4. CASE job'[d.job] # job[d.job]
    <3>1. d.job \in Job /\ Is(d.job, {"processing"})
      BY <2>2, OwnedRow DEF Owned
    <3>2. PICK w \in Worker :
            /\ hand[w].at # "next" /\ hand'[w] = AtRest
            /\ hand[w].copy.job = d.job /\ Owned(hand[w].copy)
      BY <1>1, <2>4, <3>1, SettleStep DEF HolderSettles
    <3>3. hand[w].copy = d
      <4>1. PICK c \in Copy : c = hand[w].copy
        BY <3>2, HandCopy
      <4>2. c.job = d.job /\ c.token = d.token
        BY <2>2, <3>2, <4>1 DEF Owned
      <4>3. c = d
        BY <2>2, <4>2 DEF Copy
      <4>. QED
        BY <4>1, <4>3
    <3>4. v = w
      BY <2>2, <3>2, <3>3 DEF ApartInv, Copies
    <3>5. d \notin batch'[w] /\ hand'[w].at = "next"
      BY <2>1, <3>2, <3>3 DEF HandInv, Quiet, AtRest
    <3>. QED
      BY <3>4, <3>5 DEF Copies
  <2>. QED
    BY <2>3, <2>4
<1>. QED
  BY <1>3, <1>4
-----------------------------------------------------------------------------
(* TypeOK and IInv hold of every run of the queue: tokens are fresh, what  *)
(* a run holds is its own, what is processed is held or lost, and the      *)
(* budget decides between retry and dead letter.                           *)
THEOREM Inductive == QueueSpec => []IInv
<1>1. QueueInit => IInv
  BY DEF QueueInit, IInv, TypeOK, TokenInv, HandInv, ApartInv, UndisturbedInv,
         ProcessingIsHeld, BudgetDecides, Copies, AtRest, Place, Is
<1>2. IInv /\ [QueueNext]_queue => IInv'
  BY TypeStep, TokenStep, HandStep, ApartStep, UndisturbedStep, ProcessingStep,
     BudgetStep DEF IInv
<1>. QED
  BY <1>1, <1>2, PTL DEF QueueSpec

(* The columns of background_jobs and the runs' memory stay in their       *)
(* domains.                                                                *)
THEOREM TypeCorrect == QueueSpec => []TypeOK
<1>1. IInv => TypeOK
  BY DEF IInv
<1>. QED
  BY <1>1, Inductive, PTL

(* claimJobs, ownedClaim: two runs never both have the claim on a job.     *)
THEOREM ClaimIsExclusive == QueueSpec => []OneHolder
<1>1. IInv => OneHolder
  <2>. SUFFICES ASSUME IInv, NEW j \in Job, NEW v \in Worker, NEW w \in Worker,
                       NEW c \in Copies(v), c.job = j, Owned(c),
                       NEW d \in Copies(w), d.job = j, Owned(d)
                PROVE  v = w
    BY DEF OneHolder, Holds
  <2>1. c \in Copy /\ d \in Copy
    BY CopiesOf DEF IInv
  <2>2. c = d
    BY <2>1 DEF Owned, Copy
  <2>. QED
    BY <2>2 DEF IInv, ApartInv
<1>. QED
  BY <1>1, Inductive, PTL

(* executeJob: without an administrator's intervention no two runs are     *)
(* ever inside one job.                                                    *)
THEOREM WorkIsExclusive == QueueSpec => []OverlapNeedsAnOrder
<1>1. IInv => OverlapNeedsAnOrder
  <2>. SUFFICES ASSUME IInv, NEW j \in Job, NEW v \in Worker, NEW w \in Worker,
                       Working(v, j), Working(w, j), v # w, orders = 0
                PROVE  FALSE
    BY DEF OverlapNeedsAnOrder, IInv, TypeOK
  <2>1. /\ hand[v].copy \in Copies(v) /\ hand[v].copy.job = j
        /\ hand[w].copy \in Copies(w) /\ hand[w].copy.job = j
    BY DEF Working, Copies
  <2>2. Owned(hand[v].copy) /\ Owned(hand[w].copy)
    BY <2>1 DEF IInv, UndisturbedInv
  <2>3. hand[v].copy \in Copy /\ hand[w].copy \in Copy
    BY <2>1, CopiesOf DEF IInv
  <2>4. hand[v].copy = hand[w].copy
    BY <2>1, <2>2, <2>3 DEF Owned, Copy
  <2>. QED
    BY <2>1, <2>4 DEF IInv, ApartInv
<1>. QED
  BY <1>1, Inductive, PTL

(* runDueJobs: what is in "processing" has its run, or was lost with it.   *)
THEOREM NothingIsForgotten == QueueSpec => []ProcessingIsHeld
<1>1. IInv => ProcessingIsHeld
  BY DEF IInv
<1>. QED
  BY <1>1, Inductive, PTL

(* failJob: a retry has attempts left, a dead letter has none.             *)
THEOREM BudgetIsKept == QueueSpec => []BudgetDecides
<1>1. IInv => BudgetDecides
  BY DEF IInv
<1>. QED
  BY <1>1, Inductive, PTL

(* ownedClaim: a late result moves no row; whatever the rows go through,   *)
(* only the run with the claim or an administrator settles a job.          *)
THEOREM LateResultsAreLost == QueueSpec => OnlyTheHolderSettles
<1>1. IInv /\ [QueueNext]_queue => [HolderSettles]_queue
  BY SettleStep DEF IInv
<1>. QED
  BY <1>1, Inductive, PTL DEF QueueSpec, OnlyTheHolderSettles
=============================================================================
