----------------------- MODULE InvoiceOutbox_proofs -----------------------
(***************************************************************************)
(* Proofs about InvoiceOutbox, for every number of runs, of retries and of *)
(* faults.  What the draft promises needs no assumption about time; what   *)
(* the lock promises holds until a run outlives the stale-lock threshold,  *)
(* and needs one administrator at a time.                                  *)
(***************************************************************************)
EXTENDS InvoiceOutbox, TLAPS

OneAdmin == \A a, b \in Admin : a = b

\* An inserted event is a row, and every update the dispatcher makes keeps it
\* one.
LEMMA RowFacts ==
  /\ Fresh \in Event
  /\ Fresh # NoRow
  /\ \A e \in Event : e # NoRow
  /\ \A e \in Event, s \in Status, l, t \in BOOLEAN :
       [e EXCEPT !.status = s, !.locked = l, !.stale = t] \in Event
  /\ \A e \in Event, s \in Status, l, t, u \in BOOLEAN :
       [e EXCEPT !.status = s, !.locked = l, !.stale = t, !.due = u] \in Event
  /\ \A e \in Event, s \in Status, l, t \in BOOLEAN :
       [e EXCEPT !.status = s, !.locked = l, !.stale = t,
                 !.attempts = e.attempts + 1] \in Event
<1>1. Fresh \in Event
  BY DEF Fresh, Event, Status
<1>2. \A e \in Event : e # NoRow
  BY NoRowAssumption
<1>3. \A e \in Event, s \in Status, l, t \in BOOLEAN :
        [e EXCEPT !.status = s, !.locked = l, !.stale = t] \in Event
  BY DEF Event
<1>4. \A e \in Event, s \in Status, l, t, u \in BOOLEAN :
        [e EXCEPT !.status = s, !.locked = l, !.stale = t, !.due = u] \in Event
  BY DEF Event
<1>5. \A e \in Event, s \in Status, l, t \in BOOLEAN :
        [e EXCEPT !.status = s, !.locked = l, !.stale = t,
                  !.attempts = e.attempts + 1] \in Event
  <2>. SUFFICES ASSUME NEW e \in Event, NEW s \in Status,
                       NEW l \in BOOLEAN, NEW t \in BOOLEAN
       PROVE  [e EXCEPT !.status = s, !.locked = l, !.stale = t,
                        !.attempts = @ + 1] \in Event
    OBVIOUS
  <2>1. e.attempts + 1 \in Nat
    BY DEF Event
  <2>. QED
    BY <2>1 DEF Event
<1>. QED
  BY <1>1, <1>2, <1>3, <1>4, <1>5

\* Every step keeps the columns in their domains.
LEMMA TypeStep ==
  ASSUME TypeOK, DraftInv, [Next]_vars
  PROVE  TypeOK'
<1>. USE BoundsAssumption, MaxAttemptsAssumption DEF TypeOK
<1>1. CASE Pay
  BY <1>1 DEF Pay, order, draft, bounds, Goto, Enqueued, Resting, Live,
     Fresh, Event, Attempt, Entry, Status,
      Result, Place
<1>2. CASE Unpay
  BY <1>2 DEF Unpay, order, draft, bounds, Goto, Enqueued, Resting, Live,
     Fresh, Event, Attempt, Entry, Status,
      Result, Place
<1>3. CASE ReleaseStaleLocks
  BY <1>3 DEF ReleaseStaleLocks, Released, order, draft, bounds, Goto,
     Enqueued, Resting, Live, Fresh, Event, Attempt, Entry, Status,
      Result, Place
<1>4. CASE LockAges
  <2>1. row' \in Event
    BY <1>4 DEF LockAges, Event
  <2>2. slow' \in 0..MaxSlow
    BY <1>4 DEF LockAges
  <2>. QED
    BY <1>4, <2>1, <2>2 DEF LockAges, order, draft, bounds
<1>5. CASE BecomeDue
  BY <1>5 DEF BecomeDue, order, draft, bounds, Goto, Enqueued, Resting,
     Live, Fresh, Event, Attempt, Entry, Status,
      Result, Place
<1>6. ASSUME NEW d \in Run, Claim(d) PROVE TypeOK'
  BY <1>6 DEF Claim, Claimable, order, draft, bounds, Goto, Enqueued,
     Resting, Live, Fresh, Event, Attempt, Entry, Status,
      Result, Place
<1>7. ASSUME NEW d \in Run, Read(d) PROVE TypeOK'
  <2>1. row \in Event
    BY <1>7 DEF Read, DraftInv, Live
  <2>2. run' \in [Run -> Attempt]
    BY <1>7, <2>1 DEF Read, Event, Attempt, Place
  <2>. QED
    BY <1>7, <2>2 DEF Read, order, draft, bounds
<1>8. ASSUME NEW d \in Run, MarkProcessing(d) PROVE TypeOK'
  <2>1. row' \in Event
    BY <1>8, RowFacts DEF MarkProcessing, Incremented, DraftInv, Live, Status
  <2>2. run' \in [Run -> Attempt]
    BY <1>8 DEF MarkProcessing, Goto, Resting, Attempt, Place
  <2>. QED
    BY <1>8, <2>1, <2>2 DEF MarkProcessing, order, draft, bounds
<1>9. ASSUME NEW d \in Run, ReadOrder(d) PROVE TypeOK'
  BY <1>9 DEF ReadOrder, order, draft, bounds, Goto, Enqueued, Resting,
     Live, Fresh, Event, Attempt, Entry, Status,
      Result, Place
<1>10. ASSUME NEW d \in Run, InsertDraft(d) PROVE TypeOK'
  BY <1>10 DEF InsertDraft, KeyHeld, order, draft, bounds, Goto, Enqueued,
     Resting, Live, Fresh, Event, Attempt, Entry, Status,
      Result, Place
<1>11. ASSUME NEW d \in Run, Calculate(d) PROVE TypeOK'
  BY <1>11 DEF Calculate, order, draft, bounds, Goto, Enqueued, Resting,
     Live, Fresh, Event, Attempt, Entry, Status,
      Result, Place
<1>12. ASSUME NEW d \in Run, Throw(d) PROVE TypeOK'
  BY <1>12 DEF Throw, order, draft, bounds, Goto, Enqueued, Resting, Live,
     Fresh, Event, Attempt, Entry, Status,
      Result, Place
<1>13. ASSUME NEW d \in Run, AppendSucceeded(d) PROVE TypeOK'
  BY <1>13 DEF AppendSucceeded, Logged, order, draft, bounds, Goto,
     Enqueued, Resting, Live, Fresh, Event, Attempt, Entry, Status,
      Result, Place
<1>14. ASSUME NEW d \in Run, MarkSucceeded(d) PROVE TypeOK'
  <2>1. row' \in Event
    BY <1>14, RowFacts DEF MarkSucceeded, DraftInv, Live, Status
  <2>2. run' \in [Run -> Attempt]
    BY <1>14 DEF MarkSucceeded, Goto, Resting, Attempt, Place
  <2>. QED
    BY <1>14, <2>1, <2>2 DEF MarkSucceeded, order, draft, bounds
<1>15. ASSUME NEW d \in Run, AppendFailed(d) PROVE TypeOK'
  BY <1>15 DEF AppendFailed, Logged, FailedResult, order, draft, bounds,
     Goto, Enqueued, Resting, Live, Fresh, Event, Attempt, Entry, Status,
      Result, Place
<1>16. ASSUME NEW d \in Run, Settle(d) PROVE TypeOK'
  <2>1. row' \in Event
    BY <1>16, RowFacts DEF Settle, IsDead, GivenUp, DraftInv, Live, Status
  <2>2. run' \in [Run -> Attempt]
    BY <1>16 DEF Settle, Goto, Resting, Attempt, Place
  <2>. QED
    BY <1>16, <2>1, <2>2 DEF Settle, order, draft, bounds
<1>17. ASSUME NEW d \in Run, Abandon(d) PROVE TypeOK'
  BY <1>17 DEF Abandon, order, draft, bounds, Goto, Enqueued, Resting,
     Live, Fresh, Event, Attempt, Entry, Status,
      Result, Place
<1>18. ASSUME NEW a \in Admin, RetryReads(a) PROVE TypeOK'
  BY <1>18 DEF RetryReads, order, draft, bounds, Goto, Enqueued, Resting,
     Live, Fresh, Event, Attempt, Entry, Status,
      Result, Place
<1>19. ASSUME NEW a \in Admin, RetryEnqueues(a) PROVE TypeOK'
  BY <1>19 DEF RetryEnqueues, order, draft, bounds, Goto, Enqueued,
     Resting, Live, Fresh, Event, Attempt, Entry, Status,
      Result, Place
<1>20. ASSUME NEW a \in Admin, Reactivate(a) PROVE TypeOK'
  BY <1>20 DEF Reactivate, order, draft, bounds, Goto, Enqueued, Resting,
     Live, Fresh, Event, Attempt, Entry, Status,
      Result, Place
<1>21. CASE UNCHANGED vars
  BY <1>21 DEF vars, order, draft, bounds, Goto, Enqueued, Resting, Live,
     Fresh, Event, Attempt, Entry, Status,
      Result, Place
<1>. QED
  BY <1>1, <1>2, <1>3, <1>4, <1>5, <1>6, <1>7, <1>8, <1>9, <1>10, <1>11, <1>12,
     <1>13, <1>14, <1>15, <1>16, <1>17, <1>18, <1>19, <1>20, <1>21
     DEF Next, Dispatch

\* Every step keeps the draft and its record together.
LEMMA DraftStep ==
  ASSUME TypeOK, DraftInv, [Next]_vars
  PROVE  DraftInv'
<1>. USE NoRowAssumption DEF TypeOK, DraftInv, Live
<1>1. CASE Pay
  BY <1>1 DEF Pay, order, draft, bounds, Goto, Enqueued, Resting, Fresh,
     Event, Attempt, Status, Place
<1>2. CASE Unpay
  BY <1>2 DEF Unpay, order, draft, bounds, Goto, Enqueued, Resting, Fresh,
     Event, Attempt, Status, Place
<1>3. CASE ReleaseStaleLocks
  BY <1>3 DEF ReleaseStaleLocks, Released, order, draft, bounds, Goto,
     Enqueued, Resting, Fresh, Event, Attempt, Status, Place
<1>4. CASE LockAges
  BY <1>4 DEF LockAges, order, draft, bounds, Goto, Enqueued, Resting,
     Fresh, Event, Attempt, Status, Place
<1>5. CASE BecomeDue
  BY <1>5 DEF BecomeDue, order, draft, bounds, Goto, Enqueued, Resting,
     Fresh, Event, Attempt, Status, Place
<1>6. ASSUME NEW d \in Run, Claim(d) PROVE DraftInv'
  BY <1>6 DEF Claim, Claimable, order, draft, bounds, Goto, Enqueued,
     Resting, Fresh, Event, Attempt, Status, Place
<1>7. ASSUME NEW d \in Run, Read(d) PROVE DraftInv'
  BY <1>7 DEF Read, order, draft, bounds, Goto, Enqueued, Resting, Fresh,
     Event, Attempt, Status, Place
<1>8. ASSUME NEW d \in Run, MarkProcessing(d) PROVE DraftInv'
  <2>1. row' # NoRow
    BY <1>8, RowFacts DEF MarkProcessing, Incremented, Live, Status
  <2>2. row'.status = "Processing"
    BY <1>8 DEF MarkProcessing, Live, Event
  <2>. QED
    BY <1>8, <2>1, <2>2 DEF MarkProcessing, order, draft, Goto, Attempt
<1>9. ASSUME NEW d \in Run, ReadOrder(d) PROVE DraftInv'
  BY <1>9 DEF ReadOrder, order, draft, bounds, Goto, Enqueued, Resting,
     Fresh, Event, Attempt, Status, Place
<1>10. ASSUME NEW d \in Run, InsertDraft(d) PROVE DraftInv'
  BY <1>10 DEF InsertDraft, KeyHeld, order, draft, bounds, Goto, Enqueued,
     Resting, Fresh, Event, Attempt, Status, Place
<1>11. ASSUME NEW d \in Run, Calculate(d) PROVE DraftInv'
  BY <1>11 DEF Calculate, order, draft, bounds, Goto, Enqueued, Resting,
     Fresh, Event, Attempt, Status, Place
<1>12. ASSUME NEW d \in Run, Throw(d) PROVE DraftInv'
  BY <1>12 DEF Throw, order, draft, bounds, Goto, Enqueued, Resting, Fresh,
     Event, Attempt, Status, Place
<1>13. ASSUME NEW d \in Run, AppendSucceeded(d) PROVE DraftInv'
  BY <1>13 DEF AppendSucceeded, Logged, order, draft, bounds, Goto,
     Enqueued, Resting, Fresh, Event, Attempt, Status, Place
<1>14. ASSUME NEW d \in Run, MarkSucceeded(d) PROVE DraftInv'
  BY <1>14 DEF MarkSucceeded, order, draft, bounds, Goto, Enqueued,
     Resting, Fresh, Event, Attempt, Status, Place
<1>15. ASSUME NEW d \in Run, AppendFailed(d) PROVE DraftInv'
  BY <1>15 DEF AppendFailed, Logged, FailedResult, order, draft, bounds,
     Goto, Enqueued, Resting, Fresh, Event, Attempt, Status, Place
<1>16. ASSUME NEW d \in Run, Settle(d) PROVE DraftInv'
  BY <1>16 DEF Settle, IsDead, GivenUp, order, draft, bounds, Goto,
     Enqueued, Resting, Fresh, Event, Attempt, Status, Place
<1>17. ASSUME NEW d \in Run, Abandon(d) PROVE DraftInv'
  BY <1>17 DEF Abandon, order, draft, bounds, Goto, Enqueued, Resting,
     Fresh, Event, Attempt, Status, Place
<1>18. ASSUME NEW a \in Admin, RetryReads(a) PROVE DraftInv'
  BY <1>18 DEF RetryReads, order, draft, bounds, Goto, Enqueued, Resting,
     Fresh, Event, Attempt, Status, Place
<1>19. ASSUME NEW a \in Admin, RetryEnqueues(a) PROVE DraftInv'
  BY <1>19 DEF RetryEnqueues, order, draft, bounds, Goto, Enqueued,
     Resting, Fresh, Event, Attempt, Status, Place
<1>20. ASSUME NEW a \in Admin, Reactivate(a) PROVE DraftInv'
  <2>1. row' # NoRow /\ row'.status = "Pending"
    BY <1>20, RowFacts DEF Reactivate, Fresh
  <2>. QED
    BY <1>20, <2>1 DEF Reactivate, order, draft
<1>21. CASE UNCHANGED vars
  BY <1>21 DEF vars, order, draft, bounds, Goto, Enqueued, Resting, Fresh,
     Event, Attempt, Status, Place
<1>. QED
  BY <1>1, <1>2, <1>3, <1>4, <1>5, <1>6, <1>7, <1>8, <1>9, <1>10, <1>11, <1>12,
     <1>13, <1>14, <1>15, <1>16, <1>17, <1>18, <1>19, <1>20, <1>21
     DEF Next, Dispatch

\* Every step keeps the event in one pair of hands.
LEMMA SlotStep ==
  ASSUME OneAdmin, slow = 0, slow' = 0,
         TypeOK, DraftInv, SlotInv, [Next]_vars
  PROVE  SlotInv'
<1>. USE NoRowAssumption DEF TypeOK, DraftInv, SlotInv, Exclusive, Live
<1>1. CASE Pay
  BY <1>1 DEF Pay, order, draft, bounds, Goto, Enqueued, Resting, Fresh,
     OneAdmin, Event, Attempt,
      Status, Place
<1>2. CASE Unpay
  BY <1>2 DEF Unpay, order, draft, bounds, Goto, Enqueued, Resting, Fresh,
     OneAdmin, Event, Attempt,
      Status, Place
<1>3. CASE ReleaseStaleLocks
  BY <1>3 DEF ReleaseStaleLocks, Released, order, draft, bounds, Goto,
     Enqueued, Resting, Fresh, OneAdmin, Event, Attempt,
      Status, Place
<1>4. CASE LockAges
  BY <1>4 DEF LockAges, order, draft, bounds, Goto, Enqueued, Resting,
     Fresh, OneAdmin, Event, Attempt,
      Status, Place
<1>5. CASE BecomeDue
  BY <1>5 DEF BecomeDue, order, draft, bounds, Goto, Enqueued, Resting,
     Fresh, OneAdmin, Event, Attempt,
      Status, Place
<1>6. ASSUME NEW d \in Run, Claim(d) PROVE SlotInv'
  BY <1>6 DEF Claim, Claimable, order, draft, bounds, Goto, Enqueued,
     Resting, Fresh, OneAdmin, Event, Attempt,
      Status, Place
<1>7. ASSUME NEW d \in Run, Read(d) PROVE SlotInv'
  BY <1>7 DEF Read, order, draft, bounds, Goto, Enqueued, Resting, Fresh,
     OneAdmin, Event, Attempt,
      Status, Place
<1>8. ASSUME NEW d \in Run, MarkProcessing(d) PROVE SlotInv'
  <2>1. row' # NoRow
    BY <1>8, RowFacts DEF MarkProcessing, Incremented, Status
  <2>2. row'.status = "Processing" /\ row'.locked /\ ~row'.stale
    BY <1>8 DEF MarkProcessing, Event
  <2>. QED
    BY <1>8, <2>1, <2>2 DEF MarkProcessing, Goto, Attempt
<1>9. ASSUME NEW d \in Run, ReadOrder(d) PROVE SlotInv'
  BY <1>9 DEF ReadOrder, order, draft, bounds, Goto, Enqueued, Resting,
     Fresh, OneAdmin, Event, Attempt,
      Status, Place
<1>10. ASSUME NEW d \in Run, InsertDraft(d) PROVE SlotInv'
  BY <1>10 DEF InsertDraft, KeyHeld, order, draft, bounds, Goto, Enqueued,
     Resting, Fresh, OneAdmin, Event, Attempt,
      Status, Place
<1>11. ASSUME NEW d \in Run, Calculate(d) PROVE SlotInv'
  BY <1>11 DEF Calculate, order, draft, bounds, Goto, Enqueued, Resting,
     Fresh, OneAdmin, Event, Attempt,
      Status, Place
<1>12. ASSUME NEW d \in Run, Throw(d) PROVE SlotInv'
  BY <1>12 DEF Throw, order, draft, bounds, Goto, Enqueued, Resting, Fresh,
     OneAdmin, Event, Attempt,
      Status, Place
<1>13. ASSUME NEW d \in Run, AppendSucceeded(d) PROVE SlotInv'
  BY <1>13 DEF AppendSucceeded, Logged, order, draft, bounds, Goto,
     Enqueued, Resting, Fresh, OneAdmin, Event, Attempt,
      Status, Place
<1>14. ASSUME NEW d \in Run, MarkSucceeded(d) PROVE SlotInv'
  BY <1>14 DEF MarkSucceeded, order, draft, bounds, Goto, Enqueued,
     Resting, Fresh, OneAdmin, Event, Attempt,
      Status, Place
<1>15. ASSUME NEW d \in Run, AppendFailed(d) PROVE SlotInv'
  BY <1>15 DEF AppendFailed, Logged, FailedResult, order, draft, bounds,
     Goto, Enqueued, Resting, Fresh, OneAdmin, Event, Attempt,
      Status, Place
<1>16. ASSUME NEW d \in Run, Settle(d) PROVE SlotInv'
  BY <1>16 DEF Settle, IsDead, GivenUp, order, draft, bounds, Goto,
     Enqueued, Resting, Fresh, OneAdmin, Event, Attempt,
      Status, Place
<1>17. ASSUME NEW d \in Run, Abandon(d) PROVE SlotInv'
  BY <1>17 DEF Abandon, order, draft, bounds, Goto, Enqueued, Resting,
     Fresh, OneAdmin, Event, Attempt,
      Status, Place
<1>18. ASSUME NEW a \in Admin, RetryReads(a) PROVE SlotInv'
  BY <1>18 DEF RetryReads, order, draft, bounds, Goto, Enqueued, Resting,
     Fresh, OneAdmin, Event, Attempt,
      Status, Place
<1>19. ASSUME NEW a \in Admin, RetryEnqueues(a) PROVE SlotInv'
  BY <1>19 DEF RetryEnqueues, order, draft, bounds, Goto, Enqueued,
     Resting, Fresh, OneAdmin, Event, Attempt,
      Status, Place
<1>20. ASSUME NEW a \in Admin, Reactivate(a) PROVE SlotInv'
  BY <1>20 DEF Reactivate, order, draft, bounds, Goto, Enqueued, Resting,
     Fresh, OneAdmin, Event, Attempt,
      Status, Place
<1>21. CASE UNCHANGED vars
  BY <1>21 DEF vars, order, draft, bounds, Goto, Enqueued, Resting, Fresh,
     OneAdmin, Event, Attempt,
      Status, Place
<1>. QED
  BY <1>1, <1>2, <1>3, <1>4, <1>5, <1>6, <1>7, <1>8, <1>9, <1>10, <1>11, <1>12,
     <1>13, <1>14, <1>15, <1>16, <1>17, <1>18, <1>19, <1>20, <1>21
     DEF Next, Dispatch

\* Every step keeps the copies of the count in step.
LEMMA CountStep ==
  ASSUME OneAdmin, slow = 0, slow' = 0,
         TypeOK, DraftInv, SlotInv, CountInv, [Next]_vars
  PROVE  CountInv'
<1>. USE NoRowAssumption, MaxAttemptsAssumption, BoundsAssumption
     DEF TypeOK, DraftInv, SlotInv, Exclusive, Live, CountInv, Past,
         Justified, Logged, FailedResult
<1>1. CASE Pay
  BY <1>1 DEF Pay, order, draft, bounds, Goto, Enqueued, Resting, Fresh,
     OneAdmin, Event, Attempt,
      Entry, Status, Place, Result
<1>2. CASE Unpay
  BY <1>2 DEF Unpay, order, draft, bounds, Goto, Enqueued, Resting, Fresh,
     OneAdmin, Event, Attempt,
      Entry, Status, Place, Result
<1>3. CASE ReleaseStaleLocks
  BY <1>3 DEF ReleaseStaleLocks, Released, order, draft, bounds, Goto,
     Enqueued, Resting, Fresh, OneAdmin, Event, Attempt,
      Entry, Status, Place, Result
<1>4. CASE LockAges
  BY <1>4 DEF LockAges, order, draft, bounds, Goto, Enqueued, Resting,
     Fresh, OneAdmin, Event, Attempt,
      Entry, Status, Place, Result
<1>5. CASE BecomeDue
  BY <1>5 DEF BecomeDue, order, draft, bounds, Goto, Enqueued, Resting,
     Fresh, OneAdmin, Event, Attempt,
      Entry, Status, Place, Result
<1>6. ASSUME NEW d \in Run, Claim(d) PROVE CountInv'
  BY <1>6 DEF Claim, Claimable, order, draft, bounds, Goto, Enqueued,
     Resting, Fresh, OneAdmin, Event, Attempt,
      Entry, Status, Place, Result
<1>7. ASSUME NEW d \in Run, Read(d) PROVE CountInv'
  BY <1>7 DEF Read, order, draft, bounds, Goto, Enqueued, Resting, Fresh,
     OneAdmin, Event, Attempt,
      Entry, Status, Place, Result
<1>8. ASSUME NEW d \in Run, MarkProcessing(d) PROVE CountInv'
  BY <1>8 DEF MarkProcessing, Incremented, order, draft, bounds, Goto,
     Enqueued, Resting, Fresh, OneAdmin, Event, Attempt,
      Entry, Status, Place, Result
<1>9. ASSUME NEW d \in Run, ReadOrder(d) PROVE CountInv'
  BY <1>9 DEF ReadOrder, order, draft, bounds, Goto, Enqueued, Resting,
     Fresh, OneAdmin, Event, Attempt,
      Entry, Status, Place, Result
<1>10. ASSUME NEW d \in Run, InsertDraft(d) PROVE CountInv'
  BY <1>10 DEF InsertDraft, KeyHeld, order, draft, bounds, Goto, Enqueued,
     Resting, Fresh, OneAdmin, Event, Attempt,
      Entry, Status, Place, Result
<1>11. ASSUME NEW d \in Run, Calculate(d) PROVE CountInv'
  BY <1>11 DEF Calculate, order, draft, bounds, Goto, Enqueued, Resting,
     Fresh, OneAdmin, Event, Attempt,
      Entry, Status, Place, Result
<1>12. ASSUME NEW d \in Run, Throw(d) PROVE CountInv'
  BY <1>12 DEF Throw, order, draft, bounds, Goto, Enqueued, Resting, Fresh,
     OneAdmin, Event, Attempt,
      Entry, Status, Place, Result
<1>13. ASSUME NEW d \in Run, AppendSucceeded(d) PROVE CountInv'
  BY <1>13 DEF AppendSucceeded, Logged, order, draft, bounds, Goto,
     Enqueued, Resting, Fresh, OneAdmin, Event, Attempt,
      Entry, Status, Place, Result
<1>14. ASSUME NEW d \in Run, MarkSucceeded(d) PROVE CountInv'
  BY <1>14 DEF MarkSucceeded, order, draft, bounds, Goto, Enqueued,
     Resting, Fresh, OneAdmin, Event, Attempt,
      Entry, Status, Place, Result
<1>15. ASSUME NEW d \in Run, AppendFailed(d) PROVE CountInv'
  BY <1>15 DEF AppendFailed, Logged, FailedResult, order, draft, bounds,
     Goto, Enqueued, Resting, Fresh, OneAdmin, Event, Attempt,
      Entry, Status, Place, Result
<1>16. ASSUME NEW d \in Run, Settle(d) PROVE CountInv'
  <2>1. /\ row \in Event /\ row.status = "Processing"
        /\ run[d].count + 1 = row.attempts
        /\ row.attempts <= MaxAttempts + faults
        /\ Logged(d, FailedResult(d)) \in log
    BY <1>16 DEF Settle
  <2>2. /\ row' \in Event
        /\ row'.attempts = row.attempts
        /\ row'.status = IF IsDead(d) THEN "DeadLetter" ELSE "RetryPending"
    <3>1. CASE IsDead(d)
      BY <1>16, <2>1, <3>1 DEF Settle, GivenUp, Event, Status
    <3>2. CASE ~IsDead(d)
      BY <1>16, <2>1, <3>2 DEF Settle, Event, Status
    <3>. QED
      BY <3>1, <3>2
  <2>3. \A e \in Run : ~Live(e)'
    BY <1>16 DEF Settle, Resting, Attempt
  <2>4. row'.status = "RetryPending" => row'.attempts < MaxAttempts + faults
    BY <2>1, <2>2 DEF IsDead, Event, Attempt
  <2>5. row'.status = "DeadLetter" =>
          \/ row'.attempts >= MaxAttempts
          \/ \E e \in log : e.epoch = epoch /\ e.result = "Permanent"
    BY <2>1, <2>2 DEF IsDead, Event, Attempt
  <2>. QED
    BY <1>16, <2>1, <2>2, <2>3, <2>4, <2>5 DEF Settle, bounds
<1>17. ASSUME NEW d \in Run, Abandon(d) PROVE CountInv'
  BY <1>17 DEF Abandon, order, draft, bounds, Goto, Enqueued, Resting,
     Fresh, OneAdmin, Event, Attempt,
      Entry, Status, Place, Result
<1>18. ASSUME NEW a \in Admin, RetryReads(a) PROVE CountInv'
  BY <1>18 DEF RetryReads, order, draft, bounds, Goto, Enqueued, Resting,
     Fresh, OneAdmin, Event, Attempt,
      Entry, Status, Place, Result
<1>19. ASSUME NEW a \in Admin, RetryEnqueues(a) PROVE CountInv'
  BY <1>19 DEF RetryEnqueues, order, draft, bounds, Goto, Enqueued,
     Resting, Fresh, OneAdmin, Event, Attempt,
      Entry, Status, Place, Result
<1>20. ASSUME NEW a \in Admin, Reactivate(a) PROVE CountInv'
  BY <1>20 DEF Reactivate, order, draft, bounds, Goto, Enqueued, Resting,
     Fresh, OneAdmin, Event, Attempt,
      Entry, Status, Place, Result
<1>21. CASE UNCHANGED vars
  BY <1>21 DEF vars, order, draft, bounds, Goto, Enqueued, Resting, Fresh,
     OneAdmin, Event, Attempt,
      Entry, Status, Place, Result
<1>. QED
  BY <1>1, <1>2, <1>3, <1>4, <1>5, <1>6, <1>7, <1>8, <1>9, <1>10, <1>11, <1>12,
     <1>13, <1>14, <1>15, <1>16, <1>17, <1>18, <1>19, <1>20, <1>21
     DEF Next, Dispatch

LEMMA InitInductive == Init => IInv
<1>. SUFFICES ASSUME Init PROVE IInv
  OBVIOUS
<1>1. \A d \in Run : ~Live(d) /\ run[d].at = "idle"
  BY DEF Init, Live, Resting
<1>2. TypeOK
  <2>1. Resting \in Attempt
    BY DEF Resting, Attempt, Place
  <2>2. run \in [Run -> Attempt]
    BY <2>1 DEF Init
  <2>3. admin \in [Admin -> {"idle", "enqueue", "reactivate"}]
    BY DEF Init
  <2>4. /\ faults \in 0..MaxFaults /\ slow \in 0..MaxSlow
        /\ epoch \in 0..MaxRetries
    BY BoundsAssumption DEF Init
  <2>. QED
    BY <2>2, <2>3, <2>4 DEF Init, TypeOK
<1>3. DraftInv
  BY <1>1 DEF Init, DraftInv
<1>4. SlotInv
  BY <1>1 DEF Init, SlotInv, Exclusive
<1>5. CountInv
  <2>1. \A d \in Run : run[d].at \notin {"mark", "settle"} /\ ~Past(d)
    BY <1>1 DEF Past
  <2>2. row = NoRow
    BY DEF Init
  <2>. QED
    BY <2>1, <2>2 DEF CountInv, Justified
<1>. QED
  BY <1>2, <1>3, <1>4, <1>5 DEF IInv

\* Columns stay in their domains, whatever the timing.
THEOREM TypeCorrect == Spec => []TypeOK
<1>1. Init => TypeOK /\ DraftInv
  BY InitInductive DEF IInv
<1>2. TypeOK /\ DraftInv /\ [Next]_vars => (TypeOK /\ DraftInv)'
  BY TypeStep, DraftStep
<1>. QED
  BY <1>1, <1>2, PTL DEF Spec

LEMMA DraftHolds == Spec => []DraftInv
<1>1. Init => TypeOK /\ DraftInv
  BY InitInductive DEF IInv
<1>2. TypeOK /\ DraftInv /\ [Next]_vars => (TypeOK /\ DraftInv)'
  BY TypeStep, DraftStep
<1>. QED
  BY <1>1, <1>2, PTL DEF Spec

\* At-least-once dispatch makes one draft at most, even when runs outlive
\* their locks and administrators race.
THEOREM OneDraftPerOrder == Spec => []AtMostOneDraft
<1>1. DraftInv => AtMostOneDraft
  BY DEF DraftInv, AtMostOneDraft
<1>. QED
  BY <1>1, DraftHolds, PTL

\* And an event marked Succeeded has its draft, under the same conditions.
THEOREM SuccessHasItsDraft == Spec => []SucceededMeansDrafted
<1>1. DraftInv => SucceededMeansDrafted
  BY DEF DraftInv, SucceededMeansDrafted
<1>. QED
  BY <1>1, DraftHolds, PTL

\* A run that has outlived the threshold stays counted.
LEMMA SlowOnlyGrows ==
  ASSUME TypeOK, [Next]_vars, slow' = 0
  PROVE  slow = 0
<1>1. slow \in Nat
  BY BoundsAssumption DEF TypeOK
<1>2. CASE UNCHANGED vars
  BY <1>2 DEF vars, bounds
<1>3. CASE LockAges
  BY <1>1, <1>3 DEF LockAges
<1>4. ASSUME NEW d \in Run, Claim(d) \/ Dispatch(d) \/ Abandon(d)
      PROVE  slow' = slow
  BY <1>4 DEF bounds, Dispatch, Claim, Read, MarkProcessing, ReadOrder, InsertDraft,
     Calculate, Throw, AppendSucceeded, MarkSucceeded, AppendFailed, Settle, Abandon
<1>5. ASSUME NEW a \in Admin, RetryReads(a) \/ RetryEnqueues(a) \/ Reactivate(a)
      PROVE  slow' = slow
  BY <1>5 DEF bounds, RetryReads, RetryEnqueues, Reactivate
<1>6. CASE Pay \/ Unpay \/ ReleaseStaleLocks \/ BecomeDue
  BY <1>6 DEF bounds, Pay, Unpay, ReleaseStaleLocks, BecomeDue
<1>. QED
  BY <1>2, <1>3, <1>4, <1>5, <1>6 DEF Next

\* With one retry request at a time the whole invariant is inductive: the lock
\* as long as it only goes stale when its run is dead.
THEOREM Inductive == OneAdmin => (Spec => []IInv)
<1>. SUFFICES ASSUME OneAdmin PROVE Spec => []IInv
  OBVIOUS
<1>1. Init => IInv
  BY InitInductive
<1>2. IInv /\ [Next]_vars => IInv'
  BY TypeStep, DraftStep, SlotStep, CountStep, SlowOnlyGrows DEF IInv
<1>. QED
  BY <1>1, <1>2, PTL DEF Spec

\* Until a run outlives the threshold, no two runs work on an event at once.
THEOREM LockIsExclusive == OneAdmin => (Spec => []OneDispatch)
<1>1. IInv => OneDispatch
  BY DEF IInv, SlotInv, OneDispatch
<1>. QED
  BY <1>1, Inductive, PTL

\* Until then, an event is given up only after its budget of attempts or for
\* an order that may not be invoiced.
THEOREM GivingUpIsJustified == OneAdmin => (Spec => []DeadLetterJustified)
<1>1. IInv => DeadLetterJustified
  BY DEF IInv, CountInv, DeadLetterJustified
<1>. QED
  BY <1>1, Inductive, PTL

\* Until then, the handler is called at most once more for every abandoned run.
THEOREM CallsAreBounded == OneAdmin => (Spec => []AttemptsBounded)
<1>1. IInv => AttemptsBounded
  BY DEF IInv, CountInv, AttemptsBounded
<1>. QED
  BY <1>1, Inductive, PTL

\* And Succeeded is final: no failure, release or retry undoes it,
\* until a run outlives the threshold.
THEOREM SuccessIsFinal == OneAdmin => (Spec => SucceededIsFinal)
<1>. SUFFICES ASSUME OneAdmin PROVE Spec => SucceededIsFinal
  OBVIOUS
<1>1. IInv /\ [Next]_vars =>
        [slow' = 0 /\ row # NoRow /\ row.status = "Succeeded"
           => row'.status = "Succeeded"]_vars
  <2>. SUFFICES ASSUME IInv, Next, slow' = 0, row # NoRow,
                       row.status = "Succeeded"
       PROVE row'.status = "Succeeded"
    OBVIOUS
  <2>0. SlotInv
    BY SlowOnlyGrows DEF IInv
  <2>1. \A d \in Run : ~Live(d)
    BY <2>0 DEF SlotInv, Exclusive
  <2>2. \A a \in Admin : admin[a] # "reactivate"
    BY <2>0 DEF SlotInv
  <2>3. row \in Event
    BY DEF IInv, TypeOK
  <2>4. ASSUME NEW d \in Run, Claim(d) \/ Dispatch(d) \/ Abandon(d)
        PROVE row'.status = "Succeeded"
    BY <2>1, <2>4
    DEF Claim, Claimable, Dispatch, Read, MarkProcessing, ReadOrder,
        InsertDraft, Calculate, Throw, AppendSucceeded, MarkSucceeded,
        AppendFailed, Settle,
        Abandon, Live
  <2>5. ASSUME NEW a \in Admin, RetryReads(a) \/ RetryEnqueues(a)
                                   \/ Reactivate(a)
        PROVE row'.status = "Succeeded"
    BY <2>2, <2>5 DEF RetryReads, RetryEnqueues, Reactivate, Enqueued
  <2>. QED
    BY <2>3, <2>4, <2>5
    DEF Next, Pay, Unpay, ReleaseStaleLocks, LockAges, BecomeDue,
        Released, Enqueued, Event
<1>2. Spec => []IInv
  BY Inductive
<1>. QED
  BY <1>1, <1>2, PTL DEF Spec, SucceededIsFinal
=============================================================================
