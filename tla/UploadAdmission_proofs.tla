------------------------ MODULE UploadAdmission_proofs ------------------------
(***************************************************************************)
(* Proofs about UploadAdmission for every number of requests and of leaf   *)
(* operations and every capacity: the counters of the gate are exact, and  *)
(* native work runs one at a time under an owner that holds a slot.        *)
(***************************************************************************)
EXTENDS UploadAdmission, SequenceTheorems, FiniteSetTheorems, TLAPS

(* A sequence without its p-th element.                                    *)
LEMMA RemoveAtFacts ==
  ASSUME NEW S, NEW s \in Seq(S), NEW p \in 1 .. Len(s)
  PROVE  /\ RemoveAt(s, p) \in Seq(S)
         /\ Len(RemoveAt(s, p)) = Len(s) - 1
         /\ \A i \in 1 .. Len(s) - 1 :
              RemoveAt(s, p)[i] = IF i < p THEN s[i] ELSE s[i + 1]
<1>. DEFINE head == SubSeq(s, 1, p - 1) rest == SubSeq(s, p + 1, Len(s))
<1>0. Len(s) \in Nat /\ \A i \in 1 .. Len(s) : s[i] \in S
  BY ElementOfSeq, LenProperties
<1>1. /\ head \in Seq(S) /\ Len(head) = p - 1
      /\ \A i \in 1 .. p - 1 : head[i] = s[i]
  BY <1>0, SubSeqProperties, Z3
<1>2. /\ rest \in Seq(S) /\ Len(rest) = Len(s) - p
      /\ \A i \in 1 .. Len(s) - p : rest[i] = s[p + i]
  BY <1>0, SubSeqProperties, Z3
<1>. HIDE DEF head, rest
<1>3. /\ head \o rest \in Seq(S)
      /\ Len(head \o rest) = Len(s) - 1
      /\ \A i \in 1 .. Len(s) - 1 : (head \o rest)[i] =
           IF i <= Len(head) THEN head[i] ELSE rest[i - Len(head)]
  BY <1>0, <1>1, <1>2, ConcatProperties
<1>4. ASSUME NEW i \in 1 .. Len(s) - 1
      PROVE  (head \o rest)[i] = IF i < p THEN s[i] ELSE s[i + 1]
  BY <1>0, <1>1, <1>2, <1>3
<1>. QED
  BY <1>3, <1>4 DEF RemoveAt, head, rest

(* The queue without one lease.                                            *)
LEMMA WithoutFacts ==
  ASSUME TypeOK, QueueInv, NEW l \in Lease
  PROVE  /\ Without(l) \in Seq(Lease)
         /\ \A i \in DOMAIN Without(l) : \E j \in DOMAIN waiting :
              Without(l)[i] = waiting[j] /\ waiting[j] # l
         /\ \A i, j \in DOMAIN Without(l) : Without(l)[i] = Without(l)[j] => i = j
         /\ \A j \in DOMAIN waiting : waiting[j] # l =>
              \E i \in DOMAIN Without(l) : Without(l)[i] = waiting[j]
<1>0. /\ waiting \in Seq(Lease) /\ Len(waiting) \in Nat
      /\ DOMAIN waiting = 1 .. Len(waiting)
      /\ \A i, j \in 1 .. Len(waiting) : waiting[i] = waiting[j] => i = j
  BY LenProperties DEF TypeOK, QueueInv
<1>1. CASE ~\E i \in DOMAIN waiting : waiting[i] = l
  BY <1>0, <1>1 DEF Without
<1>2. CASE \E i \in DOMAIN waiting : waiting[i] = l
  <2>1. PICK p \in 1 .. Len(waiting) : waiting[p] = l /\ Without(l) = RemoveAt(waiting, p)
    BY <1>0, <1>2 DEF Without
  <2>2. /\ Without(l) \in Seq(Lease) /\ DOMAIN Without(l) = 1 .. Len(waiting) - 1
        /\ \A i \in 1 .. Len(waiting) - 1 :
             Without(l)[i] = IF i < p THEN waiting[i] ELSE waiting[i + 1]
    <3>1. Without(l) \in Seq(Lease) /\ Len(Without(l)) = Len(waiting) - 1
          /\ \A i \in 1 .. Len(waiting) - 1 :
               Without(l)[i] = IF i < p THEN waiting[i] ELSE waiting[i + 1]
      <4>1. /\ RemoveAt(waiting, p) \in Seq(Lease)
            /\ Len(RemoveAt(waiting, p)) = Len(waiting) - 1
            /\ \A i \in 1 .. Len(waiting) - 1 :
                 RemoveAt(waiting, p)[i] = IF i < p THEN waiting[i] ELSE waiting[i + 1]
        BY <1>0, RemoveAtFacts
      <4>. QED
        BY <2>1, <4>1
    <3>. QED
      BY <3>1, LenProperties
  <2>3. ASSUME NEW i \in 1 .. Len(waiting) - 1
        PROVE  \E j \in 1 .. Len(waiting) : Without(l)[i] = waiting[j] /\ waiting[j] # l
    <3>1. CASE i < p
      BY <1>0, <2>1, <2>2, <3>1
    <3>2. CASE ~(i < p)
      <4>1. i + 1 \in 1 .. Len(waiting) /\ i + 1 # p
        BY <1>0, <3>2
      <4>. QED
        BY <1>0, <2>1, <2>2, <3>2, <4>1
    <3>. QED
      BY <3>1, <3>2
  <2>4. ASSUME NEW i \in 1 .. Len(waiting) - 1, NEW j \in 1 .. Len(waiting) - 1,
               Without(l)[i] = Without(l)[j]
        PROVE  i = j
    BY <1>0, <2>2, <2>4
  <2>5. ASSUME NEW j \in 1 .. Len(waiting), waiting[j] # l
        PROVE  \E i \in 1 .. Len(waiting) - 1 : Without(l)[i] = waiting[j]
    <3>1. CASE j < p
      <4>. j \in 1 .. Len(waiting) - 1
        BY <1>0, <3>1
      <4>. QED
        BY <2>2, <3>1
    <3>2. CASE p < j
      <4>. j - 1 \in 1 .. Len(waiting) - 1 /\ ~(j - 1 < p) /\ (j - 1) + 1 = j
        BY <1>0, <3>2
      <4>. QED
        BY <2>2
    <3>. QED
      BY <2>1, <2>5, <3>1, <3>2, <1>0
  <2>. QED
    BY <1>0, <2>2, <2>3, <2>4, <2>5
<1>. QED
  BY <1>1, <1>2
-----------------------------------------------------------------------------
(* Cancelled operations keep their charge, and their entries stay as None. *)
LEMMA CancelFacts ==
  ASSUME TypeOK, NEW l \in Lease, NEW S \in SUBSET Leaf
  PROVE  /\ Cancelled(S, l) \in [Leaf -> Op]
         /\ \A k \in Leaf :
              /\ Cancelled(S, l)[k].charged = op[l][k].charged
              /\ Cancelled(S, l)[k].at = IF k \in S THEN "settling" ELSE op[l][k].at
         /\ Blanked(S, l) \in Seq(Leaf \union {None})
         /\ DOMAIN Blanked(S, l) = DOMAIN chain[l]
         /\ \A i \in DOMAIN chain[l] : Blanked(S, l)[i] =
              IF chain[l][i] \in S THEN None ELSE chain[l][i]
<1>1. op[l] \in [Leaf -> Op] /\ chain[l] \in Seq(Leaf \union {None})
  BY DEF TypeOK
<1>2. Len(chain[l]) \in Nat /\ DOMAIN chain[l] = 1 .. Len(chain[l])
      /\ chain[l] \in [1 .. Len(chain[l]) -> Leaf \union {None}]
  BY <1>1, LenProperties
<1>3. \A k \in Leaf : op[l][k] \in Op /\ [op[l][k] EXCEPT !.at = "settling"] \in Op
  BY <1>1 DEF Op, OpAt
<1>4. /\ Cancelled(S, l) \in [Leaf -> Op]
      /\ \A k \in Leaf :
           /\ Cancelled(S, l)[k].charged = op[l][k].charged
           /\ Cancelled(S, l)[k].at = IF k \in S THEN "settling" ELSE op[l][k].at
  BY <1>3 DEF Cancelled, Op
<1>5. Blanked(S, l) \in [1 .. Len(chain[l]) -> Leaf \union {None}]
  BY <1>2 DEF Blanked
<1>6. Blanked(S, l) \in Seq(Leaf \union {None})
  BY <1>2, <1>5, SeqDef
<1>. QED
  BY <1>4, <1>6 DEF Blanked

Cancels(l, S) == /\ op' = [op EXCEPT ![l] = Cancelled(S, l)]
                 /\ chain' = [chain EXCEPT ![l] = Blanked(S, l)]

(* The head of a chain and what is behind it.                              *)
LEMMA ChainFacts ==
  ASSUME TypeOK, NEW l \in Lease, chain[l] # << >>
  PROVE  /\ chain[l] \in Seq(Leaf \union {None})
         /\ Head(chain[l]) \in Leaf \union {None} /\ Head(chain[l]) = chain[l][1]
         /\ Tail(chain[l]) \in Seq(Leaf \union {None})
         /\ \A i \in DOMAIN chain[l] : chain[l][i] # Head(chain[l]) =>
              \E j \in DOMAIN Tail(chain[l]) : Tail(chain[l])[j] = chain[l][i]
<1>1. chain[l] \in Seq(Leaf \union {None})
  BY DEF TypeOK
<1>2. /\ Head(chain[l]) \in Leaf \union {None} /\ Head(chain[l]) = chain[l][1]
      /\ Tail(chain[l]) \in Seq(Leaf \union {None})
      /\ Len(Tail(chain[l])) = Len(chain[l]) - 1
      /\ \A i \in 1 .. Len(Tail(chain[l])) : Tail(chain[l])[i] = chain[l][i + 1]
  BY <1>1, HeadTailProperties
<1>3. /\ Len(chain[l]) \in Nat /\ DOMAIN chain[l] = 1 .. Len(chain[l])
      /\ DOMAIN Tail(chain[l]) = 1 .. Len(Tail(chain[l]))
  BY <1>1, <1>2, LenProperties
<1>4. ASSUME NEW i \in DOMAIN chain[l], chain[l][i] # Head(chain[l])
      PROVE  \E j \in DOMAIN Tail(chain[l]) : Tail(chain[l])[j] = chain[l][i]
  <2>1. i - 1 \in 1 .. Len(Tail(chain[l])) /\ (i - 1) + 1 = i
    BY <1>2, <1>3, <1>4
  <2>. QED
    BY <1>2, <1>3, <2>1
<1>. QED
  BY <1>1, <1>2, <1>4

(* The steps that move neither counter nor lease out of its stage.         *)
Out    == {l \in Lease : lease[l] # "free"}
Living == {l \in Lease : Alive(l)}

LEMMA FiniteFacts ==
  /\ \A S \in SUBSET Lease : IsFiniteSet(S) /\ Cardinality(S) \in Nat
  /\ \A S \in SUBSET (Lease \X Leaf) : IsFiniteSet(S) /\ Cardinality(S) \in Nat
<1>1. IsFiniteSet(Lease \X Leaf)
  BY FiniteAssumption, FS_Product
<1>2. \A S \in SUBSET Lease : IsFiniteSet(S)
  BY FiniteAssumption, FS_Subset
<1>3. \A S \in SUBSET (Lease \X Leaf) : IsFiniteSet(S)
  BY <1>1, FS_Subset
<1>. QED
  BY <1>2, <1>3, FS_CardinalityType

(* The counters count.                                                     *)
LEMMA CountsAre ==
  CapacityAccounted <=>
    /\ held = Cardinality(Out) + Cardinality(Charges)
    /\ held <= MaxActive + MaxWaiters
    /\ active = Cardinality(Living)
    /\ active <= MaxActive
BY DEF CapacityAccounted, Out, Living

LEMMA CountStep ==
  ASSUME IInv, [Next]_vars
  PROVE  CapacityAccounted' /\ held' \in Nat /\ active' \in Nat
<1>. USE DEF gate
<1>0. /\ TypeOK /\ QueueInv
      /\ held \in Nat /\ active \in Nat
      /\ lease \in [Lease -> Stage] /\ op \in [Lease -> [Leaf -> Op]]
      /\ held = Cardinality(Out) + Cardinality(Charges)
      /\ held <= MaxActive + MaxWaiters
      /\ active = Cardinality(Living) /\ active <= MaxActive
  BY CountsAre DEF IInv, TypeOK
<1>1. /\ Out \in SUBSET Lease /\ Living \in SUBSET Lease
      /\ Charges \in SUBSET (Lease \X Leaf)
  BY DEF Out, Living, Charges
<1>2. /\ IsFiniteSet(Out) /\ IsFiniteSet(Living) /\ IsFiniteSet(Charges)
      /\ Cardinality(Out) \in Nat /\ Cardinality(Living) \in Nat
      /\ Cardinality(Charges) \in Nat
  BY <1>1, FiniteFacts
<1>. DEFINE Counted ==
       /\ held' = Cardinality(Out') + Cardinality(Charges')
       /\ held' <= MaxActive + MaxWaiters /\ held' \in Nat
       /\ active' = Cardinality(Living')
       /\ active' <= MaxActive /\ active' \in Nat
<1>3. ASSUME Out' = Out, Living' = Living, Charges' = Charges,
             held' = held, active' = active
      PROVE  Counted
  BY <1>0, <1>3
<1>4. ASSUME NEW l \in Lease, Reserve(l) PROVE Counted
  <2>1. Out' = Out \union {l} /\ l \notin Out /\ Living' = Living /\ Charges' = Charges
    BY <1>0, <1>4 DEF Reserve, Out, Living, Alive, Charges
  <2>2. Cardinality(Out') = Cardinality(Out) + 1
    BY <1>2, <2>1, FS_AddElement
  <2>3. held' = held + 1 /\ held < MaxActive + MaxWaiters /\ active' = active
    BY <1>4 DEF Reserve, Capacity
  <2>. QED
    BY <1>0, <1>2, <2>1, <2>2, <2>3, CapacityAssumption
<1>5. ASSUME NEW l \in Lease, Run(l) PROVE Counted
  <2>1. Out' = Out /\ Charges' = Charges /\ held' = held
    BY <1>0, <1>5 DEF Run, Out, Charges
  <2>2. CASE active' = active
    <3>. Living' = Living
      BY <1>0, <1>5, <2>2 DEF Run, Living, Alive
    <3>. QED
      BY <1>3, <2>1, <2>2
  <2>3. CASE active' # active
    <3>1. active' = active + 1 /\ active < MaxActive
          /\ Living' = Living \union {l} /\ l \notin Living
      BY <1>0, <1>5, <2>3 DEF Run, Living, Alive
    <3>2. Cardinality(Living') = Cardinality(Living) + 1
      BY <1>2, <3>1, FS_AddElement
    <3>. QED
      BY <1>0, <1>2, <2>1, <3>1, <3>2, CapacityAssumption
  <2>. QED
    BY <2>2, <2>3
<1>6. ASSUME NEW l \in Lease, Forgo(l) \/ Timeout(l) \/ EndWork(l) \/ Turn(l) \/ EndLeaf(l)
      PROVE  Counted
  <2>1. Out' = Out /\ Living' = Living /\ held' = held /\ active' = active
    BY <1>0, <1>6 DEF Forgo, Timeout, EndWork, Turn, EndLeaf, Out, Living, Alive
  <2>2. Charges' = Charges
    <3>1. CASE op' = op
      BY <3>1 DEF Charges
    <3>2. CASE \E k \in Leaf, a \in OpAt : op' = [op EXCEPT ![l][k].at = a]
      <4>. \A m \in Lease, j \in Leaf : op'[m][j].charged = op[m][j].charged
        BY <1>0, <3>2 DEF Op
      <4>. QED
        BY DEF Charges
    <3>3. \/ op' = op
          \/ \E k \in Leaf, a \in OpAt : op' = [op EXCEPT ![l][k].at = a]
      BY <1>0, <1>6, ChainFacts DEF Forgo, Timeout, EndWork, Turn, EndLeaf, OpAt
    <3>. QED
      BY <3>1, <3>2, <3>3
  <2>. QED
    BY <1>3, <2>1, <2>2
<1>7. ASSUME NEW l \in Lease, NEW S \in SUBSET Leaf, Cancels(l, S)
      PROVE  Charges' = Charges
  <2>1. \A m \in Lease, k \in Leaf : op'[m][k].charged = op[m][k].charged
    BY <1>0, <1>7, CancelFacts DEF Cancels
  <2>. QED
    BY <2>1 DEF Charges
<1>8. ASSUME NEW l \in Lease, AbortSignal(l) PROVE Counted
  <2>1. Out' = Out /\ Living' = Living /\ held' = held /\ active' = active
    BY <1>0, <1>8 DEF AbortSignal, Out, Living, Alive
  <2>2. Queued(l) \in SUBSET Leaf
    BY DEF Queued
  <2>. QED
    BY <1>3, <1>7, <1>8, <2>1, <2>2 DEF AbortSignal, Cancels
<1>9. ASSUME NEW l \in Lease, NEW k \in Leaf, LeafTimeout(l, k) PROVE Counted
  BY <1>3, <1>7, <1>9 DEF LeafTimeout, Cancels, Out, Living, Alive
<1>10. ASSUME Close PROVE Counted
  <2>1. \A m \in Lease, k \in Leaf : op'[m][k].charged = op[m][k].charged
    <3>. \A m \in Lease : Queued(m) \in SUBSET Leaf /\ op'[m] = Cancelled(Queued(m), m)
      BY <1>10 DEF Close, Queued
    <3>. QED
      BY <1>0, CancelFacts
  <2>2. \A m \in Lease : lease'[m] = IF m \in Rejected THEN "over" ELSE lease[m]
    BY <1>10 DEF Close
  <2>3. \A m \in Rejected : lease[m] = "waiting"
    BY <1>0 DEF Rejected, ToSet, QueueInv
  <2>4. Out' = Out /\ Living' = Living /\ Charges' = Charges
    BY <2>1, <2>2, <2>3 DEF Out, Living, Alive, Charges
  <2>. QED
    BY <1>3, <1>10, <2>4 DEF Close
<1>11. ASSUME NEW l \in Lease, Finish(l) PROVE Counted
  <2>1. Charges' = Charges /\ held' = held /\ l \in Living
    BY <1>11 DEF Finish, Charges, Living, Alive
  <2>2. CASE Woken = << >>
    <3>1. Living' = Living \ {l} /\ active' = active - 1 /\ Out' = Out
      BY <1>0, <1>11, <2>2 DEF Finish, Living, Alive, Out
    <3>2. Cardinality(Living') = Cardinality(Living) - 1
      BY <1>2, <2>1, <3>1, FS_RemoveElement
    <3>3. Cardinality(Living') \in Nat
      BY <1>1, <3>1, FiniteFacts
    <3>. QED
      BY <1>0, <1>2, <2>1, <3>1, <3>2, <3>3, CapacityAssumption
  <2>3. CASE Woken # << >>
    <3>1. /\ waiting # << >> /\ Head(waiting) \in Lease
          /\ lease[Head(waiting)] = "waiting" /\ Woken = waiting
      BY <1>0, <2>3, HeadTailProperties, LenProperties, EmptySeq
      DEF Woken, TypeOK, QueueInv
    <3>2. /\ Living' = (Living \ {l}) \union {Head(waiting)}
          /\ Head(waiting) \notin Living \ {l} /\ active' = active /\ Out' = Out
      BY <1>0, <1>11, <2>3, <3>1 DEF Finish, Living, Alive, Out
    <3>3. /\ Cardinality(Living \ {l}) = Cardinality(Living) - 1
          /\ IsFiniteSet(Living \ {l})
      BY <1>2, <2>1, FS_RemoveElement
    <3>4. Cardinality(Living') = Cardinality(Living)
      <4>1. Cardinality((Living \ {l}) \union {Head(waiting)}) =
              Cardinality(Living \ {l}) + 1
        BY <3>2, <3>3, FS_AddElement
      <4>. QED
        BY <1>2, <3>2, <3>3, <4>1
    <3>. QED
      BY <1>0, <2>1, <3>2, <3>4
  <2>. QED
    BY <2>2, <2>3
<1>12. ASSUME NEW l \in Lease, Release(l) PROVE Counted
  <2>1. Out' = Out \ {l} /\ l \in Out /\ Living' = Living /\ Charges' = Charges
    BY <1>0, <1>12 DEF Release, Out, Living, Alive, Charges
  <2>2. Cardinality(Out') = Cardinality(Out) - 1
    BY <1>2, <2>1, FS_RemoveElement
  <2>3. held' = held - 1 /\ active' = active
    BY <1>12 DEF Release
  <2>4. Cardinality(Out') \in Nat
    BY <1>1, <2>1, FiniteFacts
  <2>. QED
    BY <1>0, <1>2, <2>1, <2>2, <2>3, <2>4, CapacityAssumption
<1>13. ASSUME NEW l \in Lease, NEW k \in Leaf, Call(l, k) PROVE Counted
  <2>1. Out' = Out /\ Living' = Living /\ active' = active
    BY <1>13 DEF Call, Out, Living, Alive
  <2>2. op' = [op EXCEPT ![l][k] = [at |-> "chained", charged |-> MustQueue(l)]]
    BY <1>13 DEF Call
  <2>3. \A m \in Lease, j \in Leaf : ~(m = l /\ j = k) => op'[m][j] = op[m][j]
    BY <1>0, <2>2
  <2>4. ~op[l][k].charged
    BY <1>13 DEF Call, IInv, LeafInv
  <2>5. op'[l][k].charged = MustQueue(l)
    <3>1. op'[l][k] = [at |-> "chained", charged |-> MustQueue(l)]
      BY <1>0, <2>2
    <3>. QED
      BY <3>1
  <2>6. CASE MustQueue(l)
    <3>1. op'[l][k].charged
      BY <2>5, <2>6, Zenon
    <3>2. Charges' = Charges \union {<<l, k>>} /\ <<l, k>> \notin Charges
      BY <2>3, <2>4, <3>1 DEF Charges
    <3>3. Cardinality(Charges') = Cardinality(Charges) + 1
      BY <1>2, <3>2, FS_AddElement
    <3>4. held' = held + 1 /\ held < MaxActive + MaxWaiters
      BY <1>13, <2>6 DEF Call, Capacity
    <3>. QED
      BY <1>0, <1>2, <2>1, <3>3, <3>4, CapacityAssumption
  <2>7. CASE ~MustQueue(l)
    <3>1. ~op'[l][k].charged
      BY <2>5, <2>7, Zenon
    <3>2. Charges' = Charges
      BY <2>3, <2>4, <3>1 DEF Charges
    <3>3. held' = held
      BY <1>13, <2>7 DEF Call
    <3>. QED
      BY <1>3, <2>1, <3>2, <3>3
  <2>. QED
    BY <2>6, <2>7
<1>14. ASSUME NEW l \in Lease, NEW k \in Leaf, Settle(l, k) PROVE Counted
  <2>1. Out' = Out /\ Living' = Living /\ active' = active
    BY <1>14 DEF Settle, Out, Living, Alive
  <2>2. ~op'[l][k].charged /\
        \A m \in Lease, j \in Leaf : ~(m = l /\ j = k) => op'[m][j] = op[m][j]
    BY <1>0, <1>14 DEF Settle, NoOp
  <2>3. CASE op[l][k].charged
    <3>1. Charges' = Charges \ {<<l, k>>} /\ <<l, k>> \in Charges
      BY <2>2, <2>3 DEF Charges
    <3>2. Cardinality(Charges') = Cardinality(Charges) - 1
      BY <1>2, <3>1, FS_RemoveElement
    <3>3. Cardinality(Charges') \in Nat
      BY <1>1, <3>1, FiniteFacts
    <3>4. held' = held - 1
      BY <1>14, <2>3 DEF Settle, Refund
    <3>. QED
      BY <1>0, <1>2, <2>1, <3>2, <3>3, <3>4, CapacityAssumption
  <2>4. CASE ~op[l][k].charged
    <3>1. Charges' = Charges
      BY <2>2, <2>4 DEF Charges
    <3>2. held' = held
      BY <1>0, <1>14, <2>4 DEF Settle, Refund
    <3>. QED
      BY <1>3, <2>1, <3>1, <3>2
  <2>. QED
    BY <2>3, <2>4
<1>15. ASSUME UNCHANGED vars PROVE Counted
  <2>1. held' = held /\ active' = active /\ lease' = lease /\ op' = op
    BY <1>15 DEF vars
  <2>2. Out' = Out /\ Living' = Living /\ Charges' = Charges
    BY <2>1 DEF Out, Living, Alive, Charges
  <2>. QED
    BY <1>3, <2>1, <2>2
<1>. HIDE DEF Counted
<1>16. ASSUME Next PROVE Counted
  BY <1>4, <1>5, <1>6, <1>8, <1>9, <1>10, <1>11, <1>12, <1>13, <1>14, <1>16, Zenon
  DEF Next
<1>17. Counted
  BY <1>15, <1>16
<1>. QED
  BY <1>17 DEF Counted, CapacityAccounted, Out, Living
-----------------------------------------------------------------------------
(* The queue holds who waits, once.                                        *)
LEMMA QueueStep ==
  ASSUME IInv, [Next]_vars
  PROVE  QueueInv' /\ waiting' \in Seq(Lease) /\ lease' \in [Lease -> Stage]
<1>. USE DEF gate
<1>0. /\ TypeOK /\ QueueInv /\ waiting \in Seq(Lease) /\ lease \in [Lease -> Stage]
      /\ Len(waiting) \in Nat /\ DOMAIN waiting = 1 .. Len(waiting)
  BY LenProperties DEF IInv, TypeOK
<1>. DEFINE Kept == QueueInv' /\ waiting' \in Seq(Lease) /\ lease' \in [Lease -> Stage]
<1>1. ASSUME waiting' = waiting, lease' \in [Lease -> Stage],
             \A l \in Lease : lease'[l] = "waiting" <=> lease[l] = "waiting"
      PROVE  Kept
  <2>1. \A i \in DOMAIN waiting : waiting[i] \in Lease
    BY <1>0, ElementOfSeq
  <2>. QED
    BY <1>0, <1>1, <2>1 DEF QueueInv
<1>2. ASSUME NEW l \in Lease,
             \/ Reserve(l) \/ Forgo(l) \/ EndWork(l) \/ Release(l) \/ Turn(l)
             \/ EndLeaf(l) \/ \E k \in Leaf : Call(l, k) \/ LeafTimeout(l, k) \/ Settle(l, k)
      PROVE  Kept
  BY <1>0, <1>1, <1>2 DEF Reserve, Forgo, EndWork, Release, Turn, EndLeaf, Call,
     LeafTimeout, Settle, Stage
<1>3. ASSUME NEW l \in Lease, Run(l) PROVE Kept
  <2>0. lease[l] = "reserved"
    BY <1>3 DEF Run
  <2>1. CASE waiting' = waiting /\ lease' # [lease EXCEPT ![l] = "waiting"]
    <3>. lease' = [lease EXCEPT ![l] = "over"] \/ lease' = [lease EXCEPT ![l] = "running"]
      BY <1>3, <2>1 DEF Run
    <3>. QED
      BY <1>0, <1>1, <2>0, <2>1 DEF Stage
  <2>2. CASE waiting' = Append(waiting, l) /\ lease' = [lease EXCEPT ![l] = "waiting"]
    <3>1. /\ waiting' = Append(waiting, l) /\ lease' = [lease EXCEPT ![l] = "waiting"]
          /\ lease[l] = "reserved"
      BY <2>0, <2>2
    <3>2. /\ waiting' \in Seq(Lease) /\ Len(waiting') = Len(waiting) + 1
          /\ \A i \in 1 .. Len(waiting) : waiting'[i] = waiting[i]
          /\ waiting'[Len(waiting) + 1] = l
      BY <1>0, <3>1, AppendProperties
    <3>3. DOMAIN waiting' = 1 .. Len(waiting) + 1
      BY <3>2, LenProperties
    <3>4. \A i \in 1 .. Len(waiting) : waiting[i] # l /\ waiting[i] \in Lease
      BY <1>0, <3>1, ElementOfSeq DEF QueueInv
    <3>5. \A m \in Lease : lease'[m] = IF m = l THEN "waiting" ELSE lease[m]
      BY <1>0, <3>1
    <3>6. \A i \in 1 .. Len(waiting) + 1 : i \in 1 .. Len(waiting) \/ i = Len(waiting) + 1
      BY <1>0
    <3>7. \A i \in DOMAIN waiting' : lease'[waiting'[i]] = "waiting"
      BY <1>0, <3>2, <3>3, <3>4, <3>5, <3>6 DEF QueueInv
    <3>8. \A i, j \in DOMAIN waiting' : waiting'[i] = waiting'[j] => i = j
      BY <1>0, <3>2, <3>3, <3>4, <3>6 DEF QueueInv
    <3>9. ASSUME NEW m \in Lease, lease'[m] = "waiting"
          PROVE  \E i \in DOMAIN waiting' : waiting'[i] = m
      <4>1. CASE m = l
        BY <1>0, <3>2, <3>3, <4>1
      <4>2. CASE m # l
        <5>1. PICK i \in 1 .. Len(waiting) : waiting[i] = m
          BY <1>0, <3>5, <3>9, <4>2 DEF QueueInv
        <5>. QED
          BY <1>0, <3>2, <3>3, <5>1
      <4>. QED
        BY <4>1, <4>2
    <3>. QED
      BY <1>0, <3>1, <3>2, <3>7, <3>8, <3>9 DEF QueueInv, Stage
  <2>3. \/ waiting' = waiting /\ lease' # [lease EXCEPT ![l] = "waiting"]
        \/ waiting' = Append(waiting, l) /\ lease' = [lease EXCEPT ![l] = "waiting"]
    BY <1>0, <1>3 DEF Run
  <2>. QED
    BY <2>1, <2>2, <2>3
<1>4. ASSUME NEW l \in Lease, waiting' = Without(l), lease' \in [Lease -> Stage],
             \A m \in Lease : lease'[m] = "waiting" <=> lease[m] = "waiting" /\ m # l
      PROVE  Kept
  <2>1. /\ waiting' \in Seq(Lease)
        /\ \A i \in DOMAIN waiting' : \E j \in DOMAIN waiting :
             waiting'[i] = waiting[j] /\ waiting[j] # l
        /\ \A i, j \in DOMAIN waiting' : waiting'[i] = waiting'[j] => i = j
        /\ \A j \in DOMAIN waiting : waiting[j] # l =>
             \E i \in DOMAIN waiting' : waiting'[i] = waiting[j]
    BY <1>0, <1>4, WithoutFacts
  <2>2. \A i \in DOMAIN waiting : waiting[i] \in Lease
    BY <1>0, ElementOfSeq
  <2>. QED
    BY <1>0, <1>4, <2>1, <2>2 DEF QueueInv
<1>5. ASSUME NEW l \in Lease, Timeout(l) PROVE Kept
  BY <1>0, <1>4, <1>5 DEF Timeout, Stage
<1>6. ASSUME NEW l \in Lease, AbortSignal(l) PROVE Kept
  BY <1>0, <1>4, <1>6 DEF AbortSignal, Stage
<1>7. ASSUME NEW l \in Lease, Finish(l) PROVE Kept
  <2>1. CASE Woken = << >>
    BY <1>0, <1>1, <1>7, <2>1 DEF Finish, Stage
  <2>2. CASE Woken # << >>
    <3>1. Woken = waiting /\ waiting # << >>
      BY <2>2 DEF Woken
    <3>2. /\ Head(waiting) \in Lease /\ Head(waiting) = waiting[1]
          /\ Tail(waiting) \in Seq(Lease) /\ Len(Tail(waiting)) = Len(waiting) - 1
          /\ \A i \in 1 .. Len(waiting) - 1 : Tail(waiting)[i] = waiting[i + 1]
      BY <1>0, <3>1, HeadTailProperties
    <3>3. DOMAIN Tail(waiting) = 1 .. Len(waiting) - 1 /\ Len(waiting) >= 1
      BY <1>0, <3>1, <3>2, LenProperties, EmptySeq
    <3>4. /\ waiting' = Tail(waiting) /\ lease[l] = "draining"
          /\ \A m \in Lease : lease'[m] =
               IF m = Head(waiting) THEN "running" ELSE IF m = l THEN "over" ELSE lease[m]
          /\ lease' \in [Lease -> Stage]
      BY <1>0, <1>7, <2>2, <3>1, <3>2 DEF Finish, Stage
    <3>5. ASSUME NEW i \in 1 .. Len(waiting) - 1
          PROVE  /\ Tail(waiting)[i] = waiting[i + 1] /\ i + 1 \in 1 .. Len(waiting)
                 /\ waiting[i + 1] # Head(waiting) /\ waiting[i + 1] # l
                 /\ waiting[i + 1] \in Lease
      <4>1. i + 1 \in 1 .. Len(waiting) /\ 1 \in 1 .. Len(waiting) /\ i + 1 # 1
        BY <1>0, <3>3
      <4>. QED
        BY <1>0, <3>2, <3>4, <4>1, ElementOfSeq DEF QueueInv
    <3>6. \A i \in DOMAIN waiting' : lease'[waiting'[i]] = "waiting"
      BY <1>0, <3>3, <3>4, <3>5 DEF QueueInv
    <3>7. \A i, j \in DOMAIN waiting' : waiting'[i] = waiting'[j] => i = j
      <4>. SUFFICES ASSUME NEW i \in 1 .. Len(waiting) - 1, NEW j \in 1 .. Len(waiting) - 1,
                           waiting[i + 1] = waiting[j + 1]
                    PROVE  i = j
        BY <3>3, <3>4, <3>5
      <4>1. i + 1 = j + 1
        BY <1>0, <3>5 DEF QueueInv
      <4>. QED
        BY <4>1, <1>0
    <3>8. ASSUME NEW m \in Lease, lease'[m] = "waiting"
          PROVE  \E i \in DOMAIN waiting' : waiting'[i] = m
      <4>1. m # Head(waiting) /\ lease[m] = "waiting"
        BY <3>4, <3>8
      <4>2. PICK j \in 1 .. Len(waiting) : waiting[j] = m
        BY <1>0, <4>1 DEF QueueInv
      <4>3. j # 1
        BY <3>2, <4>1, <4>2
      <4>4. j - 1 \in 1 .. Len(waiting) - 1 /\ (j - 1) + 1 = j
        BY <1>0, <4>3
      <4>. QED
        BY <3>3, <3>4, <3>5, <4>2, <4>4
    <3>. QED
      BY <3>2, <3>4, <3>6, <3>7, <3>8 DEF QueueInv
  <2>. QED
    BY <2>1, <2>2
<1>8. ASSUME Close PROVE Kept
  <2>1. /\ waiting' = << >>
        /\ lease' = [m \in Lease |-> IF m \in Rejected THEN "over" ELSE lease[m]]
    BY <1>8 DEF Close
  <2>2. \A m \in Lease : lease[m] = "waiting" => m \in Rejected
    BY <1>0 DEF Rejected, ToSet, QueueInv
  <2>3. \A m \in Lease : lease'[m] # "waiting"
    BY <2>1, <2>2
  <2>4. waiting' \in Seq(Lease) /\ DOMAIN waiting' = {}
    BY <2>1
  <2>. QED
    BY <1>0, <2>1, <2>3, <2>4 DEF QueueInv, Stage
<1>9. ASSUME UNCHANGED vars PROVE Kept
  BY <1>0, <1>1, <1>9 DEF vars
<1>. HIDE DEF Kept
<1>10. ASSUME Next PROVE Kept
  BY <1>2, <1>3, <1>5, <1>6, <1>7, <1>8, <1>10, Zenon DEF Next
<1>11. Kept
  BY <1>9, <1>10
<1>. QED
  BY <1>11 DEF Kept
-----------------------------------------------------------------------------
(* A waiter waits for a slot that is taken.                                *)
LEMMA SlotStep ==
  ASSUME IInv, [Next]_vars
  PROVE  NoSlotIdles'
<1>. USE DEF gate
<1>0. /\ TypeOK /\ QueueInv /\ active \in Nat /\ active <= MaxActive
      /\ waiting \in Seq(Lease)
      /\ waiting # << >> => active = MaxActive /\ ~closed
  BY DEF IInv, TypeOK, CapacityAccounted, NoSlotIdles
<1>1. ASSUME waiting' = waiting, active' = active, closed' = closed
      PROVE  NoSlotIdles'
  BY <1>0, <1>1 DEF NoSlotIdles
<1>2. ASSUME NEW l \in Lease, waiting' = Without(l), active' = active, closed' = closed
      PROVE  NoSlotIdles'
  <2>1. waiting = << >> => Without(l) = << >>
    BY DEF Without
  <2>. QED
    BY <1>0, <1>2, <2>1 DEF NoSlotIdles
<1>3. ASSUME NEW l \in Lease,
             \/ Reserve(l) \/ Forgo(l) \/ EndWork(l) \/ Release(l) \/ Turn(l)
             \/ EndLeaf(l) \/ \E k \in Leaf : Call(l, k) \/ LeafTimeout(l, k) \/ Settle(l, k)
      PROVE  NoSlotIdles'
  BY <1>1, <1>3 DEF Reserve, Forgo, EndWork, Release, Turn, EndLeaf, Call,
     LeafTimeout, Settle
<1>4. ASSUME NEW l \in Lease, Run(l) PROVE NoSlotIdles'
  <2>1. \/ waiting' = waiting /\ active' = active /\ closed' = closed
        \/ waiting' = waiting /\ active < MaxActive
        \/ active >= MaxActive /\ ~closed' /\ active' = active
    BY <1>4 DEF Run
  <2>. QED
    BY <1>0, <1>1, <2>1, CapacityAssumption DEF NoSlotIdles
<1>5. ASSUME NEW l \in Lease, Timeout(l) \/ AbortSignal(l) PROVE NoSlotIdles'
  BY <1>2, <1>5 DEF Timeout, AbortSignal
<1>6. ASSUME NEW l \in Lease, Finish(l) PROVE NoSlotIdles'
  <2>1. CASE Woken = << >>
    <3>. waiting' = << >>
      BY <1>0, <1>6, <2>1 DEF Finish, Woken
    <3>. QED
      BY DEF NoSlotIdles
  <2>2. CASE Woken # << >>
    BY <1>0, <1>6, <2>2 DEF Finish, Woken, NoSlotIdles
  <2>. QED
    BY <2>1, <2>2
<1>7. ASSUME Close PROVE NoSlotIdles'
  BY <1>7 DEF Close, NoSlotIdles
<1>8. ASSUME UNCHANGED vars PROVE NoSlotIdles'
  BY <1>1, <1>8 DEF vars
<1>9. ASSUME Next PROVE NoSlotIdles'
  BY <1>3, <1>4, <1>5, <1>6, <1>7, <1>9, Zenon DEF Next
<1>. QED
  BY <1>8, <1>9
-----------------------------------------------------------------------------
(* What LeafInv says of one owner.                                         *)
Owned(l) ==
  \A k \in Leaf :
    /\ op[l][k].at \in {"chained", "running"} =>
         Alive(l) /\ \E i \in DOMAIN chain[l] : chain[l][i] = k
    /\ op[l][k].at = "running" => chain[l] # << >> /\ Head(chain[l]) = k
    /\ op[l][k].at = "none" => ~op[l][k].charged

(* Unsettled operations stay in the chain of a living owner.               *)
LEMMA LeafStep ==
  ASSUME IInv, [Next]_vars
  PROVE  LeafInv'
<1>. USE DEF gate
<1>0. /\ TypeOK /\ QueueInv
      /\ lease \in [Lease -> Stage] /\ op \in [Lease -> [Leaf -> Op]]
      /\ chain \in [Lease -> Seq(Leaf \union {None})]
      /\ \A l \in Lease : Owned(l)
  BY DEF IInv, TypeOK, LeafInv, Owned
<1>1. ASSUME NEW l \in Lease, op'[l] = op[l], chain'[l] = chain[l],
             Alive(l) => Alive(l)'
      PROVE  Owned(l)'
  BY <1>0, <1>1 DEF Owned
<1>2. ASSUME NEW l \in Lease, NEW S \in SUBSET Leaf, \A k \in S : op[l][k].at = "chained",
             op'[l] = Cancelled(S, l), chain'[l] = Blanked(S, l),
             \/ Alive(l) => Alive(l)'
             \/ \A k \in Leaf : op[l][k].at \notin {"chained", "running"}
      PROVE  Owned(l)'
  <2>1. /\ \A k \in Leaf :
             /\ op'[l][k].charged = op[l][k].charged
             /\ op'[l][k].at = IF k \in S THEN "settling" ELSE op[l][k].at
        /\ DOMAIN chain'[l] = DOMAIN chain[l]
        /\ \A i \in DOMAIN chain[l] : chain'[l][i] =
              IF chain[l][i] \in S THEN None ELSE chain[l][i]
        /\ chain'[l] \in Seq(Leaf \union {None})
    BY <1>0, <1>2, CancelFacts
  <2>2. ASSUME NEW k \in Leaf, op'[l][k].at \in {"chained", "running"}
        PROVE  Alive(l)' /\ \E i \in DOMAIN chain'[l] : chain'[l][i] = k
    <3>1. k \notin S /\ op[l][k].at \in {"chained", "running"}
      BY <2>1, <2>2
    <3>2. Alive(l) /\ \E i \in DOMAIN chain[l] : chain[l][i] = k
      BY <1>0, <3>1 DEF Owned
    <3>. QED
      BY <1>2, <2>1, <3>1, <3>2
  <2>3. ASSUME NEW k \in Leaf, op'[l][k].at = "running"
        PROVE  chain'[l] # << >> /\ Head(chain'[l]) = k
    <3>1. k \notin S /\ op[l][k].at = "running"
      BY <2>1, <2>3
    <3>2. chain[l] # << >> /\ Head(chain[l]) = k
      BY <1>0, <3>1 DEF Owned
    <3>3. 1 \in DOMAIN chain[l] /\ chain[l][1] = k
      BY <1>0, <3>2, ChainFacts, EmptySeq, LenProperties
    <3>4. 1 \in DOMAIN chain'[l] /\ chain'[l][1] = k
      BY <2>1, <3>1, <3>3
    <3>5. chain'[l] # << >>
      BY <3>4
    <3>. QED
      BY <2>1, <3>4, <3>5, HeadTailProperties
  <2>4. ASSUME NEW k \in Leaf, op'[l][k].at = "none"
        PROVE  ~op'[l][k].charged
    BY <1>0, <2>1, <2>4 DEF Owned
  <2>. QED
    BY <2>2, <2>3, <2>4 DEF Owned
<1>3. ASSUME \A l \in Lease : Owned(l)' PROVE LeafInv'
  BY <1>3 DEF Owned, LeafInv
<1>4. ASSUME NEW l \in Lease,
             \/ Reserve(l) \/ Run(l) \/ Forgo(l) \/ Timeout(l) \/ EndWork(l) \/ Release(l)
      PROVE  LeafInv'
  <2>1. op' = op /\ chain' = chain
    BY <1>4 DEF Reserve, Run, Forgo, Timeout, EndWork, Release
  <2>2. \A m \in Lease : Alive(m) => Alive(m)'
    BY <1>0, <1>4 DEF Reserve, Run, Forgo, Timeout, EndWork, Release, Alive
  <2>. QED
    BY <1>1, <1>3, <2>1, <2>2
<1>5. ASSUME NEW l \in Lease, Finish(l) PROVE LeafInv'
  <2>1. op' = op /\ chain' = chain /\ chain[l] = << >>
    BY <1>5 DEF Finish, Drained
  <2>2. \A m \in Lease : m # l => (Alive(m) => Alive(m)')
    BY <1>0, <1>5 DEF Finish, Alive
  <2>3. \A k \in Leaf : op[l][k].at \notin {"chained", "running"}
    BY <1>0, <2>1 DEF Owned
  <2>4. Owned(l)'
    BY <1>0, <2>1, <2>3 DEF Owned
  <2>. QED
    BY <1>1, <1>3, <2>1, <2>2, <2>4
<1>6. ASSUME NEW l \in Lease, AbortSignal(l) PROVE LeafInv'
  <2>1. Queued(l) \in SUBSET Leaf /\ \A k \in Queued(l) : op[l][k].at = "chained"
    BY DEF Queued, Cancellable
  <2>2. /\ op'[l] = Cancelled(Queued(l), l) /\ chain'[l] = Blanked(Queued(l), l)
        /\ \A m \in Lease : m # l => op'[m] = op[m] /\ chain'[m] = chain[m]
    BY <1>0, <1>6 DEF AbortSignal
  <2>3. \A m \in Lease : Alive(m) => Alive(m)'
    BY <1>0, <1>6 DEF AbortSignal, Alive
  <2>4. Owned(l)'
    BY <1>2, <2>1, <2>2, <2>3
  <2>. QED
    BY <1>1, <1>3, <2>2, <2>3, <2>4
<1>7. ASSUME Close PROVE LeafInv'
  <2>1. ASSUME NEW l \in Lease PROVE Owned(l)'
    <3>1. Queued(l) \in SUBSET Leaf /\ \A k \in Queued(l) : op[l][k].at = "chained"
      BY DEF Queued, Cancellable
    <3>2. /\ op'[l] = Cancelled(Queued(l), l) /\ chain'[l] = Blanked(Queued(l), l)
          /\ lease'[l] = IF l \in Rejected THEN "over" ELSE lease[l]
      BY <1>7 DEF Close
    <3>3. l \in Rejected => lease[l] = "waiting"
      BY <1>0 DEF Rejected, ToSet, QueueInv
    <3>. QED
      BY <1>2, <3>1, <3>2, <3>3 DEF Alive
  <2>. QED
    BY <1>3, <2>1
<1>8. ASSUME NEW l \in Lease, NEW k \in Leaf, LeafTimeout(l, k) PROVE LeafInv'
  <2>1. /\ op'[l] = Cancelled({k}, l) /\ chain'[l] = Blanked({k}, l)
        /\ op[l][k].at = "chained"
        /\ \A m \in Lease : m # l => op'[m] = op[m] /\ chain'[m] = chain[m]
        /\ \A m \in Lease : Alive(m) => Alive(m)'
    BY <1>0, <1>8 DEF LeafTimeout, Cancellable, Alive
  <2>2. Owned(l)'
    BY <1>2, <2>1
  <2>. QED
    BY <1>1, <1>3, <2>1, <2>2
<1>9. ASSUME NEW l \in Lease, NEW k \in Leaf, Call(l, k) PROVE LeafInv'
  <2>1. /\ op'[l] = [op[l] EXCEPT ![k] = [at |-> "chained", charged |-> MustQueue(l)]]
        /\ chain'[l] = Append(chain[l], k)
        /\ lease'[l] = "running" /\ lease' = lease
        /\ \A m \in Lease : m # l => op'[m] = op[m] /\ chain'[m] = chain[m]
    BY <1>0, <1>9 DEF Call
  <2>2. op'[l][k].at = "chained" /\ \A j \in Leaf : j # k => op'[l][j] = op[l][j]
    BY <1>0, <2>1
  <2>3. /\ chain[l] \in Seq(Leaf \union {None}) /\ k \in Leaf \union {None}
        /\ DOMAIN chain[l] = 1 .. Len(chain[l]) /\ Len(chain[l]) \in Nat
    BY <1>0, LenProperties
  <2>4. /\ chain'[l] \in Seq(Leaf \union {None}) /\ Len(chain'[l]) = Len(chain[l]) + 1
        /\ \A i \in 1 .. Len(chain[l]) : chain'[l][i] = chain[l][i]
        /\ chain'[l][Len(chain[l]) + 1] = k
    BY <2>1, <2>3, AppendProperties
  <2>5. DOMAIN chain'[l] = 1 .. Len(chain[l]) + 1
    BY <2>4, LenProperties
  <2>6. ASSUME NEW j \in Leaf, op'[l][j].at \in {"chained", "running"}
        PROVE  Alive(l)' /\ \E i \in DOMAIN chain'[l] : chain'[l][i] = j
    <3>1. CASE j = k
      BY <2>1, <2>3, <2>4, <2>5, <3>1 DEF Alive
    <3>2. CASE j # k
      <4>1. PICK i \in 1 .. Len(chain[l]) : chain[l][i] = j
        BY <1>0, <2>2, <2>3, <2>6, <3>2 DEF Owned
      <4>. QED
        BY <2>1, <2>3, <2>4, <2>5, <4>1 DEF Alive
    <3>. QED
      BY <3>1, <3>2
  <2>7. ASSUME NEW j \in Leaf, op'[l][j].at = "running"
        PROVE  chain'[l] # << >> /\ Head(chain'[l]) = j
    <3>1. j # k /\ op[l][j].at = "running"
      BY <2>2, <2>7
    <3>2. chain[l] # << >> /\ Head(chain[l]) = j
      BY <1>0, <3>1 DEF Owned
    <3>3. 1 \in 1 .. Len(chain[l]) /\ chain[l][1] = j
      BY <1>0, <2>3, <3>2, ChainFacts, EmptySeq
    <3>4. 1 \in DOMAIN chain'[l] /\ chain'[l][1] = j
      BY <2>3, <2>4, <2>5, <3>3
    <3>5. chain'[l] # << >>
      BY <3>4
    <3>. QED
      BY <2>4, <3>4, <3>5, HeadTailProperties
  <2>8. \A j \in Leaf : op'[l][j].at = "none" => ~op'[l][j].charged
    BY <1>0, <2>2 DEF Owned
  <2>9. Owned(l)'
    BY <2>6, <2>7, <2>8 DEF Owned
  <2>. QED
    BY <1>1, <1>3, <2>1, <2>9 DEF Alive
<1>10. ASSUME NEW l \in Lease, chain[l] # << >>, chain'[l] = Tail(chain[l]), lease' = lease,
              \A m \in Lease : m # l => op'[m] = op[m] /\ chain'[m] = chain[m],
              \A j \in Leaf : j # Head(chain[l]) => op'[l][j] = op[l][j],
              Head(chain[l]) \in Leaf => op'[l][Head(chain[l])].at = "settling"
       PROVE  LeafInv'
  <2>1. \A i \in DOMAIN chain[l] : chain[l][i] # Head(chain[l]) =>
          \E j \in DOMAIN Tail(chain[l]) : Tail(chain[l])[j] = chain[l][i]
    BY <1>0, <1>10, ChainFacts
  <2>2. ASSUME NEW j \in Leaf, j # Head(chain[l])
        PROVE  /\ op'[l][j] = op[l][j] /\ op[l][j].at # "running"
               /\ op[l][j].at = "chained" =>
                    Alive(l)' /\ \E i \in DOMAIN chain'[l] : chain'[l][i] = j
               /\ op[l][j].at = "none" => ~op[l][j].charged
    <3>1. /\ op[l][j].at # "running" /\ (op[l][j].at = "none" => ~op[l][j].charged)
          /\ op[l][j].at = "chained" => Alive(l) /\ \E i \in DOMAIN chain[l] : chain[l][i] = j
      BY <1>0, <2>2 DEF Owned
    <3>2. Alive(l)' = Alive(l)
      BY <1>10 DEF Alive
    <3>3. op[l][j].at = "chained" =>
            Alive(l)' /\ \E i \in DOMAIN chain'[l] : chain'[l][i] = j
      BY <1>10, <2>1, <2>2, <3>1, <3>2
    <3>. QED
      BY <1>10, <2>2, <3>1, <3>3
  <2>3. Owned(l)'
    BY <1>10, <2>2 DEF Owned
  <2>. QED
    BY <1>1, <1>3, <1>10, <2>3 DEF Alive
<1>11. ASSUME NEW l \in Lease, EndLeaf(l) PROVE LeafInv'
  <2>1. /\ chain[l] # << >> /\ Head(chain[l]) \in Leaf /\ chain'[l] = Tail(chain[l])
        /\ lease' = lease
        /\ op'[l] = [op[l] EXCEPT ![Head(chain[l])].at = "settling"]
        /\ \A m \in Lease : m # l => op'[m] = op[m] /\ chain'[m] = chain[m]
    BY <1>0, <1>11, ChainFacts DEF EndLeaf
  <2>2. op[l] \in [Leaf -> Op] /\ op[l][Head(chain[l])] \in Op
    BY <1>0, <2>1
  <2>3. op'[l][Head(chain[l])].at = "settling"
    BY <2>1, <2>2 DEF Op
  <2>4. \A j \in Leaf : j # Head(chain[l]) => op'[l][j] = op[l][j]
    BY <2>1, <2>2
  <2>. QED
    BY <1>10, <2>1, <2>3, <2>4
<1>12. ASSUME NEW l \in Lease, Turn(l) PROVE LeafInv'
  <2>. DEFINE k == Head(chain[l])
  <2>1. /\ chain[l] # << >> /\ k \in Leaf \union {None} /\ lease' = lease
        /\ op[l] \in [Leaf -> Op]
    BY <1>0, <1>12, ChainFacts DEF Turn
  <2>2. CASE k = None /\ chain' = [chain EXCEPT ![l] = Tail(@)] /\ op' = op
    BY <1>0, <1>10, <2>1, <2>2, NoneAssumption
  <2>3. CASE /\ k \in Leaf /\ chain' = [chain EXCEPT ![l] = Tail(@)]
             /\ op' = [op EXCEPT ![l][k].at = "settling"]
    <3>1. /\ chain'[l] = Tail(chain[l])
          /\ op'[l] = [op[l] EXCEPT ![k].at = "settling"] /\ op[l][k] \in Op
          /\ \A m \in Lease : m # l => op'[m] = op[m] /\ chain'[m] = chain[m]
      BY <1>0, <2>1, <2>3
    <3>2. op'[l][k].at = "settling" /\ \A j \in Leaf : j # k => op'[l][j] = op[l][j]
      BY <2>1, <2>3, <3>1 DEF Op
    <3>. QED
      BY <1>10, <2>1, <3>1, <3>2
  <2>4. CASE /\ k \in Leaf /\ op[l][k].at = "chained" /\ chain' = chain
             /\ op' = [op EXCEPT ![l][k].at = "running"]
    <3>1. /\ op'[l] = [op[l] EXCEPT ![k].at = "running"] /\ op[l][k] \in Op
          /\ \A m \in Lease : m # l => op'[m] = op[m] /\ chain'[m] = chain[m]
      BY <1>0, <2>1, <2>4
    <3>2. op'[l][k].at = "running" /\ \A j \in Leaf : j # k => op'[l][j] = op[l][j]
      BY <2>1, <2>4, <3>1 DEF Op
    <3>3. Owned(l)'
      BY <1>0, <2>1, <2>4, <3>2 DEF Owned, Alive
    <3>. QED
      BY <1>1, <1>3, <2>1, <3>1, <3>3 DEF Alive
  <2>. QED
    BY <1>12, <2>1, <2>2, <2>3, <2>4 DEF Turn
<1>13. ASSUME NEW l \in Lease, NEW k \in Leaf, Settle(l, k) PROVE LeafInv'
  <2>1. /\ op'[l] = [op[l] EXCEPT ![k] = NoOp] /\ op[l] \in [Leaf -> Op]
        /\ chain' = chain /\ lease' = lease
        /\ \A m \in Lease : m # l => op'[m] = op[m]
    BY <1>0, <1>13 DEF Settle
  <2>2. /\ op'[l][k].at = "none" /\ ~op'[l][k].charged
        /\ \A j \in Leaf : j # k => op'[l][j] = op[l][j]
    BY <2>1 DEF NoOp
  <2>3. Owned(l)'
    BY <1>0, <2>1, <2>2 DEF Owned, Alive
  <2>. QED
    BY <1>1, <1>3, <2>1, <2>3 DEF Alive
<1>14. ASSUME UNCHANGED vars PROVE LeafInv'
  BY <1>0, <1>1, <1>3, <1>14 DEF vars, Alive
<1>15. ASSUME Next PROVE LeafInv'
  BY <1>4, <1>5, <1>6, <1>7, <1>8, <1>9, <1>11, <1>12, <1>13, <1>15, Zenon DEF Next
<1>. QED
  BY <1>14, <1>15
-----------------------------------------------------------------------------
(* The types the steps above leave open.                                   *)
LEMMA TypeStep ==
  ASSUME IInv, [Next]_vars
  PROVE  /\ closed' \in BOOLEAN /\ aborted' \in [Lease -> BOOLEAN]
         /\ op' \in [Lease -> [Leaf -> Op]]
         /\ chain' \in [Lease -> Seq(Leaf \union {None})]
<1>. USE DEF gate
<1>. DEFINE Typed == /\ closed' \in BOOLEAN /\ aborted' \in [Lease -> BOOLEAN]
                     /\ op' \in [Lease -> [Leaf -> Op]]
                     /\ chain' \in [Lease -> Seq(Leaf \union {None})]
<1>0. /\ TypeOK /\ closed \in BOOLEAN /\ aborted \in [Lease -> BOOLEAN]
      /\ op \in [Lease -> [Leaf -> Op]]
      /\ chain \in [Lease -> Seq(Leaf \union {None})]
  BY DEF IInv, TypeOK
<1>1. ASSUME NEW l \in Lease,
             \/ Reserve(l) \/ Run(l) \/ Forgo(l) \/ Timeout(l) \/ EndWork(l)
             \/ Finish(l) \/ Release(l)
      PROVE  Typed
  BY <1>0, <1>1 DEF Reserve, Run, Forgo, Timeout, EndWork, Finish, Release
<1>2. ASSUME NEW l \in Lease, NEW S \in SUBSET Leaf
      PROVE  Cancelled(S, l) \in [Leaf -> Op] /\ Blanked(S, l) \in Seq(Leaf \union {None})
  BY <1>0, CancelFacts
<1>3. ASSUME NEW l \in Lease, AbortSignal(l) PROVE Typed
  <2>1. Queued(l) \in SUBSET Leaf
    BY DEF Queued
  <2>. QED
    BY <1>0, <1>2, <1>3, <2>1 DEF AbortSignal
<1>4. ASSUME Close PROVE Typed
  <2>1. \A l \in Lease : Queued(l) \in SUBSET Leaf
    BY DEF Queued
  <2>. QED
    BY <1>0, <1>2, <1>4, <2>1 DEF Close
<1>5. ASSUME NEW l \in Lease, NEW k \in Leaf, LeafTimeout(l, k) PROVE Typed
  BY <1>0, <1>2, <1>5 DEF LeafTimeout
<1>6. ASSUME NEW l \in Lease, NEW k \in Leaf, Call(l, k) PROVE Typed
  <2>1. [at |-> "chained", charged |-> MustQueue(l)] \in Op
    <3>1. MustQueue(l) \in BOOLEAN
      BY DEF MustQueue
    <3>. QED
      BY <3>1 DEF Op, OpAt
  <2>2. Append(chain[l], k) \in Seq(Leaf \union {None})
    BY <1>0, AppendProperties
  <2>. QED
    BY <1>0, <1>6, <2>1, <2>2 DEF Call
<1>7. ASSUME NEW l \in Lease, NEW k \in Leaf
      PROVE  /\ [op[l][k] EXCEPT !.at = "settling"] \in Op
             /\ [op[l][k] EXCEPT !.at = "running"] \in Op
  <2>1. op[l][k] \in Op
    BY <1>0
  <2>. QED
    BY <2>1 DEF Op, OpAt
<1>8. ASSUME NEW l \in Lease, Turn(l) \/ EndLeaf(l) PROVE Typed
  <2>1. /\ chain[l] # << >> /\ Head(chain[l]) \in Leaf \union {None}
        /\ Tail(chain[l]) \in Seq(Leaf \union {None})
    BY <1>0, <1>8, ChainFacts DEF Turn, EndLeaf
  <2>2. chain' \in [Lease -> Seq(Leaf \union {None})] /\ closed' = closed /\ aborted' = aborted
    BY <1>0, <1>8, <2>1 DEF Turn, EndLeaf
  <2>3. \/ op' = op
        \/ \E k \in Leaf : \/ op' = [op EXCEPT ![l][k].at = "settling"]
                           \/ op' = [op EXCEPT ![l][k].at = "running"]
    BY <1>8, <2>1 DEF Turn, EndLeaf
  <2>4. ASSUME NEW k \in Leaf, NEW a \in {"settling", "running"},
               op' = [op EXCEPT ![l][k].at = a]
        PROVE  op' \in [Lease -> [Leaf -> Op]]
    <3>1. op[l] \in [Leaf -> Op] /\ [op[l][k] EXCEPT !.at = a] \in Op
      BY <1>0, <1>7
    <3>2. [op[l] EXCEPT ![k] = [op[l][k] EXCEPT !.at = a]] \in [Leaf -> Op]
      BY <3>1
    <3>. QED
      BY <1>0, <2>4, <3>2
  <2>5. op' \in [Lease -> [Leaf -> Op]]
    BY <1>0, <2>3, <2>4
  <2>. QED
    BY <1>0, <2>2, <2>5
<1>9. ASSUME NEW l \in Lease, NEW k \in Leaf, Settle(l, k) PROVE Typed
  BY <1>0, <1>9 DEF Settle, NoOp, Op, OpAt
<1>10. ASSUME UNCHANGED vars PROVE Typed
  BY <1>0, <1>10 DEF vars
<1>. HIDE DEF Typed
<1>11. ASSUME Next PROVE Typed
  BY <1>1, <1>3, <1>4, <1>5, <1>6, <1>8, <1>9, <1>11, Zenon DEF Next
<1>12. Typed
  BY <1>10, <1>11
<1>. QED
  BY <1>12 DEF Typed

(* What runs is the head of the chain: one operation at most.              *)
LEMMA LeafWork == LeafInv => LeafWorkIsOwned
<1>. SUFFICES ASSUME LeafInv, NEW l \in Lease
              PROVE  /\ Cardinality({k \in Leaf : op[l][k].at = "running"}) <= 1
                     /\ (\E k \in Leaf : op[l][k].at \in {"chained", "running"}) => Alive(l)
  BY DEF LeafWorkIsOwned
<1>. DEFINE R == {k \in Leaf : op[l][k].at = "running"}
<1>0. (\E k \in Leaf : op[l][k].at \in {"chained", "running"}) => Alive(l)
  BY DEF LeafInv
<1>1. CASE R = {}
  BY <1>0, <1>1, FS_EmptySet
<1>2. CASE R # {}
  <2>1. PICK k \in R : TRUE
    BY <1>2
  <2>2. R = {k}
    BY <2>1 DEF LeafInv
  <2>3. Cardinality({k}) = 1
    BY FS_Singleton
  <2>. QED
    BY <1>0, <2>2, <2>3
<1>. QED
  BY <1>1, <1>2

(* Nothing is out, nothing waits.                                          *)
LEMMA InitHolds == Init => IInv
<1>. SUFFICES ASSUME Init PROVE IInv
  OBVIOUS
<1>1. TypeOK
  <2>1. << >> \in Seq(Lease) /\ << >> \in Seq(Leaf \union {None})
    BY EmptySeq
  <2>2. NoOp \in Op
    BY DEF NoOp, Op, OpAt
  <2>. QED
    BY <2>1, <2>2 DEF Init, TypeOK, Stage
<1>2. Out = {} /\ Living = {} /\ Charges = {}
  BY DEF Init, Out, Living, Alive, Charges, NoOp
<1>3. QueueInv
  BY DEF Init, QueueInv
<1>4. LeafInv
  BY DEF Init, LeafInv, NoOp
<1>5. NoSlotIdles
  BY DEF Init, NoSlotIdles
<1>6. CapacityAccounted
  BY <1>2, CountsAre, FS_EmptySet, CapacityAssumption DEF Init
<1>. QED
  BY <1>1, <1>3, <1>4, <1>5, <1>6, LeafWork DEF IInv

(* The strengthening is inductive: the counters of services/               *)
(* photoUploadAdmission.ts are right because the queue holds who waits     *)
(* and the chain holds who works.                                          *)
THEOREM Inductive == Spec => []IInv
<1>1. IInv /\ [Next]_vars => IInv'
  <2>. SUFFICES ASSUME IInv, [Next]_vars PROVE IInv'
    OBVIOUS
  <2>1. LeafInv' => LeafWorkIsOwned'
    BY LeafWork, PTL
  <2>. QED
    BY <2>1, CountStep, QueueStep, SlotStep, LeafStep, TypeStep DEF IInv, TypeOK
<1>. QED
  BY <1>1, InitHolds, PTL DEF Spec

(* The gate's state is always of its type.                                 *)
THEOREM TypeCorrect == Spec => []TypeOK
<1>1. IInv => TypeOK
  BY DEF IInv
<1>. QED
  BY <1>1, Inductive, PTL

(* reserve, run, finish, release and operation: for any number of requests *)
(* and any capacity, what the gate counts is what is out, on every path,   *)
(* and neither the slots nor the reservations are ever exceeded.           *)
THEOREM CountersExact == Spec => []CapacityAccounted
<1>1. IInv => CapacityAccounted
  BY DEF IInv
<1>. QED
  BY <1>1, Inductive, PTL

(* operation and finish: native work of one request never overlaps and     *)
(* never outlives the slot of its owner.                                   *)
THEOREM WorkIsOwned == Spec => []LeafWorkIsOwned
<1>1. IInv => LeafWorkIsOwned
  BY DEF IInv
<1>. QED
  BY <1>1, Inductive, PTL

(* run and finish: nobody gets a slot before those who wait for one.       *)
THEOREM QueueIsFair == Spec => FirstComeFirstServed
<1>1. IInv /\ [Next]_vars =>
        [\A l \in Lease : lease[l] # "running" /\ lease'[l] = "running" =>
           waiting = << >> \/ l = Head(waiting)]_vars
  <2>. SUFFICES ASSUME IInv, Next, NEW l \in Lease,
                       lease[l] # "running", lease'[l] = "running", waiting # << >>
                PROVE  l = Head(waiting)
    OBVIOUS
  <2>0. /\ lease \in [Lease -> Stage] /\ active = MaxActive /\ active \in Nat
    BY DEF IInv, TypeOK, NoSlotIdles
  <2>1. \A m \in Lease : Reserve(m) \/ Forgo(m) \/ Timeout(m) \/ AbortSignal(m)
          \/ EndWork(m) \/ Release(m) => FALSE
    BY <2>0 DEF Reserve, Forgo, Timeout, AbortSignal, EndWork, Release
  <2>2. \A m \in Lease : ~Run(m)
    BY <2>0 DEF Run
  <2>3. ~Close /\ \A m \in Lease : ~Turn(m) /\ ~EndLeaf(m)
    BY DEF Close, Turn, EndLeaf
  <2>4. \A m \in Lease, k \in Leaf : ~Call(m, k) /\ ~LeafTimeout(m, k) /\ ~Settle(m, k)
    BY DEF Call, LeafTimeout, Settle
  <2>5. PICK m \in Lease : Finish(m)
    BY <2>1, <2>2, <2>3, <2>4, Zenon DEF Next
  <2>. QED
    BY <2>0, <2>5 DEF Finish, Woken
<1>. QED
  BY <1>1, Inductive, PTL DEF Spec, FirstComeFirstServed
=============================================================================
