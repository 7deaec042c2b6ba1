-------------------------- MODULE UploadAdmission --------------------------
(***************************************************************************)
(* The admission of photo work (services/photoUploadAdmission.ts): a gate  *)
(* that bounds image processing in the API process.  A request holds a     *)
(* lease from before its body is read (routes/productPhotoUpload.ts) until *)
(* its work has physically settled; leaf operations of one request are     *)
(* serialized on its owner, and one that has to wait is charged to the     *)
(* same global capacity.  The code is single-threaded: a step is the code  *)
(* between two awaits, a timer or an abort event.                          *)
(***************************************************************************)
EXTENDS Naturals, Sequences, FiniteSets, SequencesExt

CONSTANTS
  Lease,      \* requests that may hold a lease at once, ids reused
  Leaf,       \* leaf operations one request may have in flight
  MaxActive,  \* options.active (1)
  MaxWaiters, \* options.waiters (2)
  MaxChain,   \* bound: entries of a chain, dead ones included
  None        \* a cancelled entry of a chain

ASSUME CapacityAssumption ==
  MaxActive \in Nat \ {0} /\ MaxWaiters \in Nat /\ MaxChain \in Nat
ASSUME NoneAssumption == None \notin Leaf
ASSUME FiniteAssumption == IsFiniteSet(Lease) /\ IsFiniteSet(Leaf)

VARIABLES
  closed,   \* the gate refuses everything new
  held,     \* leases and charged leaf operations not released
  active,   \* leases whose work runs
  lease,    \* where each lease is
  waiting,  \* the leases waiting for a slot, first come first served
  aborted,  \* the request's signal is aborted
  op,       \* the leaf operations of each owner
  chain     \* owner.tail: the leaf tasks of each owner in call order

gate == <<closed, held, active, waiting>>
vars == <<gate, lease, aborted, op, chain>>

Stage == {"free", "reserved", "waiting", "running", "draining", "over"}
OpAt  == {"none", "chained", "running", "settling"}
Op    == [at : OpAt, charged : BOOLEAN]
NoOp  == [at |-> "none", charged |-> FALSE]

Alive(l)   == lease[l] \in {"running", "draining"}
Pending(l) == {k \in Leaf : op[l][k].at # "none"}
Cancellable(o) == o.at = "chained" /\ o.charged

Capacity == held < MaxActive + MaxWaiters

Init ==
  /\ closed = FALSE
  /\ held = 0
  /\ active = 0
  /\ lease = [l \in Lease |-> "free"]
  /\ waiting = << >>
  /\ aborted = [l \in Lease |-> FALSE]
  /\ op = [l \in Lease |-> [k \in Leaf |-> NoOp]]
  /\ chain = [l \in Lease |-> << >>]
-----------------------------------------------------------------------------
(***************************************************************************)
(* Leases.                                                                 *)
(***************************************************************************)
\* reserve, before anything of the request is read.
Reserve(l) ==
  /\ lease[l] = "free" /\ Pending(l) = {}
  /\ ~closed /\ Capacity
  /\ held' = held + 1
  /\ lease' = [lease EXCEPT ![l] = "reserved"]
  /\ aborted' = [aborted EXCEPT ![l] = FALSE]
  /\ UNCHANGED <<closed, active, waiting, op, chain>>

\* run: refused, started at once, or queued.
Run(l) ==
  /\ lease[l] = "reserved"
  /\ \/ /\ aborted[l] \/ closed
        /\ lease' = [lease EXCEPT ![l] = "over"]
        /\ UNCHANGED <<active, waiting>>
     \/ /\ ~aborted[l] /\ ~closed /\ active < MaxActive
        /\ lease' = [lease EXCEPT ![l] = "running"]
        /\ active' = active + 1
        /\ UNCHANGED waiting
     \/ /\ ~aborted[l] /\ ~closed /\ active >= MaxActive
        /\ lease' = [lease EXCEPT ![l] = "waiting"]
        /\ waiting' = Append(waiting, l)
        /\ UNCHANGED active
  /\ UNCHANGED <<closed, held, aborted, op, chain>>

\* A lease that is never run: the request failed before its work.
Forgo(l) ==
  /\ lease[l] = "reserved"
  /\ lease' = [lease EXCEPT ![l] = "over"]
  /\ UNCHANGED <<gate, aborted, op, chain>>

\* remove: the queue without l, which is in it once at most.
Without(l) ==
  IF \E i \in DOMAIN waiting : waiting[i] = l
  THEN RemoveAt(waiting, CHOOSE i \in DOMAIN waiting : waiting[i] = l)
  ELSE waiting

\* The queue timer of a waiting lease.
Timeout(l) ==
  /\ lease[l] = "waiting"
  /\ lease' = [lease EXCEPT ![l] = "over"]
  /\ waiting' = Without(l)
  /\ UNCHANGED <<closed, held, active, aborted, op, chain>>

\* Operations that stop waiting: rejected to their caller at once, while a
\* dead entry stays in the chain.
Cancelled(S, l) == [k \in Leaf |->
  IF k \in S THEN [op[l][k] EXCEPT !.at = "settling"] ELSE op[l][k]]
Blanked(S, l) == [i \in DOMAIN chain[l] |->
  IF chain[l][i] \in S THEN None ELSE chain[l][i]]

Queued(l) == {k \in Leaf : Cancellable(op[l][k])}

\* The client goes away: a waiting lease leaves the queue, queued leaf
\* operations are cancelled, running work is not touched.
AbortSignal(l) ==
  /\ lease[l] \in {"reserved", "waiting", "running", "draining"}
  /\ ~aborted[l]
  /\ aborted' = [aborted EXCEPT ![l] = TRUE]
  /\ lease' = IF lease[l] = "waiting" THEN [lease EXCEPT ![l] = "over"] ELSE lease
  /\ waiting' = Without(l)
  /\ op' = [op EXCEPT ![l] = Cancelled(Queued(l), l)]
  /\ chain' = [chain EXCEPT ![l] = Blanked(Queued(l), l)]
  /\ UNCHANGED <<closed, held, active>>

\* The orchestrator returns or throws: no further leaf is accepted.
EndWork(l) ==
  /\ lease[l] = "running"
  /\ lease' = [lease EXCEPT ![l] = "draining"]
  /\ UNCHANGED <<gate, aborted, op, chain>>

\* Mutant: the slot is given back while leaf work runs.
DrainedEarly(l) == TRUE

\* await owner.tail
Drained(l) == chain[l] = << >>

\* The waiters a freed slot is offered to.
Woken == IF closed THEN << >> ELSE waiting

\* finish: the slot passes to the first waiter.
Finish(l) ==
  /\ lease[l] = "draining" /\ Drained(l)
  /\ IF Woken = << >>
     THEN /\ lease' = [lease EXCEPT ![l] = "over"]
          /\ active' = active - 1
          /\ UNCHANGED waiting
     ELSE /\ lease' = [lease EXCEPT ![l] = "over", ![Head(Woken)] = "running"]
          /\ active' = active
          /\ waiting' = Tail(waiting)
  /\ UNCHANGED <<closed, held, aborted, op, chain>>

\* release, in the finally of whoever reserved.
Release(l) ==
  /\ lease[l] = "over"
  /\ held' = held - 1
  /\ lease' = [lease EXCEPT ![l] = "free"]
  /\ UNCHANGED <<closed, active, waiting, aborted, op, chain>>

\* Mutant: the waiters are left to their timers.
RejectedNone == {}

\* The leases close() rejects.
Rejected == ToSet(waiting)

\* close: on SIGTERM, by the alarm of work that takes too long, or when the
\* upload route finds its disk in doubt.
Close ==
  /\ ~closed
  /\ closed' = TRUE
  /\ waiting' = << >>
  /\ lease' = [l \in Lease |-> IF l \in Rejected THEN "over" ELSE lease[l]]
  /\ op' = [l \in Lease |-> Cancelled(Queued(l), l)]
  /\ chain' = [l \in Lease |-> Blanked(Queued(l), l)]
  /\ UNCHANGED <<held, active, aborted>>
-----------------------------------------------------------------------------
(***************************************************************************)
(* Leaf operations.                                                        *)
(***************************************************************************)
\* owner.pending > 0
MustQueue(l) == Pending(l) # {}

\* operation: called by the orchestrator, the first one free of charge.
Call(l, k) ==
  /\ lease[l] = "running" /\ ~closed /\ ~aborted[l]
  /\ op[l][k].at = "none"
  /\ Cardinality(Pending(l)) < MaxActive + MaxWaiters
  /\ MustQueue(l) => Capacity
  /\ Len(chain[l]) < MaxChain
  /\ held' = IF MustQueue(l) THEN held + 1 ELSE held
  /\ op' = [op EXCEPT ![l][k] = [at |-> "chained", charged |-> MustQueue(l)]]
  /\ chain' = [chain EXCEPT ![l] = Append(@, k)]
  /\ UNCHANGED <<closed, active, waiting, lease, aborted>>

Late(l) == closed \/ aborted[l]

\* The task at the head of the chain gets its turn: a cancelled one is
\* skipped, one that comes too late throws.
Turn(l) ==
  /\ chain[l] # << >>
  /\ LET k == Head(chain[l]) IN
     \/ /\ k = None
        /\ chain' = [chain EXCEPT ![l] = Tail(@)]
        /\ UNCHANGED op
     \/ /\ k # None /\ op[l][k].at = "chained" /\ Late(l)
        /\ chain' = [chain EXCEPT ![l] = Tail(@)]
        /\ op' = [op EXCEPT ![l][k].at = "settling"]
     \/ /\ k # None /\ op[l][k].at = "chained" /\ ~Late(l)
        /\ op' = [op EXCEPT ![l][k].at = "running"]
        /\ UNCHANGED chain
  /\ UNCHANGED <<gate, lease, aborted>>

\* The native work settles.
EndLeaf(l) ==
  /\ chain[l] # << >> /\ Head(chain[l]) # None
  /\ op[l][Head(chain[l])].at = "running"
  /\ chain' = [chain EXCEPT ![l] = Tail(@)]
  /\ op' = [op EXCEPT ![l][Head(chain[l])].at = "settling"]
  /\ UNCHANGED <<gate, lease, aborted>>

\* The wait timer of a queued operation.
LeafTimeout(l, k) ==
  /\ Cancellable(op[l][k])
  /\ op' = [op EXCEPT ![l] = Cancelled({k}, l)]
  /\ chain' = [chain EXCEPT ![l] = Blanked({k}, l)]
  /\ UNCHANGED <<gate, lease, aborted>>

\* Mutant: the reservation outlives a cancelled operation.
RefundNone(l, k) == 0

Refund(l, k) == IF op[l][k].charged THEN 1 ELSE 0

\* The finally of operation.
Settle(l, k) ==
  /\ op[l][k].at = "settling"
  /\ held' = held - Refund(l, k)
  /\ op' = [op EXCEPT ![l][k] = NoOp]
  /\ UNCHANGED <<closed, active, waiting, lease, aborted, chain>>

Next ==
  \/ \E l \in Lease :
       \/ Reserve(l) \/ Run(l) \/ Forgo(l) \/ Timeout(l) \/ AbortSignal(l)
       \/ EndWork(l) \/ Finish(l) \/ Release(l) \/ Turn(l) \/ EndLeaf(l)
       \/ \E k \in Leaf : Call(l, k) \/ LeafTimeout(l, k) \/ Settle(l, k)
  \/ Close

Spec == Init /\ [][Next]_vars
-----------------------------------------------------------------------------
Charges == {c \in Lease \X Leaf : op[c[1]][c[2]].charged}

TypeOK ==
  /\ closed \in BOOLEAN
  /\ held \in Nat /\ active \in Nat
  /\ lease \in [Lease -> Stage]
  /\ waiting \in Seq(Lease)
  /\ aborted \in [Lease -> BOOLEAN]
  /\ op \in [Lease -> [Leaf -> Op]]
  /\ chain \in [Lease -> Seq(Leaf \union {None})]

(* reserve, release, operation: on every path (timeout, abort, close, a    *)
(* detached leaf) the counters are exactly what is out, and never exceed   *)
(* the capacity.                                                           *)
CapacityAccounted ==
  /\ held = Cardinality({l \in Lease : lease[l] # "free"}) + Cardinality(Charges)
  /\ held <= MaxActive + MaxWaiters
  /\ active = Cardinality({l \in Lease : Alive(l)})
  /\ active <= MaxActive

(* operation: native work runs one at a time under an owner and never      *)
(* outlives it, so it never runs outside the active leases.                *)
LeafWorkIsOwned ==
  \A l \in Lease :
    /\ Cardinality({k \in Leaf : op[l][k].at = "running"}) <= 1
    /\ (\E k \in Leaf : op[l][k].at \in {"chained", "running"}) => Alive(l)

(* run and finish: a request that asks while others wait does not get past *)
(* them, and a freed slot goes to the one who has waited longest.          *)
FirstComeFirstServed ==
  [][\A l \in Lease : lease[l] # "running" /\ lease'[l] = "running" =>
       waiting = << >> \/ l = Head(waiting)]_vars
-----------------------------------------------------------------------------
(***************************************************************************)
(* The strengthening behind these properties.                              *)
(***************************************************************************)
\* A lease waits exactly while it is in the queue, once.
QueueInv ==
  /\ \A i \in DOMAIN waiting : lease[waiting[i]] = "waiting"
  /\ \A i, j \in DOMAIN waiting : waiting[i] = waiting[j] => i = j
  /\ \A l \in Lease : lease[l] = "waiting" => \E i \in DOMAIN waiting : waiting[i] = l

\* No slot is free while somebody waits, and nobody waits at a closed gate.
NoSlotIdles == waiting # << >> => active = MaxActive /\ ~closed

\* An operation that is not settled is in the chain of a living owner, and
\* the one that runs is at its head.
LeafInv ==
  \A l \in Lease, k \in Leaf :
    /\ op[l][k].at \in {"chained", "running"} =>
         Alive(l) /\ \E i \in DOMAIN chain[l] : chain[l][i] = k
    /\ op[l][k].at = "running" => chain[l] # << >> /\ Head(chain[l]) = k
    /\ op[l][k].at = "none" => ~op[l][k].charged

IInv ==
  /\ TypeOK /\ CapacityAccounted /\ LeafWorkIsOwned
  /\ QueueInv /\ NoSlotIdles /\ LeafInv
-----------------------------------------------------------------------------
(* Microtasks run, the work of a request and native operations settle, and *)
(* every reservation is released in a finally.  Clients, timers and signals *)
(* owe nothing.                                                            *)
Fairness ==
  \A l \in Lease :
    /\ WF_vars(Run(l)) /\ WF_vars(EndWork(l)) /\ WF_vars(Finish(l))
    /\ WF_vars(Release(l)) /\ WF_vars(Turn(l)) /\ WF_vars(EndLeaf(l))
    /\ \A k \in Leaf : WF_vars(Settle(l, k))
LiveSpec == Spec /\ Fairness

(* A waiter leaves the queue, by a slot, its timer or the gate, and the    *)
(* lease of every request comes back.                                      *)
LeasesComeBack == \A l \in Lease : lease[l] # "free" ~> lease[l] = "free"
(* close: in the end the closed gate holds nothing.                        *)
ClosedDrains == closed ~> held = 0
=============================================================================
