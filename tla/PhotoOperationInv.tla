------------------------- MODULE PhotoOperationInv -------------------------
(***************************************************************************)
(* The inductive invariant behind the theorems of PhotoOperation_proofs,   *)
(* one named part per kind of state it relates.  It holds when operators   *)
(* attest only processes that have terminated (TrustedOperator).           *)
(***************************************************************************)
EXTENDS PhotoOperation

\* The executor an intent names is a request that some process handles.
TokenInv ==
  /\ intent.state /= "absent" =>
       intent.token \in Exec /\ pc[intent.token] /= "idle"
  /\ rowLock /= None => intent.state /= "absent"
  /\ \A e \in Exec : pc[e] /= "idle" => where[e] \in Proc

TypeInv == TypeOK /\ TokenInv

\* The row and its history name one current generation.
GenerationInv ==
  /\ op.state = "absent" =>
       /\ intent.state = "absent"
       /\ \A e \in Exec : gens[e] = [no |-> 0, state |-> "none"]
  /\ op.state /= "absent" =>
       /\ op.owner \in Exec
       /\ op.gen >= 1
       /\ gens[op.owner].no = op.gen
       /\ gens[op.owner].state =
            IF op.state = "committed" THEN "committed" ELSE "active"
       /\ \A e \in Exec \ {op.owner} :
            gens[e].no < op.gen /\ gens[e].state \in {"none", "superseded"}

\* The intent follows the operation it authorizes.
IntentInv ==
  /\ AuthorityPinsGeneration
  /\ intent.state /= "absent" => intent.epoch >= 1
  /\ intent.state = "absent" => intent.token = None /\ exits = {}
  /\ op.state = "committed" <=> intent.state = "committed"
  /\ op.state = "committed" => op.seal = intent.seal
  /\ intent.state = "review" => op.state = "review"

\* What an execution may be before it owns anything, and while it prepares.
EarlyInv ==
  \A e \in Exec :
    /\ pc[e] \in {"idle"} \union Claiming \union Preparing =>
         intent.token /= e /\ rowLock /= e /\ art[e] = 1
    /\ pc[e] \in {"idle"} \union Claiming =>
         op.owner /= e /\ gens[e] = [no |-> 0, state |-> "none"]
    /\ pc[e] \in Preparing => mine[e].owner = e /\ gens[e].no = mine[e].gen
    /\ pc[e] \in {"prepare", "seal"} => ~(op.owner = e /\ op.state = "sealed")

\* Who publishes holds the current authority in a living process, and only
\* who publishes has a registered token.
ExecutorInv ==
  \A e \in Exec :
    /\ pc[e] \in Publishing =>
         HoldsIntent(e) /\ mine[e].owner = intent.owner /\ e \in active
    /\ pc[e] \in Running => where[e] \in alive
    /\ e \in active => pc[e] \in Publishing

\* Exit records are of past epochs, or of a current executor that is gone.
ExitInv ==
  \A r \in exits :
    /\ r.epoch <= intent.epoch
    /\ r.epoch = intent.epoch =>
         r.identity = where[intent.token] /\ r.identity \notin alive

\* An open T2 still satisfies what its fence checked.
LockInv ==
  \A e \in Exec :
    /\ rowLock = e =>
         /\ pc[e] \in {"committing", "failed", "crashed"}
         /\ MayCommit(e)
         /\ \A a \in Art : canonical[a] \in Exec
    /\ pc[e] = "committing" => rowLock = e

\* Every linked copy is recorded, anchored and holds the authorized bytes.
FileInv ==
  \A a \in Art : canonical[a] \in Exec =>
    /\ intent.state /= "absent"
    /\ copyRow[a] = canonical[a]
    /\ <<canonical[a], a>> \in staged
    /\ bytes[canonical[a]][a] = intent.seal

\* Progress of the execution that publishes.
ProgressInv ==
  \A e \in Exec :
    /\ pc[e] \in {"record", "link"} =>
         /\ canonical[art[e]] \notin Exec
         /\ bytes[e][art[e]] = mine[e].seal
         /\ <<e, art[e]>> \in staged
    /\ pc[e] = "link" => copyRow[art[e]] = e
    /\ pc[e] = "resolve" => canonical[art[e]] /= None
    /\ pc[e] \in Publishing =>
         \A a \in Art : a < art[e] => canonical[a] \in Exec
    /\ pc[e] \in {"commit", "committing"} =>
         \A a \in Art : canonical[a] \in Exec

\* The photo row exists exactly when the operation is committed.
PhotoInv ==
  /\ op.state = "committed" =>
       /\ \A a \in Art : canonical[a] \in Exec
       /\ \E e \in Exec :
            photos = {[by |-> e, gen |-> op.gen, seal |-> op.seal]}
  /\ op.state /= "committed" => photos = {}

\* Seals name prepared files of the current owner, and review needs evidence.
Damaged == \/ src[op.owner] \in {"rejected", "damaged"}
           \/ \E a \in Art : canonical[a] = Foreign

SealInv ==
  /\ op.seal \in Exec => op.owner = op.seal /\ src[op.seal] /= "none"
  /\ intent.state /= "absent" =>
       intent.seal \in Exec /\ src[intent.seal] /= "none"
  /\ \A e \in Exec :
       /\ pc[e] \in {"idle", "prepare"} \union Claiming => src[e] = "none"
       /\ pc[e] \in {"seal", "intent"} => src[e] /= "none"
       /\ pc[e] = "intent" => mine[e].seal = e
       /\ pc[e] = "review" =>
            Damaged \/ (Legacy(mine[e].seal) /\ where[e] \in Confined)
  /\ op.state = "review" => Damaged \/ LegacyRefused

IInv ==
  /\ TypeInv
  /\ GenerationInv
  /\ IntentInv
  /\ EarlyInv
  /\ ExecutorInv
  /\ ExitInv
  /\ LockInv
  /\ FileInv
  /\ ProgressInv
  /\ PhotoInv
  /\ SealInv
=============================================================================
