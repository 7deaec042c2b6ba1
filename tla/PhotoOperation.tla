--------------------------- MODULE PhotoOperation ---------------------------
(***************************************************************************)
(* The generation-fenced publication protocol of ONE photo operation, as   *)
(* the W2 upload owner drives it: the operation row and its generations    *)
(* (photoOperationAuthority), the publication intent, its executor epochs  *)
(* and exit records (photoPublicationIntents, photoPublicationExecutor),   *)
(* the copy-owned publisher (photoCopyPublisher), and the transaction that *)
(* commits the photo row with the operation (photoOperationCommitFence).   *)
(*                                                                         *)
(* An execution is one handled request.  Each draws fresh random ids: the  *)
(* owner and nonce of the generation it claims, the id of its seal and its *)
(* executor token are all named by the execution itself.                   *)
(***************************************************************************)
EXTENDS Naturals, FiniteSets

CONSTANTS
  Exec,            \* executions (requests for the same operation token)
  Proc,            \* API process incarnations
  Host,            \* machines: one boot and PID namespace each
  HostOf,          \* HostOf[p]: where process p runs
  Confined,        \* processes with PHOTO_PREPARATION_CONFINEMENT=required
  ArtCount,        \* artifacts of the photo (2: main, then thumb)
  None,            \* no execution, no process
  Foreign,         \* a file at a public name that is not the protocol's
  TrustedOperator  \* operators attest only processes that have terminated

ASSUME ConstantsAssumption ==
  /\ None \notin Exec \union Proc
  /\ Foreign \notin Exec \union {None}
  /\ HostOf \in [Proc -> Host]
  /\ Confined \subseteq Proc
  /\ ArtCount \in Nat \ {0}
  /\ TrustedOperator \in BOOLEAN

Art == 1 .. ArtCount

VARIABLES
  op,         \* the photo_operations row
  gens,       \* gens[e]: the photo_operation_generations row owned by e
  seals,      \* seals[e]: generation of the artifact row with seal id e, or 0
  intent,     \* the photo_publication_intents row
  exits,      \* photo_executor_exit_records rows
  copyRow,    \* copyRow[a]: whose copy photo_publication_copies names
  photos,     \* photo rows (each with its promote event) committed
  rowLock,    \* execution whose open T2 holds the operation row lock
  src,        \* src[e]: the private prepared files of the generation of e
  bytes,      \* bytes[e][a]: the seal whose bytes the copy inode of e holds
  staged,     \* <<e, a>>: the staging name of that copy exists
  canonical,  \* canonical[a]: whose inode the public name is, or None
  alive,      \* process incarnations running
  active,     \* activeTokens of all living processes
  where,      \* where[e]: process that handles e
  pc,         \* pc[e]: phase of the execution
  mine,       \* mine[e]: the claim or authority the execution holds locally
  art         \* art[e]: artifact being published

dbVars   == <<op, gens, seals, intent, exits, copyRow, photos, rowLock>>
fileVars == <<src, bytes, staged, canonical>>
execVars == <<alive, active, where, pc, mine, art>>
vars     == <<dbVars, fileVars, execVars>>

-----------------------------------------------------------------------------
(* Phases of an execution and types *)

Claiming   == {"claim", "reclassify", "resume"}
Preparing  == {"prepare", "seal", "intent"}
Publishing == {"publish", "record", "link", "resolve", "review", "commit",
               "committing"}
Running    == Claiming \union Preparing \union Publishing
Stopped    == {"answered", "refused", "fenced", "failed", "crashed"}
Phase      == Running \union Stopped \union {"idle"}

OpStates     == {"absent", "preparing", "sealed", "committed", "review"}
IntentStates == {"absent", "authorized", "committed", "review"}
Owner        == Exec \union {None}

Operation == [state : OpStates, gen : Nat, owner : Owner, seal : Owner,
              lease : BOOLEAN]
Generation == [no : Nat, state : {"none", "active", "superseded", "committed"}]
Intent == [state : IntentStates, gen : Nat, owner : Owner, seal : Owner,
           epoch : Nat, token : Owner]
Authority == [gen : Nat, owner : Owner, seal : Owner, epoch : Nat]

Claimed(e, n) == [gen |-> n, owner |-> e, seal |-> None, epoch |-> 0]
NoAuthority == [gen |-> 0, owner |-> None, seal |-> None, epoch |-> 0]

TypeOK ==
  /\ op \in Operation
  /\ gens \in [Exec -> Generation]
  /\ seals \in [Exec -> Nat]
  /\ intent \in Intent
  /\ exits \subseteq [epoch : Nat, identity : Proc]
  /\ copyRow \in [Art -> Owner]
  /\ photos \subseteq [by : Exec, gen : Nat, seal : Owner]
  /\ rowLock \in Owner
  /\ src \in [Exec -> {"none", "intact", "damaged", "rejected"}]
  /\ bytes \in [Exec -> [Art -> Owner]]
  /\ staged \subseteq Exec \X Art
  /\ canonical \in [Art -> Owner \union {Foreign}]
  /\ alive \subseteq Proc
  /\ active \subseteq Exec
  /\ where \in [Exec -> Proc \union {None}]
  /\ pc \in [Exec -> Phase]
  /\ mine \in [Exec -> Authority]
  /\ art \in [Exec -> Art]

Init ==
  /\ op = [state |-> "absent", gen |-> 0, owner |-> None, seal |-> None,
           lease |-> FALSE]
  /\ gens = [e \in Exec |-> [no |-> 0, state |-> "none"]]
  /\ seals = [e \in Exec |-> 0]
  /\ intent = [state |-> "absent", gen |-> 0, owner |-> None, seal |-> None,
               epoch |-> 0, token |-> None]
  /\ exits = {}
  /\ copyRow = [a \in Art |-> None]
  /\ photos = {}
  /\ rowLock = None
  /\ src = [e \in Exec |-> "none"]
  /\ bytes = [e \in Exec |-> [a \in Art |-> None]]
  /\ staged = {}
  /\ canonical = [a \in Art |-> None]
  /\ alive = Proc
  /\ active = {}
  /\ where = [e \in Exec |-> None]
  /\ pc = [e \in Exec |-> "idle"]
  /\ mine = [e \in Exec |-> NoAuthority]
  /\ art = [e \in Exec |-> 1]

-----------------------------------------------------------------------------
(* Control of an execution.  openPublicationScope gives it one token when    *)
(* it asks for an executor; close() in the finally block releases it after   *)
(* everything awaited has settled, so closing and stopping are one step.     *)

Goto(e, phase) ==
  pc' = [pc EXCEPT ![e] = phase]

Close(e, outcome) ==
  /\ Goto(e, outcome)
  /\ active' = active \ {e}

\* A request arrives at a living process.
Start(e) ==
  /\ pc[e] = "idle"
  /\ \E p \in alive : where' = [where EXCEPT ![e] = p]
  /\ Goto(e, "claim")
  /\ UNCHANGED <<dbVars, fileVars, alive, active, mine, art>>

-----------------------------------------------------------------------------
(* Claim: one transaction under the operation row lock *)

Open == op.state \in {"preparing", "sealed"}

\* claimSteps of a new request token: operation, generation 1, W2 intent.
Create(e) ==
  /\ pc[e] = "claim" /\ rowLock = None
  /\ op.state = "absent"
  /\ op' = [state |-> "preparing", gen |-> 1, owner |-> e, seal |-> None,
            lease |-> TRUE]
  /\ gens' = [gens EXCEPT ![e] = [no |-> 1, state |-> "active"]]
  /\ mine' = [mine EXCEPT ![e] = Claimed(e, 1)]
  /\ Goto(e, "prepare")
  /\ UNCHANGED <<seals, intent, exits, copyRow, photos, rowLock, fileVars,
                 alive, active, where, art>>

\* Faulty variants: without the intent, not of a sealed operation.
MayReclaimUnguarded == Open /\ ~op.lease
MayReclaimPreparing ==
  intent.state /= "authorized" /\ op.state = "preparing" /\ ~op.lease

\* guardedReclaimSteps: never while an intent is authorized.
MayReclaim ==
  /\ intent.state /= "authorized"
  /\ Open
  /\ ~op.lease

\* The active row of the current generation becomes history.
Superseded(f) ==
  IF gens[f].no = op.gen /\ gens[f].state = "active"
  THEN [gens[f] EXCEPT !.state = "superseded"]
  ELSE gens[f]

\* claimExistingOperation after lease expiry: generation + 1.  A reclassifying
\* execution answers 409 and abandons what it claimed.
Reclaim(e) ==
  /\ pc[e] \in {"claim", "reclassify"} /\ rowLock = None
  /\ MayReclaim
  /\ op' = [state |-> "preparing", gen |-> op.gen + 1, owner |-> e,
            seal |-> None, lease |-> TRUE]
  /\ gens' = [f \in Exec |->
                IF f = e THEN [no |-> op.gen + 1, state |-> "active"]
                ELSE Superseded(f)]
  /\ mine' = [mine EXCEPT ![e] = Claimed(e, op.gen + 1)]
  /\ IF pc[e] = "claim"
     THEN Goto(e, "prepare") /\ UNCHANGED active
     ELSE Close(e, "refused")
  /\ UNCHANGED <<seals, intent, exits, copyRow, photos, rowLock, fileVars,
                 alive, where, art>>

\* in-progress: an authorized intent, or a live lease.
FindBusy(e) ==
  /\ pc[e] \in {"claim", "reclassify"} /\ rowLock = None
  /\ intent.state = "authorized" \/ (Open /\ op.lease)
  /\ IF pc[e] = "claim"
     THEN Goto(e, "resume") /\ UNCHANGED active
     ELSE Close(e, "refused")
  /\ UNCHANGED <<dbVars, fileVars, alive, where, mine, art>>

\* committed: the stored photo is the answer; review: 409.
FindTerminal(e) ==
  /\ pc[e] \in {"claim", "reclassify"} /\ rowLock = None
  /\ intent.state /= "authorized"
  /\ \/ op.state = "committed" /\ Close(e, "answered")
     \/ op.state = "review" /\ Close(e, "refused")
  /\ UNCHANGED <<dbVars, fileVars, alive, where, mine, art>>

-----------------------------------------------------------------------------
(* Preparation, seal, T1 *)

\* Generation-private derivatives written, nothing published.
Prepare(e) ==
  /\ pc[e] = "prepare"
  /\ src' = [src EXCEPT ![e] = "intact"]
  /\ Goto(e, "seal")
  /\ UNCHANGED <<dbVars, bytes, staged, canonical, alive, active, where, mine,
                 art>>

\* Faulty variant: no fence.
ReviewUnfenced(m) == op' = [op EXCEPT !.state = "review"]

\* reviewSteps: fenced by generation and nonce, never by the lease.
ReviewOperation(m) ==
  IF Open /\ op.gen = m.gen /\ op.owner = m.owner
  THEN op' = [op EXCEPT !.state = "review"]
  ELSE UNCHANGED op

\* A 400 or 413 from the recipe ends this identity.
RejectInput(e) ==
  /\ pc[e] = "prepare" /\ rowLock = None
  /\ ReviewOperation(mine[e])
  /\ src' = [src EXCEPT ![e] = "rejected"]
  /\ Close(e, "refused")
  /\ UNCHANGED <<gens, seals, intent, exits, copyRow, photos, rowLock, bytes,
                 staged, canonical, alive, where, mine, art>>

\* sealSteps: preparing -> sealed only while this generation holds the lease.
HoldsLease(e) ==
  /\ op.gen = mine[e].gen
  /\ op.owner = mine[e].owner
  /\ op.lease

Seal(e) ==
  /\ pc[e] = "seal" /\ rowLock = None
  /\ IF HoldsLease(e) /\ op.state = "preparing"
     THEN /\ op' = [op EXCEPT !.state = "sealed", !.seal = e]
          /\ seals' = [seals EXCEPT ![e] = mine[e].gen]
          /\ mine' = [mine EXCEPT ![e].seal = e]
          /\ Goto(e, "intent") /\ UNCHANGED active
     ELSE Close(e, "fenced") /\ UNCHANGED <<op, seals, mine>>
  /\ UNCHANGED <<gens, intent, exits, copyRow, photos, rowLock, fileVars,
                 alive, where, art>>

\* Admission of T1: the current sealed generation with a live lease.
MayAuthorize(e) ==
  /\ intent.state = "absent"
  /\ HoldsLease(e)
  /\ op.state = "sealed"
  /\ op.seal = mine[e].seal
  /\ seals[mine[e].seal] = mine[e].gen

\* acquirePublicationIntentSteps.  An existing intent is never this
\* execution's own: its token is fresh.
AcquireIntent(e) ==
  /\ pc[e] = "intent" /\ rowLock = None
  /\ IF MayAuthorize(e)
     THEN /\ intent' = [state |-> "authorized", gen |-> mine[e].gen,
                        owner |-> mine[e].owner, seal |-> mine[e].seal,
                        epoch |-> 1, token |-> e]
          /\ mine' = [mine EXCEPT ![e].epoch = 1]
          /\ active' = active \union {e}
          /\ Goto(e, "publish")
     ELSE Close(e, "fenced") /\ UNCHANGED <<intent, mine>>
  /\ UNCHANGED <<op, gens, seals, exits, copyRow, photos, rowLock, fileVars,
                 alive, where, art>>

-----------------------------------------------------------------------------
(* Resume after authenticated exit: one transaction under the row lock *)

\* Faulty variant: lease expiry as proof.
ProvenByLease(p, token) == ~op.lease

\* authenticateExecutorExit, as process p evaluates it: in its own process the
\* token must be released; another process must be gone from the same machine.
ProvenEnded(p, token) ==
  LET q == where[token]
  IN IF q = p THEN token \notin active
     ELSE HostOf[q] = HostOf[p] /\ q \notin alive

RecordsOf(epoch) == {r \in exits : r.epoch = epoch}

\* An exit of the current executor is on record, or provable now.
MayTransfer(e) ==
  IF RecordsOf(intent.epoch) /= {}
  THEN \A r \in RecordsOf(intent.epoch) : r.identity = where[intent.token]
  ELSE ProvenEnded(where[e], intent.token)

\* transferAfterAuthenticatedExitSteps with transferPublicationAuthoritySteps:
\* the record of epoch n and the move to epoch n + 1 commit together.
Transfer(e) ==
  /\ pc[e] = "resume" /\ rowLock = None
  /\ intent.state = "authorized"
  /\ MayTransfer(e)
  /\ exits' = exits \union
       {[epoch |-> intent.epoch, identity |-> where[intent.token]]}
  /\ intent' = [intent EXCEPT !.epoch = @ + 1, !.token = e]
  /\ mine' = [mine EXCEPT ![e] = [gen |-> intent.gen, owner |-> intent.owner,
                                  seal |-> intent.seal,
                                  epoch |-> intent.epoch + 1]]
  /\ active' = active \union {e}
  /\ Goto(e, "publish")
  /\ UNCHANGED <<op, gens, seals, copyRow, photos, rowLock, fileVars, alive,
                 where, art>>

\* none or blocked: 409 in progress.
StayBlocked(e) ==
  /\ pc[e] = "resume" /\ rowLock = None
  /\ \/ intent.state = "absent"
     \/ intent.state = "authorized" /\ ~MayTransfer(e)
  /\ Close(e, "refused")
  /\ UNCHANGED <<dbVars, fileVars, alive, where, mine, art>>

\* terminal: the intent was settled meanwhile, classify the operation again.
FindSettled(e) ==
  /\ pc[e] = "resume" /\ rowLock = None
  /\ intent.state \in {"committed", "review"}
  /\ Goto(e, "reclassify")
  /\ UNCHANGED <<dbVars, fileVars, alive, active, where, mine, art>>

-----------------------------------------------------------------------------
(* publishAuthorizedArtifacts and publishVerifiedCopy, one artifact a time *)

\* Faulty variant: commits after the first artifact.
MainArtifactOnly(e) == UNCHANGED art /\ Goto(e, "commit")

\* PUBLISHED or ADOPTED: next artifact, then the commit.
NextArtifact(e) ==
  IF art[e] + 1 \in Art
  THEN art' = [art EXCEPT ![e] = @ + 1] /\ Goto(e, "publish")
  ELSE UNCHANGED art /\ Goto(e, "commit")

\* sealedPhotoDevice: a seal has the persistent identity of its file only when
\* a confined process made it, and is legacy otherwise.
Legacy(seal) == where[seal] \notin Confined

\* The process may publish under this seal.
Suited(e) == Legacy(mine[e].seal) <=> where[e] \notin Confined

\* A confined process has no use for a legacy seal and sends it to review.
RefuseLegacy(e) ==
  /\ pc[e] = "publish"
  /\ Legacy(mine[e].seal) /\ where[e] \in Confined
  /\ Goto(e, "review")
  /\ UNCHANGED <<dbVars, fileVars, alive, active, where, mine, art>>

\* assertPublicationStorage: any other cannot prove a persistent one, 503.
RefuseStorage(e) ==
  /\ pc[e] = "publish"
  /\ ~Legacy(mine[e].seal) /\ where[e] \notin Confined
  /\ Close(e, "failed")
  /\ UNCHANGED <<dbVars, fileVars, alive, where, mine, art>>

\* removeOwnStagingData of the artifact of e: all names of a legacy operation
\* but those of the executions to keep, and none of a persistent one.  (An
\* execution that ends inside the copy may have done so as well; it leaves
\* names of copies that have no public name, which no step reads.)
Swept(e, keep) ==
  IF Legacy(mine[e].seal)
  THEN {x \in staged : x[2] /= art[e] \/ x[1] \in keep}
  ELSE staged

\* The public name exists before anything is copied.
FindCanonical(e) ==
  /\ pc[e] = "publish" /\ Suited(e)
  /\ canonical[art[e]] /= None
  /\ Goto(e, "resolve")
  /\ UNCHANGED <<dbVars, fileVars, alive, active, where, mine, art>>

\* What a copy of the sealed file of generation s holds.
SourceBytes(s) == IF src[s] = "intact" THEN s ELSE None

\* hashFd on the publisher's own copy, against the seal.
Verified(copy, seal) == copy = seal

\* Faulty variant: the copy is linked before it is recorded.
CopyUnrecorded(e) ==
  /\ pc[e] = "publish" /\ Suited(e)
  /\ canonical[art[e]] = None
  /\ src[mine[e].seal] = "intact"
  /\ bytes' = [bytes EXCEPT ![e][art[e]] = mine[e].seal]
  /\ staged' = Swept(e, {}) \union {<<e, art[e]>>}
  /\ Goto(e, "link")
  /\ UNCHANGED <<dbVars, src, canonical, alive, active, where, mine, art>>

\* A fresh publisher-owned inode receives the bytes and is verified before it
\* keeps its staging name; SOURCE_MISSING, SOURCE_REPLACED and
\* SNAPSHOT_MISMATCH leave no copy.
CopySealed(e) ==
  /\ pc[e] = "publish" /\ Suited(e)
  /\ canonical[art[e]] = None
  /\ LET copy == SourceBytes(mine[e].seal)
     IN IF Verified(copy, mine[e].seal)
        THEN /\ bytes' = [bytes EXCEPT ![e][art[e]] = copy]
             /\ staged' = Swept(e, {}) \union {<<e, art[e]>>}
             /\ Goto(e, "record")
        ELSE Goto(e, "review") /\ staged' = Swept(e, {}) /\ UNCHANGED bytes
  /\ UNCHANGED <<dbVars, src, canonical, alive, active, where, mine, art>>

\* The whole authority tuple is current.
HoldsIntent(e) ==
  /\ intent.state = "authorized"
  /\ intent.gen = mine[e].gen
  /\ intent.seal = mine[e].seal
  /\ intent.epoch = mine[e].epoch
  /\ intent.token = e

\* A failed attempt drops its own staging copy unless the public name exists.
DropOwnStaging(e) ==
  staged' = IF pc[e] \in {"record", "link"} /\ canonical[art[e]] = None
            THEN Swept(e, {}) \ {<<e, art[e]>>}
            ELSE staged

\* recordPublicationCopySteps: durable before any public name, fenced.
RecordCopy(e) ==
  /\ pc[e] = "record" /\ rowLock = None
  /\ IF HoldsIntent(e)
     THEN /\ copyRow' = [copyRow EXCEPT ![art[e]] = e]
          /\ Goto(e, "link")
          /\ UNCHANGED <<active, staged>>
     ELSE DropOwnStaging(e) /\ Close(e, "fenced") /\ UNCHANGED copyRow
  /\ UNCHANGED <<op, gens, seals, intent, exits, photos, rowLock, src, bytes,
                 canonical, alive, where, mine, art>>

\* link() fails with EEXIST, it never replaces a name.
NameFree(a) == canonical[a] = None

Link(e) ==
  /\ pc[e] = "link"
  /\ IF NameFree(art[e])
     THEN canonical' = [canonical EXCEPT ![art[e]] = e] /\ NextArtifact(e)
     ELSE Goto(e, "resolve") /\ UNCHANGED <<canonical, art>>
  /\ UNCHANGED <<dbVars, src, bytes, staged, alive, active, where, mine>>

\* Faulty variant: only a copy of this very execution.
IsMyCopy(e, a) == canonical[a] = e /\ copyRow[a] = e

\* resolveExisting: exactly the recorded copy, still anchored by its staging
\* name and holding the sealed bytes.
IsOwnCopy(e, a) ==
  /\ canonical[a] \in Exec
  /\ canonical[a] = copyRow[a]
  /\ <<canonical[a], a>> \in staged
  /\ bytes[canonical[a]][a] = mine[e].seal

Resolve(e) ==
  /\ pc[e] = "resolve" /\ rowLock = None
  /\ IF IsOwnCopy(e, art[e])
     THEN staged' = Swept(e, {canonical[art[e]]}) /\ NextArtifact(e)
     ELSE staged' = Swept(e, {}) /\ Goto(e, "review") /\ UNCHANGED art
  /\ UNCHANGED <<dbVars, src, bytes, canonical, alive, active, where, mine>>

\* reviewPublicationIntentSteps, then 409.
ReviewPublication(e) ==
  /\ pc[e] = "review" /\ rowLock = None
  /\ ReviewOperation(mine[e])
  /\ intent' = IF /\ intent.state = "authorized"
                  /\ intent.epoch = mine[e].epoch
                  /\ intent.token = e
               THEN [intent EXCEPT !.state = "review"]
               ELSE intent
  /\ Close(e, "refused")
  /\ UNCHANGED <<gens, seals, exits, copyRow, photos, rowLock, fileVars,
                 alive, where, mine, art>>

-----------------------------------------------------------------------------
(* T2: photo row, promote event and the three fenced updates, together.     *)
(* Between the first fenced update and the end of the transaction its       *)
(* database session holds the row lock, whatever becomes of the client.     *)

MayCommit(e) ==
  /\ op.state = "sealed"
  /\ op.gen = mine[e].gen
  /\ op.owner = mine[e].owner
  /\ op.seal = mine[e].seal
  /\ HoldsIntent(e)
  /\ intent.owner = mine[e].owner
  /\ gens[mine[e].owner] = [no |-> mine[e].gen, state |-> "active"]

RequestCommit(e) ==
  /\ pc[e] = "commit" /\ rowLock = None
  /\ IF MayCommit(e)
     THEN rowLock' = e /\ Goto(e, "committing") /\ UNCHANGED active
     ELSE Close(e, "fenced") /\ UNCHANGED rowLock
  /\ UNCHANGED <<op, gens, seals, intent, exits, copyRow, photos, fileVars,
                 alive, where, mine, art>>

\* The client of the session still waits, or is gone already.
Settle(e, outcome) ==
  IF pc[e] = "committing" THEN Close(e, outcome) ELSE UNCHANGED <<pc, active>>

CommitDone(e) ==
  /\ rowLock = e
  /\ rowLock' = None
  /\ op' = [op EXCEPT !.state = "committed"]
  /\ gens' = [gens EXCEPT ![mine[e].owner].state = "committed"]
  /\ intent' = [intent EXCEPT !.state = "committed"]
  /\ photos' = photos \union
       {[by |-> e, gen |-> mine[e].gen, seal |-> mine[e].seal]}
  /\ Settle(e, "answered")
  /\ UNCHANGED <<seals, exits, copyRow, fileVars, alive, where, mine, art>>

CommitAborted(e) ==
  /\ rowLock = e
  /\ rowLock' = None
  /\ Settle(e, "failed")
  /\ UNCHANGED <<op, gens, seals, intent, exits, copyRow, photos, fileVars,
                 alive, where, mine, art>>

-----------------------------------------------------------------------------
(* Time, failures, operator, and what happens outside the protocol *)

\* Database time passes the lease of the current generation.
ExpireLease ==
  /\ Open /\ op.lease
  /\ op' = [op EXCEPT !.lease = FALSE]
  /\ UNCHANGED <<gens, seals, intent, exits, copyRow, photos, rowLock,
                 fileVars, execVars>>

\* Any awaited call throws: storage errors, a lost database connection (also
\* one whose COMMIT was already sent), an aborted or timed out preparation.
Fail(e) ==
  /\ pc[e] \in Running
  /\ DropOwnStaging(e)
  /\ Close(e, "failed")
  /\ UNCHANGED <<dbVars, src, bytes, canonical, alive, where, mine, art>>

\* A process dies with everything it was doing; its registry is memory.  (One
\* that has had no request may die too: it is as if none ever came to it.)
Crash(p) ==
  /\ p \in alive /\ \E e \in Exec : where[e] = p
  /\ alive' = alive \ {p}
  /\ LET lost == {e \in Exec : where[e] = p /\ pc[e] \in Running}
     IN /\ pc' = [e \in Exec |-> IF e \in lost THEN "crashed" ELSE pc[e]]
        /\ active' = active \ lost
  /\ UNCHANGED <<dbVars, fileVars, where, mine, art>>

\* attestExecutorExit, run on machine h: current epoch and identity, no record
\* yet, refused while the executor is visibly alive there.
Attest(h) ==
  LET q == where[intent.token]
  IN /\ rowLock = None
     /\ intent.state = "authorized"
     /\ RecordsOf(intent.epoch) = {}
     /\ ~(HostOf[q] = h /\ q \in alive)
     /\ TrustedOperator => q \notin alive
     /\ exits' = exits \union {[epoch |-> intent.epoch, identity |-> q]}
     /\ UNCHANGED <<op, gens, seals, intent, copyRow, photos, rowLock,
                    fileVars, execVars>>

\* The sealed private file is lost or changed.
DamageSource(e) ==
  /\ src[e] = "intact"
  /\ src' = [src EXCEPT ![e] = "damaged"]
  /\ UNCHANGED <<dbVars, bytes, staged, canonical, execVars>>

\* Somebody else's file takes the public name.
ForeignFile(a) ==
  /\ canonical[a] = None
  /\ canonical' = [canonical EXCEPT ![a] = Foreign]
  /\ UNCHANGED <<dbVars, src, bytes, staged, execVars>>

-----------------------------------------------------------------------------
Claim(e) == Create(e) \/ Reclaim(e) \/ FindBusy(e) \/ FindTerminal(e)
Work(e) == Prepare(e) \/ Seal(e) \/ AcquireIntent(e)
Resume(e) == Transfer(e) \/ StayBlocked(e) \/ FindSettled(e)
PublishStep(e) == RefuseLegacy(e) \/ RefuseStorage(e) \/ FindCanonical(e)
                    \/ CopySealed(e) \/ RecordCopy(e) \/ Link(e)
                    \/ Resolve(e) \/ ReviewPublication(e)
Finish(e) == CommitDone(e) \/ CommitAborted(e)
Step(e) == Claim(e) \/ Work(e) \/ Resume(e) \/ PublishStep(e)
             \/ RequestCommit(e)

Environment ==
  \/ ExpireLease
  \/ \E e \in Exec : Fail(e) \/ RejectInput(e) \/ DamageSource(e)
  \/ \E p \in Proc : Crash(p)
  \/ \E h \in Host : Attest(h)
  \/ \E a \in Art : ForeignFile(a)

Next == (\E e \in Exec : Start(e) \/ Step(e) \/ Finish(e)) \/ Environment

Spec == Init /\ [][Next]_vars

\* Handlers that run keep running, and a database session that holds a lock
\* ends its transaction; nobody owes a request, a retry, a fault or a failure.
Fairness == \A e \in Exec : WF_vars(Step(e)) /\ WF_vars(Finish(e))

FairSpec == Spec /\ Fairness

-----------------------------------------------------------------------------
(* Properties *)

\* While an intent is authorized its generation is never superseded: the
\* operation stays sealed by the very seal the intent binds (guarded reclaim).
AuthorityPinsGeneration ==
  intent.state = "authorized" =>
    /\ op.state = "sealed"
    /\ op.gen = intent.gen
    /\ op.owner = intent.owner
    /\ op.seal = intent.seal

\* At most one execution acts between T1 and T2, and it is the executor of the
\* current epoch: authority moved to it only after its predecessor had ended.
OneLiveExecutor ==
  \A e \in Exec : pc[e] \in Publishing =>
    /\ HoldsIntent(e)
    /\ where[e] \in alive

\* A committed photo has exactly one row, and every public name carries the
\* bytes sealed by the committed generation in an inode the ledger names.
CommittedIsPublished ==
  /\ op.state = "committed" <=> intent.state = "committed"
  /\ op.state = "committed" => \E e \in Exec :
       photos = {[by |-> e, gen |-> op.gen, seal |-> op.seal]}
  /\ op.state /= "committed" => photos = {}
  /\ op.state = "committed" => \A a \in Art :
       /\ canonical[a] \in Exec
       /\ bytes[canonical[a]][a] = op.seal
       /\ copyRow[a] = canonical[a]
       /\ <<canonical[a], a>> \in staged

\* A public name of the protocol is always recorded and anchored first, so a
\* crash at any point leaves a name its successor adopts.
RecordedBeforeNamed ==
  \A a \in Art : canonical[a] \in Exec =>
    /\ copyRow[a] = canonical[a]
    /\ <<canonical[a], a>> \in staged

\* A legacy seal has come to a confined executor.
LegacyRefused ==
  /\ intent.state = "review"
  /\ Legacy(intent.seal) /\ where[intent.token] \in Confined

\* Crashes, lease expiry, retries and hand-overs alone never push a healthy
\* upload to review, nor does a request that has been superseded: it takes a
\* rejected input or a damaged sealed file of the current generation, a foreign
\* file at a public name, or a change of the confinement mode between the seal
\* and its executor.
ReviewNeedsEvidence ==
  op.state = "review" =>
    \/ src[op.owner] \in {"rejected", "damaged"}
    \/ \E a \in Art : canonical[a] = Foreign
    \/ LegacyRefused

\* Exactly the current generation is live in the history.
OneLiveGeneration ==
  \A e \in Exec : gens[e].state \in {"active", "committed"} <=>
    op.owner = e /\ gens[e].no = op.gen /\ op.state /= "absent"

\* The execution that loses the authority has ended: nothing it started is
\* still running in any process.
TransferAfterExit ==
  [][intent.state = "authorized" /\ intent'.token /= intent.token =>
       /\ pc[intent.token] \in Stopped
       /\ intent'.epoch = intent.epoch + 1
       /\ rowLock = None]_vars

\* A retry that comes after every other request has stopped, and can
\* authenticate the exit of its predecessor, is never told "in progress": it
\* settles the operation, unless it fails, dies or loses its own lease.
Unobstructed(e) ==
  /\ pc[e] = "claim"
  /\ \A f \in Exec \ {e} : pc[f] \in Stopped
  /\ intent.state /= "authorized" => ~op.lease
  /\ intent.state = "authorized" => MayTransfer(e)

RetryConverges ==
  \A e \in Exec : Unobstructed(e) ~>
    \/ op.state \in {"committed", "review"}
    \/ pc[e] \in {"failed", "crashed", "fenced"}

\* How far the operation is, who may act, and what each public name holds.
Progress == CASE op.state = "absent" -> "none"
              [] op.state \in {"committed", "review"} -> op.state
              [] Open /\ intent.state = "authorized" -> "authorized"
              [] Open /\ intent.state /= "authorized" -> "open"
Handled == {e \in Exec : pc[e] \in Running}
NameKind(a) == CASE canonical[a] = None -> "none"
                 [] canonical[a] = Foreign -> "foreign"
                 [] OTHER -> IF bytes[canonical[a]][a] = op.seal
                             THEN "sealed" ELSE "damaged"

Abstract == INSTANCE PublishOnce WITH
  status  <- Progress,
  holder  <- intent.token,
  running <- Handled,
  files   <- [a \in Art |-> NameKind(a)],
  photos  <- {r.by : r \in photos}

\* The protocol implements the promise of PublishOnce.
PublishesOnce == Abstract!ASpec
=============================================================================
