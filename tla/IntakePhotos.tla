---------------------------- MODULE IntakePhotos ----------------------------
(***************************************************************************)
(* The photos of one AI intake and of the product it became, as rows and   *)
(* as files (photo ownership fencing off).  An upload saves a private file *)
(* and then its staged row (services/aiIntakePhotos.ts); finalization      *)
(* writes a canonical file per staged photo, under a name derived from it, *)
(* and then the product's photo rows in one transaction (services/         *)
(* aiIntakePhotoFinalization.ts); a cleanup (use-cases/ai-intake-cleanup/  *)
(* useCases.ts) deletes staged rows whose retention is over and sweeps     *)
(* files no row claims.  Nothing locks the files: the cleanup looks at     *)
(* rows and ages one await after the other, and deletes later.             *)
(***************************************************************************)
EXTENDS Naturals, FiniteSets

CONSTANTS
  Photo,       \* uploads, each with its staged id and storage key
  Finalizer,   \* concurrent finalization requests, reused
  Cleaner,     \* concurrent cleanup runs, reused
  ImageAdmission,    \* images are staged on disk and admitted (off by default)
  ExecutionEnabled,  \* AI_INTAKE_CLEANUP_EXECUTION_ENABLED (off by default)
  MaxExamined,       \* per root: of these files, how many a walk gets to see
  Faulty,            \* bound: uploads whose writes or acknowledgements may fail
  MaxRestarts        \* bound: restarts of the process

Root == {"private", "canonical"}

ASSUME IntakeAssumption ==
  /\ ImageAdmission \in BOOLEAN /\ ExecutionEnabled \in BOOLEAN
  /\ MaxExamined \in [Root -> Nat]
  /\ MaxRestarts \in Nat

VARIABLES
  intake,    \* ai_product_intakes.status
  staged,    \* the rows of ai_intake_photos
  photos,    \* the rows of product_photos
  events,    \* open outbox events of a product photo
  file,      \* the files of the two roots
  fresh,     \* files last written since the process started (mtime)
  upload,    \* where each upload is
  unacked,   \* staged rows whose insert was reported to have failed
  removing,  \* private files a request or run will remove after its commit
  fin,       \* the finalization requests
  clean,     \* the cleanup runs
  doubled,   \* canonical files that were opened for writing over another write
  restarts   \* restarts so far

rows == <<intake, staged, photos, events>>
vars == <<rows, file, fresh, upload, unacked, removing, fin, clean, doubled,
          restarts>>

File         == Root \X Photo
Private(p)   == <<"private", p>>
Canonical(p) == <<"canonical", p>>

\* Which one comes next is an order of rows or of directory entries.
AnyOf(S) == CHOOSE x \in S : TRUE

Idle     == [at |-> "idle", manifest |-> {}, todo |-> {}]
Begin(r) == [root |-> r, at |-> "walk", left |-> {}]

Init ==
  /\ intake = "open"
  /\ staged = {} /\ photos = {} /\ events = {}
  /\ file = [x \in File |-> "none"]
  /\ fresh = {}
  /\ upload = [p \in Photo |-> "none"]
  /\ unacked = {} /\ removing = {}
  /\ fin = [f \in Finalizer |-> Idle]
  /\ clean = [c \in Cleaner |-> Begin("private")]
  /\ doubled = {}
  /\ restarts = 0

Written(x, state) ==
  /\ file' = [file EXCEPT ![x] = state]
  /\ fresh' = IF state = "none" THEN fresh \ {x} ELSE fresh \union {x}
-----------------------------------------------------------------------------
(***************************************************************************)
(* The intake and its staged photos.                                       *)
(***************************************************************************)
\* The intake becomes a product, or is cancelled.
Resolve ==
  /\ intake = "open"
  /\ intake' \in {"applied", "cancelled"}
  /\ UNCHANGED <<staged, photos, events, file, fresh, upload, unacked,
                 removing, fin, clean, doubled, restarts>>

\* saveIntakePhoto begins to write, after the check that the intake is open.
StartUpload(p) ==
  /\ upload[p] = "none" /\ intake = "open"
  /\ upload' = [upload EXCEPT ![p] = "saving"]
  /\ Written(Private(p), "partial")
  /\ UNCHANGED <<rows, unacked, removing, fin, clean, doubled, restarts>>

Save(p) ==
  /\ upload[p] = "saving"
  /\ \/ /\ upload' = [upload EXCEPT ![p] = "saved"]
        /\ Written(Private(p), "whole")
     \* The image cannot be written; what is there may stay.
     \/ /\ p \in Faulty
        /\ upload' = [upload EXCEPT ![p] = "over"]
        /\ \E state \in {"none", "partial"} : Written(Private(p), state)
  /\ UNCHANGED <<rows, unacked, removing, fin, clean, doubled, restarts>>

\* createLockedIfIntakeOpen.  An insert that is refused or reports an error has
\* its file removed again, although the row may be durable and only its
\* acknowledgement lost; with image admission on the file is kept, and uploads
\* are closed, which only means fewer of them.
InsertStaged(p) ==
  /\ upload[p] = "saved"
  /\ upload' = [upload EXCEPT ![p] = "over"]
  /\ \/ /\ intake = "open"
        /\ staged' = staged \union {p}
        /\ UNCHANGED <<unacked, removing>>
     \/ /\ \/ UNCHANGED <<staged, unacked>>
           \/ /\ intake = "open" /\ p \in Faulty
              /\ staged' = staged \union {p}
              /\ unacked' = unacked \union {p}
        /\ removing' = IF ImageAdmission THEN removing ELSE removing \union {p}
  /\ UNCHANGED <<intake, photos, events, file, fresh, fin, clean, doubled,
                 restarts>>

\* The rows of S go first, their files after the commit.
Unstage(S) ==
  /\ staged' = staged \ S /\ unacked' = unacked \ S
  /\ removing' = removing \union S
  /\ UNCHANGED <<intake, photos, events, file, fresh, upload, fin, clean,
                 doubled, restarts>>

\* deleteLockedToIntake.
DeleteStaged(p) == p \in staged /\ intake \in {"open", "cancelled"} /\ Unstage({p})

\* deleteRetentionEligibleStagedPhotosLocked: retention may be over at any
\* time after the intake ended, and the budget may leave some rows behind.
RetentionOver(S) ==
  ExecutionEnabled /\ S # {} /\ intake \in {"cancelled", "finalized"} /\ Unstage(S)

\* The file, after the commit; an error is swallowed.
RemovePrivate(p) ==
  /\ p \in removing
  /\ removing' = removing \ {p}
  /\ Written(Private(p), "none") \/ UNCHANGED <<file, fresh>>
  /\ UNCHANGED <<rows, upload, unacked, fin, clean, doubled, restarts>>
-----------------------------------------------------------------------------
(***************************************************************************)
(* Finalization.                                                           *)
(***************************************************************************)
\* The pre-check and the list of staged photos.
StartFinalize(f) ==
  /\ fin[f].at = "idle" /\ intake = "applied" /\ staged # {}
  /\ fin' = [fin EXCEPT ![f] =
               [at |-> "look", manifest |-> staged, todo |-> staged]]
  /\ UNCHANGED <<rows, file, fresh, upload, unacked, removing, clean,
                 doubled, restarts>>

Stop(f) == fin' = [fin EXCEPT ![f] = Idle]

\* The photo of the manifest that is next.
NextPhoto(f) == AnyOf(fin[f].todo)

Prepared(f) ==
  LET rest == fin[f].todo \ {NextPhoto(f)} IN
    fin' = [fin EXCEPT ![f] =
              [at |-> IF rest = {} THEN "commit" ELSE "look",
               manifest |-> fin[f].manifest, todo |-> rest]]

\* The staged bytes are read, then writeIdempotent reads the destination: the
\* same bytes are left, other bytes are a conflict, no file is to be written.
Look(f) ==
  /\ fin[f].at = "look"
  /\ LET source      == file[Private(NextPhoto(f))]
         destination == file[Canonical(NextPhoto(f))] IN
       \/ (source # "whole" \/ destination = "partial") /\ Stop(f)
       \/ source = "whole" /\ destination = "whole" /\ Prepared(f)
       \/ /\ source = "whole" /\ destination = "none"
          /\ fin' = [fin EXCEPT ![f].at = "open"]
  /\ UNCHANGED <<rows, file, fresh, upload, unacked, removing, clean,
                 doubled, restarts>>

\* writeFile truncates what is there by now.
OpenCanonical(f) ==
  /\ fin[f].at = "open"
  /\ LET x == Canonical(NextPhoto(f)) IN
       /\ doubled' = IF file[x] = "none" THEN doubled ELSE doubled \union {NextPhoto(f)}
       /\ Written(x, "partial")
  /\ fin' = [fin EXCEPT ![f].at = "fill"]
  /\ UNCHANGED <<rows, upload, unacked, removing, clean, restarts>>

\* The bytes are there, unless another request has truncated the file since;
\* or the write fails and leaves what it has.
FillCanonical(f) ==
  /\ fin[f].at = "fill"
  /\ LET p == NextPhoto(f)
         shared == \E g \in Finalizer \ {f} : fin[g].at = "fill" /\ NextPhoto(g) = p IN
       \/ /\ \E state \in IF shared THEN {"partial", "whole"} ELSE {"whole"} :
               Written(Canonical(p), state)
          /\ Prepared(f)
       \/ p \in Faulty /\ Stop(f) /\ UNCHANGED <<file, fresh>>
  /\ UNCHANGED <<rows, upload, unacked, removing, clean, doubled, restarts>>

\* finalizeAiIntakePhotosUseCase, one transaction: the first request for an
\* applied intake creates the photo rows and their events.  A later one finds
\* the intake finalized; and any is refused when the product has been listed
\* or has a photo of its own.
CommitFinalize(f) ==
  /\ fin[f].at = "commit"
  /\ \/ /\ intake = "applied" /\ photos = {} /\ fin[f].manifest = staged
        /\ intake' = "finalized"
        /\ photos' = fin[f].manifest
        /\ events' = events \union (fin[f].manifest \X {"promote"})
     \/ UNCHANGED <<intake, photos, events>>
  /\ Stop(f)
  /\ UNCHANGED <<staged, file, fresh, upload, unacked, removing, clean,
                 doubled, restarts>>
-----------------------------------------------------------------------------
(***************************************************************************)
(* The product's photos.                                                   *)
(***************************************************************************)
\* deleteProductPhoto: the row goes and an event asks for the file.
DeletePhoto(p) ==
  /\ p \in photos
  /\ photos' = photos \ {p}
  /\ events' = events \union {<<p, "delete">>}
  /\ UNCHANGED <<intake, staged, file, fresh, upload, unacked, removing,
                 fin, clean, doubled, restarts>>

\* The outbox settles an event: a promotion changes no file, and a deletion
\* without keys is kept for review and deletes none.
SettleEvent(e) ==
  /\ e \in events
  /\ events' = events \ {e}
  /\ UNCHANGED <<intake, staged, photos, file, fresh, upload, unacked,
                 removing, fin, clean, doubled, restarts>>
-----------------------------------------------------------------------------
(***************************************************************************)
(* A cleanup run sweeps the private root, then the canonical one.          *)
(***************************************************************************)
\* Mutants: no watermark; whole files only.
EligibleAnyAge(x) == file[x] # "none"
EligibleWhole(x)  == file[x] = "whole" /\ x \notin fresh

\* The walk has seen the file, older than the process.  (The grace period only
\* lets it wait longer; a file too young is passed over after the same reads.)
Eligible(x) == file[x] # "none" /\ x \notin fresh

\* The file a run is at, of those its walk has seen.
Current(c) == AnyOf(clean[c].left)

\* On to the files in left, or to the other root.
Continue(c, left) ==
  clean' = [clean EXCEPT ![c] =
    IF left # {} THEN [root |-> @.root, at |-> "staged", left |-> left]
    ELSE Begin(IF @.root = "private" THEN "canonical" ELSE "private")]

Entries(r) == {x \in {r} \X Photo : file[x] # "none"}

\* walkManagedDirectory stops at its cap, in whatever order the directory has,
\* and the next walk starts over without a cursor.
Seen(r) ==
  IF Cardinality(Entries(r)) <= MaxExamined[r] THEN {Entries(r)}
  ELSE {S \in SUBSET Entries(r) : Cardinality(S) = MaxExamined[r]}

\* A run that is not enabled walks nowhere.
Walk(c) ==
  /\ ExecutionEnabled /\ clean[c].at = "walk"
  /\ \E S \in Seen(clean[c].root) : Continue(c, {x \in S : Eligible(x)})
  /\ UNCHANGED <<rows, file, fresh, upload, unacked, removing, fin,
                 doubled, restarts>>

\* Mutant: the photo row is asked for before the staged row.
ClaimedSwapped(x, at) ==
  CASE at = "staged" -> x[2] \in photos
    [] at = "photo"  -> x[2] \in staged
    [] at = "event"  -> \E e \in events : e[1] = x[2]

\* existsStagedPhotoById (or ...ByStorageKey), existsProductPhotoByIdAndProductId
\* and hasNonTerminalProductPhotoOutboxEvent.
Claimed(x, at) ==
  CASE at = "staged" -> x[2] \in staged
    [] at = "photo"  -> x[2] \in photos
    [] at = "event"  -> \E e \in events : e[1] = x[2]

\* A private file has only a staged row to look for.
Following(x, at) ==
  CASE x[1] = "private" \/ at = "event" -> "delete"
    [] x[1] = "canonical" /\ at = "staged" -> "photo"
    [] OTHER -> "event"

\* One await after the other, until a row claims the file.
Ask(c) ==
  LET x  == Current(c)
      at == clean[c].at IN
    /\ at \in {"staged", "photo", "event"}
    /\ IF Claimed(x, at)
       THEN Continue(c, clean[c].left \ {x})
       ELSE clean' = [clean EXCEPT ![c].at = Following(x, at)]
    /\ UNCHANGED <<rows, file, fresh, upload, unacked, removing, fin,
                   doubled, restarts>>

\* deleteManagedFile.
Sweep(c) ==
  /\ clean[c].at = "delete"
  /\ Written(Current(c), "none")
  /\ Continue(c, clean[c].left \ {Current(c)})
  /\ UNCHANGED <<rows, upload, unacked, removing, fin, doubled, restarts>>

CleanerStep(c) == Walk(c) \/ Ask(c) \/ Sweep(c)
-----------------------------------------------------------------------------
\* The process dies and starts again: every request and run is gone, and every
\* file is older than the process.
Restart ==
  /\ restarts < MaxRestarts
  /\ restarts' = restarts + 1
  /\ fresh' = {}
  /\ upload' = [p \in Photo |-> IF upload[p] = "none" THEN "none" ELSE "over"]
  /\ removing' = {}
  /\ fin' = [f \in Finalizer |-> Idle]
  /\ clean' = [c \in Cleaner |-> Begin("private")]
  /\ UNCHANGED <<rows, file, unacked, doubled>>

Next ==
  \/ Resolve \/ Restart
  \/ \E p \in Photo :
       \/ StartUpload(p) \/ Save(p) \/ InsertStaged(p)
       \/ DeleteStaged(p) \/ RemovePrivate(p) \/ DeletePhoto(p)
  \/ \E S \in SUBSET staged : RetentionOver(S)
  \/ \E f \in Finalizer :
       \/ StartFinalize(f) \/ Look(f) \/ OpenCanonical(f) \/ FillCanonical(f)
       \/ CommitFinalize(f)
  \/ \E e \in events : SettleEvent(e)
  \/ \E c \in Cleaner : CleanerStep(c)

Spec == Init /\ [][Next]_vars
-----------------------------------------------------------------------------
(***************************************************************************)
(* Properties.                                                             *)
(***************************************************************************)
\* The row is durable, and the request that made it has removed its file.
Disowned(p) == ~ImageAdmission /\ p \in unacked

(* uploadPhotoWithStorage, sweepPrivateOrphans: a staged row always has    *)
(* its whole file, although the file is there before the row and a sweep   *)
(* may have found it without.  Only the request itself may have removed    *)
(* it, when the acknowledgement of its insert was lost; and not even that  *)
(* with image admission on.                                                *)
SourcesAreKept == \A p \in staged : file[Private(p)] = "whole" \/ Disowned(p)

(* finalizeAiIntakePhotos, sweepCanonicalOrphans: a photo of the product   *)
(* has its whole file, although finalizations die half-way and sweeps find *)
(* what they left.  Only a second finalization that found no file either   *)
(* and opened it again can leave it cut off (writeIdempotent).             *)
PhotosAreKept ==
  \A p \in photos :
    \/ file[Canonical(p)] = "whole"
    \/ file[Canonical(p)] = "partial" /\ p \in doubled
-----------------------------------------------------------------------------
(***************************************************************************)
(* An external scheduler starts the cleanup again and again (it must be    *)
(* enabled), and a run goes on.  The budget of a run counts only what it   *)
(* deletes, so it delays the rest to the next run and leaves nothing out;  *)
(* the cap of the walk does leave files out, see OrphansGo.                *)
(***************************************************************************)
Fairness ==
  /\ \A c \in Cleaner : WF_vars(CleanerStep(c))
  /\ WF_vars(\E e \in events : SettleEvent(e))

LiveSpec == Spec /\ Fairness

Unclaimed(x) ==
  CASE x[1] = "private" -> x[2] \notin staged
    [] x[1] = "canonical" -> x[2] \notin staged /\ x[2] \notin photos

(* sweepPrivateOrphans, sweepCanonicalOrphans: whatever dead requests and  *)
(* failed removals leave, in the end a root has no file that no row        *)
(* claims, but for files written since the process started, if execution   *)
(* is enabled and the root holds no more files than a walk examines.       *)
OrphansGo ==
  ExecutionEnabled =>
    <>[](\A r \in Root :
           Cardinality(Entries(r)) <= MaxExamined[r] =>
             \A x \in Entries(r) : ~Unclaimed(x) \/ x \in fresh)
=============================================================================
