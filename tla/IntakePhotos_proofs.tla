------------------------- MODULE IntakePhotos_proofs -------------------------
(***************************************************************************)
(* Proofs about IntakePhotos for every set of photos, finalizations and    *)
(* cleanup runs and any number of restarts.                                *)
(***************************************************************************)
EXTENDS IntakePhotos, TLAPS

TypeInv ==
  /\ intake \in {"open", "applied", "cancelled", "finalized"}
  /\ staged \subseteq Photo /\ photos \subseteq Photo
  /\ events \subseteq Photo \X {"promote", "delete"}
  /\ file \in [File -> {"none", "partial", "whole"}]
  /\ fresh \subseteq File
  /\ upload \in [Photo -> {"none", "saving", "saved", "over"}]
  /\ unacked \subseteq Photo /\ removing \subseteq Photo
  /\ doubled \subseteq Photo
  /\ fin \in [Finalizer -> [at : {"idle", "look", "open", "fill", "commit"},
                            manifest : SUBSET Photo, todo : SUBSET Photo]]
  /\ clean \in [Cleaner -> [root : {"private", "canonical"},
                            at : {"walk", "staged", "photo", "event", "delete"},
                            left : SUBSET File]]

\* A private file under way is new; a staged row comes once, with its file; a
\* file to remove has no row, or one whose request does not know of it.
UploadInv == \A p \in Photo :
  /\ upload[p] = "none" => file[Private(p)] = "none"
  /\ upload[p] \in {"saving", "saved"} => Private(p) \in fresh
  /\ upload[p] = "saved" => file[Private(p)] = "whole"
  /\ p \in removing => upload[p] = "over" /\ (p \notin staged \/ Disowned(p))
  /\ p \in staged =>
       upload[p] = "over" /\ (file[Private(p)] = "whole" \/ Disowned(p))
  /\ file[Canonical(p)] # "none" => upload[p] = "over"

\* A run looks at files whose upload is over; past a question it has put for a
\* file, no row it asked for claims the file, then or later.
SweepOf(c) ==
  /\ clean[c].left \subseteq {clean[c].root} \X Photo
  /\ clean[c].at # "walk" => clean[c].left # {}
  /\ \A x \in clean[c].left : upload[x[2]] = "over"
  /\ clean[c].root = "private" => clean[c].at \in {"walk", "staged", "delete"}
  /\ clean[c].at \in {"photo", "event", "delete"} => Current(c)[2] \notin staged
  /\ clean[c].root = "canonical" /\ clean[c].at \in {"event", "delete"} =>
       Current(c)[2] \notin photos

SweepInv == \A c \in Cleaner : SweepOf(c)

\* A photo whose canonical file no sweep may take.
Kept == staged \union photos

Good(p) ==
  \/ file[Canonical(p)] = "whole"
  \/ file[Canonical(p)] = "partial" /\ p \in doubled

\* What a finalization has prepared is there; what it writes is not gone, and
\* two that write one file have opened it twice.
FinOf(f) ==
  /\ fin[f].todo \subseteq fin[f].manifest
  /\ fin[f].at \in {"look", "open", "fill"} => fin[f].todo # {}
  /\ fin[f].at = "commit" => fin[f].todo = {}
  /\ \A p \in fin[f].manifest : upload[p] = "over"
  /\ \A p \in fin[f].manifest \ fin[f].todo : p \in Kept => Good(p)
  /\ fin[f].at = "fill" /\ NextPhoto(f) \in Kept =>
       file[Canonical(NextPhoto(f))] # "none"

FinInv == \A f \in Finalizer : FinOf(f)

PairInv == \A f, g \in Finalizer :
  /\ f # g /\ fin[f].at = "fill" /\ fin[g].at = "fill"
  /\ NextPhoto(f) = NextPhoto(g) /\ NextPhoto(f) \in Kept
  => NextPhoto(f) \in doubled

IInv == TypeInv /\ UploadInv /\ SweepInv /\ FinInv /\ PairInv /\ PhotosAreKept
-----------------------------------------------------------------------------
(***************************************************************************)
(* Steps and fields.                                                       *)
(***************************************************************************)
LEMMA AnyOfIn ==
  ASSUME NEW S, S # {}
  PROVE  AnyOf(S) \in S
BY DEF AnyOf

\* The steps that touch rows or files, and those of a run that does not.
LEMMA IntakeSteps ==
  ASSUME [Next]_vars
  PROVE  \/ UNCHANGED vars
         \/ Resolve
         \/ Restart
         \/ \E p \in Photo : StartUpload(p)
         \/ \E p \in Photo : Save(p)
         \/ \E p \in Photo : InsertStaged(p)
         \/ \E S \in SUBSET staged :
              Unstage(S) /\ intake \in {"open", "cancelled", "finalized"}
         \/ \E p \in Photo : RemovePrivate(p)
         \/ \E p \in Photo : DeletePhoto(p)
         \/ \E f \in Finalizer : StartFinalize(f)
         \/ \E f \in Finalizer : Look(f)
         \/ \E f \in Finalizer : OpenCanonical(f)
         \/ \E f \in Finalizer : FillCanonical(f)
         \/ \E f \in Finalizer : CommitFinalize(f)
         \/ \E e \in events : SettleEvent(e)
         \/ \E c \in Cleaner : Walk(c)
         \/ \E c \in Cleaner : Ask(c)
         \/ \E c \in Cleaner : Sweep(c)
<1>1. ASSUME NEW p \in Photo, DeleteStaged(p)
      PROVE  \E S \in SUBSET staged :
               Unstage(S) /\ intake \in {"open", "cancelled", "finalized"}
  <2>1. {p} \in SUBSET staged /\ Unstage({p}) /\ intake \in {"open", "cancelled"}
    BY <1>1 DEF DeleteStaged
  <2>. QED
    BY <2>1
<1>2. ASSUME NEW S \in SUBSET staged, RetentionOver(S)
      PROVE  Unstage(S) /\ intake \in {"open", "cancelled", "finalized"}
  BY <1>2 DEF RetentionOver
<1>. QED
  BY <1>1, <1>2 DEF Next, CleanerStep

LEMMA FileFields ==
  ASSUME NEW p \in Photo
  PROVE  /\ Private(p) \in File /\ Canonical(p) \in File
         /\ \A q \in Photo : Private(p) # Canonical(q)
         /\ \A q \in Photo : Private(p) = Private(q) => p = q
         /\ \A q \in Photo : Canonical(p) = Canonical(q) => p = q
BY DEF File, Root, Private, Canonical

\* A walk sees files of its root, all of them or as many as its cap.
LEMMA SeenFiles ==
  ASSUME TypeInv, NEW c \in Cleaner, NEW S \in Seen(clean[c].root)
  PROVE  S \subseteq {clean[c].root} \X Photo /\ S \subseteq File
<1>1. clean[c].root \in Root
  BY DEF TypeInv, Root
<1>. QED
  BY <1>1 DEF Seen, Entries, File

LEMMA WrittenFields ==
  ASSUME TypeInv, NEW x \in File, NEW state \in {"none", "partial", "whole"},
         Written(x, state)
  PROVE  /\ file' \in [File -> {"none", "partial", "whole"}]
         /\ file'[x] = state
         /\ \A y \in File \ {x} : file'[y] = file[y]
         /\ \A y \in File \ {x} : y \in fresh' <=> y \in fresh
         /\ state # "none" => x \in fresh'
         /\ fresh' \subseteq File
BY DEF TypeInv, Written

LEMMA Stopped ==
  ASSUME TypeInv, NEW f \in Finalizer, Stop(f)
  PROVE  /\ fin'[f] = Idle
         /\ \A g \in Finalizer \ {f} : fin'[g] = fin[g]
BY DEF TypeInv, Stop

LEMMA PreparedFields ==
  ASSUME TypeInv, NEW f \in Finalizer, Prepared(f)
  PROVE  /\ fin'[f].manifest = fin[f].manifest
         /\ fin'[f].todo = fin[f].todo \ {NextPhoto(f)}
         /\ fin'[f].at = IF fin'[f].todo = {} THEN "commit" ELSE "look"
         /\ \A g \in Finalizer \ {f} : fin'[g] = fin[g]
         /\ fin' \in [Finalizer -> [at : {"idle", "look", "open", "fill", "commit"},
                            manifest : SUBSET Photo, todo : SUBSET Photo]]
BY DEF TypeInv, Prepared

LEMMA ContinueFields ==
  ASSUME TypeInv, NEW c \in Cleaner, NEW left \in SUBSET File,
         Continue(c, left)
  PROVE  /\ \A d \in Cleaner \ {c} : clean'[d] = clean[d]
         /\ clean'[c].left = left
         /\ left # {} => clean'[c].root = clean[c].root /\ clean'[c].at = "staged"
         /\ left = {} => clean'[c].at = "walk"
         /\ clean' \in [Cleaner -> [root : {"private", "canonical"},
                            at : {"walk", "staged", "photo", "event", "delete"},
                            left : SUBSET File]]
BY DEF TypeInv, Continue, Begin
LEMMA SweepsSomeFile ==
  ASSUME IInv, NEW c \in Cleaner, clean[c].at # "walk"
  PROVE  /\ Current(c) \in clean[c].left /\ Current(c) \in File
         /\ upload[Current(c)[2]] = "over" /\ Current(c)[2] \in Photo
         /\ Current(c) = <<clean[c].root, Current(c)[2]>>
<1>1. /\ clean[c].left # {} /\ clean[c].left \subseteq File
      /\ clean[c].left \subseteq {clean[c].root} \X Photo
      /\ \A x \in clean[c].left : upload[x[2]] = "over"
  BY DEF IInv, TypeInv, SweepInv, SweepOf
<1>2. Current(c) \in clean[c].left
  BY <1>1, AnyOfIn DEF Current
<1>. QED
  BY <1>1, <1>2
-----------------------------------------------------------------------------
(***************************************************************************)
(* Types.                                                                  *)
(***************************************************************************)
LEMMA TypeInit == Init => TypeInv
BY DEF Init, TypeInv, Idle, Begin, File, Root

LEMMA TypeStep ==
  ASSUME IInv, [Next]_vars
  PROVE  TypeInv'
<1>. USE DEF TypeInv, rows
<1>0. TypeInv
  BY DEF IInv
<1>1. CASE UNCHANGED vars
  BY <1>0, <1>1 DEF vars
<1>2. CASE Resolve
  BY <1>0, <1>2 DEF Resolve
<1>3. CASE Restart
  BY <1>0, <1>3 DEF Restart, Idle, Begin
<1>4. ASSUME NEW p \in Photo, StartUpload(p) PROVE TypeInv'
  BY <1>0, <1>4, FileFields, WrittenFields DEF StartUpload
<1>5. ASSUME NEW p \in Photo, Save(p) PROVE TypeInv'
  <2>1. PICK state \in {"none", "partial", "whole"} : Written(Private(p), state)
    BY <1>5 DEF Save
  <2>. QED
    BY <1>0, <1>5, <2>1, FileFields, WrittenFields DEF Save
<1>6. ASSUME NEW p \in Photo, InsertStaged(p) PROVE TypeInv'
  BY <1>0, <1>6 DEF InsertStaged
<1>7. ASSUME NEW S \in SUBSET staged, Unstage(S) PROVE TypeInv'
  BY <1>0, <1>7 DEF Unstage
<1>8. ASSUME NEW p \in Photo, RemovePrivate(p) PROVE TypeInv'
  <2>1. file' \in [File -> {"none", "partial", "whole"}] /\ fresh' \subseteq File
    BY <1>0, <1>8, FileFields, WrittenFields DEF RemovePrivate
  <2>. QED
    BY <1>0, <1>8, <2>1 DEF RemovePrivate
<1>9. ASSUME NEW p \in Photo, DeletePhoto(p) PROVE TypeInv'
  BY <1>0, <1>9 DEF DeletePhoto
<1>10. ASSUME NEW f \in Finalizer, StartFinalize(f) PROVE TypeInv'
  BY <1>0, <1>10 DEF StartFinalize
<1>11. ASSUME NEW f \in Finalizer, Look(f) PROVE TypeInv'
  <2>1. CASE Prepared(f)
    BY <1>0, <1>11, <2>1, PreparedFields DEF Look
  <2>2. CASE Stop(f) \/ fin' = [fin EXCEPT ![f].at = "open"]
    BY <1>0, <1>11, <2>2 DEF Look, Stop, Idle
  <2>. QED
    BY <1>11, <2>1, <2>2 DEF Look
<1>12. ASSUME NEW f \in Finalizer, OpenCanonical(f) PROVE TypeInv'
  <2>1. fin[f].todo # {}
    BY <1>12 DEF OpenCanonical, IInv, FinInv, FinOf
  <2>2. NextPhoto(f) \in Photo
    BY <1>0, <2>1, AnyOfIn DEF NextPhoto
  <2>. QED
    BY <1>0, <1>12, <2>2, FileFields, WrittenFields DEF OpenCanonical
<1>13. ASSUME NEW f \in Finalizer, FillCanonical(f) PROVE TypeInv'
  <2>1. fin[f].todo # {}
    BY <1>13 DEF FillCanonical, IInv, FinInv, FinOf
  <2>2. NextPhoto(f) \in Photo
    BY <1>0, <2>1, AnyOfIn DEF NextPhoto
  <2>. QED
    BY <1>0, <1>13, <2>2, FileFields, WrittenFields, PreparedFields
       DEF FillCanonical, Stop, Idle
<1>14. ASSUME NEW f \in Finalizer, CommitFinalize(f) PROVE TypeInv'
  BY <1>0, <1>14 DEF CommitFinalize, Stop, Idle
<1>15. ASSUME NEW e \in events, SettleEvent(e) PROVE TypeInv'
  BY <1>0, <1>15 DEF SettleEvent
<1>16. ASSUME NEW c \in Cleaner, Walk(c) PROVE TypeInv'
  <2>1. PICK S \in Seen(clean[c].root) : Continue(c, {x \in S : Eligible(x)})
    BY <1>16 DEF Walk
  <2>2. {x \in S : Eligible(x)} \in SUBSET File
    BY <1>0, <2>1, SeenFiles
  <2>. QED
    BY <1>0, <1>16, <2>1, <2>2, ContinueFields DEF Walk
<1>17. ASSUME NEW c \in Cleaner, Ask(c) PROVE TypeInv'
  <2>1. clean[c].left \ {Current(c)} \in SUBSET File
    BY <1>0
  <2>2. Following(Current(c), clean[c].at) \in {"delete", "photo", "event"}
    BY DEF Following
  <2>. QED
    BY <1>0, <1>17, <2>1, <2>2, ContinueFields DEF Ask
<1>18. ASSUME NEW c \in Cleaner, Sweep(c) PROVE TypeInv'
  <2>1. clean[c].left \ {Current(c)} \in SUBSET File /\ Current(c) \in File
    BY <1>0, <1>18, SweepsSomeFile DEF Sweep
  <2>2. file' \in [File -> {"none", "partial", "whole"}] /\ fresh' \subseteq File
    BY <1>0, <1>18, <2>1, WrittenFields DEF Sweep
  <2>. QED
    BY <1>0, <1>18, <2>1, <2>2, ContinueFields DEF Sweep
<1>. QED
  BY <1>1, <1>2, <1>3, <1>4, <1>5, <1>6, <1>7, <1>8, <1>9, <1>10, <1>11,
     <1>12, <1>13, <1>14, <1>15, <1>16, <1>17, <1>18, IntakeSteps

-----------------------------------------------------------------------------
(***************************************************************************)
(* What moves.                                                             *)
(***************************************************************************)
LEMMA WritesSomePhoto ==
  ASSUME IInv, NEW f \in Finalizer, fin[f].at \in {"look", "open", "fill"}
  PROVE  /\ NextPhoto(f) \in Photo /\ NextPhoto(f) \in fin[f].todo
         /\ upload[NextPhoto(f)] = "over"
<1>1. /\ fin[f].todo # {} /\ fin[f].todo \subseteq Photo
      /\ \A p \in fin[f].todo : upload[p] = "over"
  BY DEF IInv, TypeInv, FinInv, FinOf
<1>. QED
  BY <1>1, AnyOfIn DEF NextPhoto

\* A photo whose upload is over is not staged again, and a photo row is made
\* of a staged row.
LEMMA RowsMove ==
  ASSUME IInv, [Next]_vars, NEW p \in Photo
  PROVE  /\ upload[p] = "over" => upload'[p] = "over"
         /\ upload[p] = "over" /\ p \in staged' => p \in staged
         /\ p \in photos' /\ p \notin photos => p \in staged
<1>. DEFINE Claim ==
       /\ upload[p] = "over" => upload'[p] = "over"
       /\ upload[p] = "over" /\ p \in staged' => p \in staged
       /\ p \in photos' /\ p \notin photos => p \in staged
<1>0. TypeInv
  BY DEF IInv
<1>. USE <1>0 DEF TypeInv, rows
<1>1. CASE UNCHANGED vars
  BY <1>1 DEF vars
<1>2. CASE Resolve \/ Restart
  BY <1>2 DEF Resolve, Restart
<1>3. ASSUME NEW q \in Photo, StartUpload(q) \/ Save(q) \/ InsertStaged(q)
      PROVE  Claim
  BY <1>3 DEF StartUpload, Save, InsertStaged
<1>4. ASSUME NEW S \in SUBSET staged, Unstage(S) PROVE Claim
  BY <1>4 DEF Unstage
<1>5. ASSUME NEW q \in Photo, RemovePrivate(q) \/ DeletePhoto(q) PROVE Claim
  BY <1>5 DEF RemovePrivate, DeletePhoto
<1>6. ASSUME NEW f \in Finalizer,
             StartFinalize(f) \/ Look(f) \/ OpenCanonical(f) \/ FillCanonical(f)
      PROVE  Claim
  BY <1>6 DEF StartFinalize, Look, OpenCanonical, FillCanonical
<1>7. ASSUME NEW f \in Finalizer, CommitFinalize(f) PROVE Claim
  BY <1>7 DEF CommitFinalize
<1>8. ASSUME NEW e \in events, SettleEvent(e) PROVE Claim
  BY <1>8 DEF SettleEvent
<1>9. ASSUME NEW c \in Cleaner, Walk(c) \/ Ask(c) \/ Sweep(c) PROVE Claim
  BY <1>9 DEF Walk, Ask, Sweep
<1>. QED
  BY <1>1, <1>2, <1>3, <1>4, <1>5, <1>6, <1>7, <1>8, <1>9, IntakeSteps

\* The canonical file of a photo that rows claim does not go, and is cut off
\* only by two that write it.
LEMMA FilesMove ==
  ASSUME IInv, [Next]_vars, NEW p \in Photo, p \in Kept
  PROVE  /\ file[Canonical(p)] # "none" => file'[Canonical(p)] # "none"
         /\ Good(p) => Good(p)'
         /\ doubled \subseteq doubled'
<1>. DEFINE Same == file'[Canonical(p)] = file[Canonical(p)] /\ doubled \subseteq doubled'
            Claim ==
              /\ file[Canonical(p)] # "none" => file'[Canonical(p)] # "none"
              /\ Good(p) => Good(p)'
              /\ doubled \subseteq doubled'
<1>0. TypeInv
  BY DEF IInv
<1>1. Same => Claim
  BY DEF Good
<1>. USE DEF rows
<1>2. CASE UNCHANGED vars
  BY <1>1, <1>2 DEF vars
<1>3. CASE Resolve \/ Restart
  BY <1>1, <1>3 DEF Resolve, Restart
<1>4. ASSUME NEW q \in Photo, StartUpload(q) \/ Save(q)
      PROVE  Claim
  <2>1. PICK state \in {"none", "partial", "whole"} : Written(Private(q), state)
    BY <1>4 DEF StartUpload, Save
  <2>2. doubled' = doubled
    BY <1>4 DEF StartUpload, Save
  <2>. QED
    BY <1>0, <1>1, <2>1, <2>2, FileFields, WrittenFields
<1>5. ASSUME NEW q \in Photo, InsertStaged(q) \/ DeletePhoto(q) PROVE Claim
  BY <1>1, <1>5 DEF InsertStaged, DeletePhoto
<1>6. ASSUME NEW S \in SUBSET staged, Unstage(S) PROVE Claim
  BY <1>1, <1>6 DEF Unstage
<1>7. ASSUME NEW q \in Photo, RemovePrivate(q) PROVE Claim
  BY <1>0, <1>1, <1>7, FileFields, WrittenFields DEF RemovePrivate
<1>8. ASSUME NEW f \in Finalizer,
             StartFinalize(f) \/ Look(f) \/ CommitFinalize(f)
      PROVE  Claim
  BY <1>1, <1>8 DEF StartFinalize, Look, CommitFinalize
<1>9. ASSUME NEW f \in Finalizer, OpenCanonical(f) PROVE Claim
  <2>. DEFINE q == NextPhoto(f)
  <2>1. q \in Photo
    BY <1>9, WritesSomePhoto DEF OpenCanonical
  <2>2. /\ Written(Canonical(q), "partial")
        /\ doubled' = IF file[Canonical(q)] = "none" THEN doubled ELSE doubled \union {q}
    BY <1>9 DEF OpenCanonical
  <2>. HIDE DEF q
  <2>3. CASE p = q
    BY <1>0, <2>1, <2>2, <2>3, FileFields, WrittenFields DEF Good
  <2>4. CASE p # q
    BY <1>0, <1>1, <2>1, <2>2, <2>4, FileFields, WrittenFields
  <2>. QED
    BY <2>3, <2>4
<1>10. ASSUME NEW f \in Finalizer, FillCanonical(f) PROVE Claim
  <2>. DEFINE q == NextPhoto(f)
  <2>1. q \in Photo /\ fin[f].at = "fill" /\ doubled' = doubled
    BY <1>10, WritesSomePhoto DEF FillCanonical
  <2>2. CASE file' = file
    BY <1>1, <2>1, <2>2
  <2>3. CASE Written(Canonical(q), "whole")
    <3>. HIDE DEF q
    <3>. QED
      BY <1>0, <1>1, <2>1, <2>3, FileFields, WrittenFields DEF Good
  <2>4. CASE Written(Canonical(q), "partial") /\
             \E g \in Finalizer \ {f} : fin[g].at = "fill" /\ NextPhoto(g) = q
    <3>1. q \in Kept => q \in doubled
      BY <2>1, <2>4 DEF IInv, PairInv
    <3>. HIDE DEF q
    <3>. QED
      BY <1>0, <1>1, <2>1, <2>4, <3>1, FileFields, WrittenFields DEF Good
  <2>. QED
    BY <1>10, <2>2, <2>3, <2>4 DEF FillCanonical
<1>11. ASSUME NEW e \in events, SettleEvent(e) PROVE Claim
  BY <1>1, <1>11 DEF SettleEvent
<1>12. ASSUME NEW c \in Cleaner, Walk(c) \/ Ask(c) PROVE Claim
  BY <1>1, <1>12 DEF Walk, Ask
<1>13. ASSUME NEW c \in Cleaner, Sweep(c) PROVE Claim
  <2>. DEFINE x == Current(c)
  <2>1. /\ x \in File /\ x = <<clean[c].root, x[2]>>
        /\ Written(x, "none") /\ doubled' = doubled
    BY <1>13, SweepsSomeFile DEF Sweep
  <2>2. /\ x[2] \notin staged
        /\ clean[c].root = "canonical" => x[2] \notin photos
    BY <1>13 DEF Sweep, IInv, SweepInv, SweepOf
  <2>. HIDE DEF x
  <2>3. x # Canonical(p)
    BY <2>1, <2>2 DEF Canonical, Kept
  <2>. QED
    BY <1>0, <1>1, <2>1, <2>3, FileFields, WrittenFields
<1>. QED
  BY <1>2, <1>3, <1>4, <1>5, <1>6, <1>7, <1>8, <1>9, <1>10, <1>11, <1>12,
     <1>13, IntakeSteps

-----------------------------------------------------------------------------
(***************************************************************************)
(* The invariant.                                                          *)
(***************************************************************************)
LEMMA UploadStep ==
  ASSUME IInv, [Next]_vars
  PROVE  UploadInv'
<1>0. TypeInv /\ UploadInv
  BY DEF IInv
<1>. USE DEF rows, Disowned
<1>1. CASE UNCHANGED vars
  BY <1>0, <1>1 DEF vars, UploadInv
<1>2. CASE Resolve
  BY <1>0, <1>2 DEF Resolve, UploadInv
<1>3. CASE Restart
  BY <1>0, <1>3 DEF Restart, UploadInv, TypeInv
<1>4. ASSUME NEW q \in Photo, StartUpload(q) PROVE UploadInv'
  <2>1. Written(Private(q), "partial") /\ upload' = [upload EXCEPT ![q] = "saving"]
    BY <1>4 DEF StartUpload
  <2>. QED
    BY <1>0, <1>4, <2>1, FileFields, WrittenFields
       DEF StartUpload, UploadInv, TypeInv
<1>5. ASSUME NEW q \in Photo, Save(q) PROVE UploadInv'
  <2>1. CASE upload' = [upload EXCEPT ![q] = "saved"] /\ Written(Private(q), "whole")
    BY <1>0, <1>5, <2>1, FileFields, WrittenFields DEF Save, UploadInv, TypeInv
  <2>2. ASSUME NEW state \in {"none", "partial"}, Written(Private(q), state),
               upload' = [upload EXCEPT ![q] = "over"]
        PROVE  UploadInv'
    BY <1>0, <1>5, <2>2, FileFields, WrittenFields DEF Save, UploadInv, TypeInv
  <2>. QED
    BY <1>5, <2>1, <2>2 DEF Save
<1>6. ASSUME NEW q \in Photo, InsertStaged(q) PROVE UploadInv'
  BY <1>0, <1>6 DEF InsertStaged, UploadInv, TypeInv
<1>7. ASSUME NEW S \in SUBSET staged, Unstage(S) PROVE UploadInv'
  BY <1>0, <1>7 DEF Unstage, UploadInv, TypeInv
<1>8. ASSUME NEW q \in Photo, RemovePrivate(q) PROVE UploadInv'
  <2>1. CASE Written(Private(q), "none")
    BY <1>0, <1>8, <2>1, FileFields, WrittenFields DEF RemovePrivate, UploadInv, TypeInv
  <2>2. CASE UNCHANGED <<file, fresh>>
    BY <1>0, <1>8, <2>2 DEF RemovePrivate, UploadInv, TypeInv
  <2>. QED
    BY <1>8, <2>1, <2>2 DEF RemovePrivate
<1>9. ASSUME NEW q \in Photo, DeletePhoto(q) PROVE UploadInv'
  BY <1>0, <1>9 DEF DeletePhoto, UploadInv
<1>10. ASSUME NEW f \in Finalizer,
              StartFinalize(f) \/ Look(f) \/ CommitFinalize(f)
       PROVE  UploadInv'
  BY <1>0, <1>10 DEF StartFinalize, Look, CommitFinalize, UploadInv
<1>11. ASSUME NEW f \in Finalizer, OpenCanonical(f) \/ FillCanonical(f)
       PROVE  UploadInv'
  <2>. DEFINE q == NextPhoto(f)
  <2>1. q \in Photo /\ upload[q] = "over"
    BY <1>11, WritesSomePhoto DEF OpenCanonical, FillCanonical
  <2>2. UNCHANGED <<upload, unacked, removing, staged>>
    BY <1>11 DEF OpenCanonical, FillCanonical
  <2>3. CASE UNCHANGED <<file, fresh>>
    BY <1>0, <2>2, <2>3 DEF UploadInv
  <2>4. ASSUME NEW state \in {"partial", "whole"}, Written(Canonical(q), state)
        PROVE  UploadInv'
    <3>. HIDE DEF q
    <3>. QED
      BY <1>0, <2>1, <2>2, <2>4, FileFields, WrittenFields DEF UploadInv
  <2>. QED
    BY <1>11, <2>3, <2>4 DEF OpenCanonical, FillCanonical
<1>12. ASSUME NEW e \in events, SettleEvent(e) PROVE UploadInv'
  BY <1>0, <1>12 DEF SettleEvent, UploadInv
<1>13. ASSUME NEW c \in Cleaner, Walk(c) \/ Ask(c) PROVE UploadInv'
  BY <1>0, <1>13 DEF Walk, Ask, UploadInv
<1>14. ASSUME NEW c \in Cleaner, Sweep(c) PROVE UploadInv'
  <2>. DEFINE x == Current(c)
  <2>1. /\ x \in File /\ x = <<clean[c].root, x[2]>> /\ upload[x[2]] = "over"
        /\ Written(x, "none") /\ x[2] \notin staged
    BY <1>14, SweepsSomeFile DEF Sweep, IInv, SweepInv, SweepOf
  <2>2. UNCHANGED <<upload, unacked, removing, staged>>
    BY <1>14 DEF Sweep
  <2>. HIDE DEF x
  <2>3. \A p \in Photo : x = Private(p) \/ x = Canonical(p) => x[2] = p
    BY DEF Private, Canonical
  <2>. QED
    BY <1>0, <2>1, <2>2, <2>3, FileFields, WrittenFields DEF UploadInv
<1>. QED
  BY <1>1, <1>2, <1>3, <1>4, <1>5, <1>6, <1>7, <1>8, <1>9, <1>10, <1>11,
     <1>12, <1>13, <1>14, IntakeSteps

\* A run that does not move keeps what it knows.
LEMMA SweepStays ==
  ASSUME IInv, [Next]_vars, NEW c \in Cleaner, clean'[c] = clean[c]
  PROVE  SweepOf(c)'
<1>1. SweepOf(c) /\ TypeInv
  BY DEF IInv, SweepInv
<1>2. clean[c].at = "walk" \/ Current(c) \in clean[c].left
  BY SweepsSomeFile
<1>3. Current(c)' = Current(c)
  BY DEF Current
<1>4. \A x \in clean[c].left : upload[x[2]] = "over" /\ x[2] \in Photo
  BY <1>1 DEF SweepOf, TypeInv, File
<1>. QED
  BY <1>1, <1>2, <1>3, <1>4, RowsMove DEF SweepOf

\* A run that goes on to other files it has seen, or to the other root.
LEMMA SweepContinues ==
  ASSUME IInv, NEW c \in Cleaner, NEW left \in SUBSET File, Continue(c, left),
         left \subseteq {clean[c].root} \X Photo,
         \A x \in left : upload'[x[2]] = "over"
  PROVE  SweepOf(c)'
<1>1. TypeInv
  BY DEF IInv
<1>. QED
  BY <1>1, ContinueFields DEF SweepOf

LEMMA SweepStep ==
  ASSUME IInv, [Next]_vars
  PROVE  SweepInv'
<1>0. TypeInv /\ UploadInv /\ SweepInv
  BY DEF IInv
<1>. SUFFICES ASSUME NEW c \in Cleaner PROVE SweepOf(c)'
  BY DEF SweepInv
<1>. USE DEF rows
<1>1. CASE clean'[c] = clean[c]
  BY <1>1, SweepStays
<1>2. CASE Restart
  BY <1>2 DEF Restart, Begin, SweepOf
<1>3. ASSUME Walk(c) PROVE SweepOf(c)'
  <2>. PICK S \in Seen(clean[c].root) : Continue(c, {x \in S : Eligible(x)})
    BY <1>3 DEF Walk
  <2>. DEFINE seen == {x \in S : Eligible(x)}
  <2>1. Continue(c, seen) /\ upload' = upload
    BY <1>3 DEF Walk
  <2>2. seen \in SUBSET File /\ seen \subseteq {clean[c].root} \X Photo
    BY <1>0, SeenFiles
  <2>3. ASSUME NEW x \in seen PROVE upload[x[2]] = "over"
    <3>1. /\ x[2] \in Photo /\ file[x] # "none" /\ x \notin fresh
          /\ x = Private(x[2]) \/ x = Canonical(x[2])
      BY <1>0, <2>2 DEF TypeInv, Eligible, File, Root, Private, Canonical
    <3>. QED
      BY <1>0, <3>1 DEF UploadInv, TypeInv
  <2>. HIDE DEF seen
  <2>. QED
    BY <2>1, <2>2, <2>3, SweepContinues
<1>4. ASSUME Ask(c) \/ Sweep(c), Continue(c, clean[c].left \ {Current(c)})
      PROVE  SweepOf(c)'
  <2>. DEFINE left == clean[c].left \ {Current(c)}
  <2>1. /\ left \in SUBSET File /\ left \subseteq {clean[c].root} \X Photo
        /\ \A x \in left : upload'[x[2]] = "over"
    BY <1>0, <1>4 DEF TypeInv, SweepInv, SweepOf, Ask, Sweep
  <2>. HIDE DEF left
  <2>. QED
    BY <1>4, <2>1, SweepContinues DEF left
<1>5. ASSUME Ask(c), ~Claimed(Current(c), clean[c].at),
             clean' = [clean EXCEPT ![c].at = Following(Current(c), clean[c].at)]
      PROVE  SweepOf(c)'
  <2>. DEFINE x == Current(c)
              next == Following(Current(c), clean[c].at)
  <2>1. /\ clean'[c].at = next /\ clean'[c].root = clean[c].root
        /\ clean'[c].left = clean[c].left
        /\ clean[c].at \in {"staged", "photo", "event"}
        /\ UNCHANGED <<upload, staged, photos>>
    BY <1>0, <1>5 DEF TypeInv, Ask
  <2>2. SweepOf(c) /\ x[1] = clean[c].root
    BY <1>0, <1>5, SweepsSomeFile DEF SweepInv, Ask
  <2>3. Current(c)' = x
    BY <2>1 DEF Current
  <2>4. x[2] \notin staged
    BY <1>5, <2>1, <2>2 DEF Claimed, SweepOf
  <2>5. next \in {"photo", "event", "delete"}
    BY <2>1 DEF Following
  <2>6. clean[c].root = "private" => next = "delete"
    BY <2>2 DEF Following
  <2>7. clean[c].root = "canonical" /\ next \in {"event", "delete"}
          => x[2] \notin photos
    BY <1>5, <2>1, <2>2 DEF Claimed, Following, SweepOf
  <2>. HIDE DEF x, next
  <2>. QED
    BY <2>1, <2>2, <2>3, <2>4, <2>5, <2>6, <2>7 DEF SweepOf
<1>6. ASSUME NEW d \in Cleaner \ {c}, Walk(d) \/ Ask(d) \/ Sweep(d)
      PROVE  clean'[c] = clean[c]
  <2>1. clean \in [Cleaner -> [root : {"private", "canonical"},
                     at : {"walk", "staged", "photo", "event", "delete"},
                     left : SUBSET File]]
    BY <1>0 DEF TypeInv
  <2>. QED
    BY <1>6, <2>1 DEF Walk, Ask, Sweep, Continue
<1>7. ASSUME NEW d \in Cleaner, Walk(d) \/ Ask(d) \/ Sweep(d)
      PROVE  SweepOf(c)'
  BY <1>1, <1>3, <1>4, <1>5, <1>6, <1>7 DEF Ask, Sweep
<1>8. ASSUME clean' = clean PROVE SweepOf(c)'
  BY <1>1, <1>8
<1>. QED
  BY <1>2, <1>7, <1>8, IntakeSteps
     DEF vars, Resolve, StartUpload, Save, InsertStaged, Unstage,
         RemovePrivate, DeletePhoto, StartFinalize, Look, OpenCanonical,
         FillCanonical, CommitFinalize, SettleEvent

\* A finalization that does not move keeps what it has prepared.
LEMMA FinStays ==
  ASSUME IInv, [Next]_vars, NEW f \in Finalizer, fin'[f] = fin[f]
  PROVE  FinOf(f)'
<1>1. FinOf(f) /\ fin[f].manifest \subseteq Photo
  BY DEF IInv, FinInv, TypeInv
<1>2. \A p \in fin[f].manifest : upload[p] = "over"
  BY <1>1 DEF FinOf
<1>3. \A p \in fin[f].manifest : p \in Kept' => p \in Kept
  BY <1>1, <1>2, RowsMove DEF Kept
<1>4. NextPhoto(f)' = NextPhoto(f)
  BY DEF NextPhoto
<1>5. fin[f].at = "fill" => NextPhoto(f) \in fin[f].manifest
  BY <1>1, WritesSomePhoto DEF FinOf
<1>. QED
  BY <1>1, <1>2, <1>3, <1>4, <1>5, RowsMove, FilesMove DEF FinOf

\* A photo is prepared when its file is there.
LEMMA FinPrepares ==
  ASSUME IInv, [Next]_vars, NEW f \in Finalizer, Prepared(f),
         fin[f].at \in {"look", "open", "fill"},
         NEW p \in Photo, p = NextPhoto(f), p \in Kept' => Good(p)'
  PROVE  FinOf(f)'
<1>1. FinOf(f) /\ TypeInv
  BY DEF IInv, FinInv
<1>2. \A q \in fin[f].manifest : upload[q] = "over" /\ q \in Photo
  BY <1>1 DEF FinOf, TypeInv
<1>3. \A q \in fin[f].manifest : q \in Kept' => q \in Kept
  BY <1>2, RowsMove DEF Kept
<1>4. /\ fin'[f].manifest = fin[f].manifest
      /\ fin'[f].todo = fin[f].todo \ {p}
      /\ fin'[f].at = IF fin'[f].todo = {} THEN "commit" ELSE "look"
  BY <1>1, PreparedFields
<1>5. \A q \in fin'[f].manifest : upload'[q] = "over"
  BY <1>2, <1>4, RowsMove
<1>6. ASSUME NEW q \in fin'[f].manifest \ fin'[f].todo, q \in Kept'
      PROVE  Good(q)'
  <2>1. CASE q = p
    BY <1>6, <2>1
  <2>2. CASE q # p
    <3>1. q \in fin[f].manifest \ fin[f].todo
      BY <1>4, <2>2
    <3>2. q \in Kept /\ Good(q) /\ q \in Photo
      BY <1>1, <1>2, <1>3, <1>6, <3>1 DEF FinOf
    <3>. QED
      BY <3>2, FilesMove
  <2>. QED
    BY <2>1, <2>2
<1>. QED
  BY <1>1, <1>4, <1>5, <1>6 DEF FinOf

LEMMA FinStep ==
  ASSUME IInv, [Next]_vars
  PROVE  FinInv'
<1>0. TypeInv /\ UploadInv
  BY DEF IInv
<1>. SUFFICES ASSUME NEW f \in Finalizer PROVE FinOf(f)'
  BY DEF FinInv
<1>. USE DEF rows
<1>1. CASE fin'[f] = fin[f]
  BY <1>1, FinStays
<1>2. CASE fin'[f] = Idle
  BY <1>2 DEF Idle, FinOf
<1>3. CASE Restart
  BY <1>2, <1>3 DEF Restart
<1>4. ASSUME StartFinalize(f) PROVE FinOf(f)'
  <2>1. /\ fin'[f] = [at |-> "look", manifest |-> staged, todo |-> staged]
        /\ staged # {} /\ upload' = upload /\ staged \subseteq Photo
    BY <1>0, <1>4 DEF StartFinalize, TypeInv
  <2>. QED
    BY <1>0, <2>1 DEF FinOf, UploadInv
<1>5. ASSUME Look(f) PROVE FinOf(f)'
  <2>1. PICK p \in Photo : p = NextPhoto(f) /\ fin[f].at = "look"
    BY <1>5, WritesSomePhoto DEF Look
  <2>2. CASE Stop(f)
    BY <1>0, <1>2, <2>2, Stopped
  <2>3. CASE file[Canonical(p)] = "whole" /\ Prepared(f)
    BY <1>5, <2>1, <2>3, FinPrepares DEF Good, Look
  <2>4. CASE fin' = [fin EXCEPT ![f].at = "open"]
    <3>1. /\ fin'[f].at = "open" /\ fin'[f].manifest = fin[f].manifest
          /\ fin'[f].todo = fin[f].todo
      BY <1>0, <2>4 DEF TypeInv
    <3>2. UNCHANGED <<upload, staged, photos, file, doubled>> /\ FinOf(f)
      BY <1>5 DEF Look, IInv, FinInv
    <3>. QED
      BY <2>1, <3>1, <3>2 DEF FinOf, Kept, Good
  <2>. QED
    BY <1>5, <2>1, <2>2, <2>3, <2>4 DEF Look
<1>6. ASSUME OpenCanonical(f) PROVE FinOf(f)'
  <2>. DEFINE p == NextPhoto(f)
  <2>1. p \in Photo /\ fin[f].at = "open" /\ FinOf(f)
    BY <1>6, WritesSomePhoto DEF OpenCanonical, IInv, FinInv
  <2>2. /\ fin'[f].at = "fill" /\ fin'[f].manifest = fin[f].manifest
        /\ fin'[f].todo = fin[f].todo
        /\ UNCHANGED <<upload, staged, photos>>
    BY <1>0, <1>6 DEF OpenCanonical, TypeInv
  <2>3. NextPhoto(f)' = p
    BY <2>2 DEF NextPhoto
  <2>4. file'[Canonical(p)] = "partial"
    BY <1>0, <1>6, <2>1, FileFields, WrittenFields DEF OpenCanonical
  <2>5. \A q \in fin[f].manifest \ fin[f].todo : q \in Kept => Good(q)'
    BY <1>0, <2>1, FilesMove DEF FinOf, TypeInv
  <2>6. Kept' = Kept
    BY <2>2 DEF Kept
  <2>. HIDE DEF p
  <2>. QED
    BY <2>1, <2>2, <2>3, <2>4, <2>5, <2>6 DEF FinOf
<1>7. ASSUME FillCanonical(f) PROVE FinOf(f)'
  <2>1. PICK p \in Photo :
          /\ p = NextPhoto(f) /\ fin[f].at = "fill"
          /\ UNCHANGED <<staged, photos, doubled>>
    BY <1>7, WritesSomePhoto DEF FillCanonical
  <2>2. CASE Stop(f)
    BY <1>0, <1>2, <2>2, Stopped
  <2>3. CASE Prepared(f)
    <3>1. PICK state \in {"partial", "whole"} :
            /\ Written(Canonical(p), state)
            /\ state = "partial" =>
                 \E g \in Finalizer \ {f} : fin[g].at = "fill" /\ NextPhoto(g) = p
      <4>1. CASE UNCHANGED <<file, fresh>> /\ Stop(f)
        <5>1. fin'[f].at = "idle" /\ fin'[f].at # "idle"
          BY <1>0, <2>3, <4>1, Stopped, PreparedFields DEF Idle
        <5>. QED
          BY <5>1
      <4>. QED
        BY <1>7, <2>1, <4>1 DEF FillCanonical
    <3>2. p \in Kept /\ state = "partial" => p \in doubled
      BY <2>1, <3>1 DEF IInv, PairInv
    <3>3. file'[Canonical(p)] = state
      BY <1>0, <2>1, <3>1, FileFields, WrittenFields
    <3>4. p \in Kept' => Good(p)'
      BY <2>1, <3>2, <3>3 DEF Good, Kept
    <3>. QED
      BY <2>1, <2>3, <3>4, FinPrepares
  <2>. QED
    BY <1>7, <2>2, <2>3 DEF FillCanonical
<1>8. ASSUME CommitFinalize(f) PROVE FinOf(f)'
  BY <1>0, <1>2, <1>8, Stopped DEF CommitFinalize
<1>9. ASSUME NEW g \in Finalizer \ {f},
             StartFinalize(g) \/ Look(g) \/ OpenCanonical(g) \/ FillCanonical(g)
               \/ CommitFinalize(g)
      PROVE  fin'[f] = fin[f]
  BY <1>0, <1>9, PreparedFields
     DEF StartFinalize, Look, OpenCanonical, FillCanonical, CommitFinalize,
         Stop, TypeInv
<1>10. ASSUME NEW g \in Finalizer,
              StartFinalize(g) \/ Look(g) \/ OpenCanonical(g) \/ FillCanonical(g)
                \/ CommitFinalize(g)
       PROVE  FinOf(f)'
  BY <1>1, <1>4, <1>5, <1>6, <1>7, <1>8, <1>9, <1>10
<1>11. ASSUME fin' = fin PROVE FinOf(f)'
  BY <1>1, <1>11
<1>. QED
  BY <1>3, <1>10, <1>11, IntakeSteps
     DEF vars, Resolve, StartUpload, Save, InsertStaged, Unstage,
         RemovePrivate, DeletePhoto, SettleEvent, Walk, Ask, Sweep

\* Only opening a file brings a finalization to writing it.
LEMMA OpensFirst ==
  ASSUME IInv, [Next]_vars, NEW f \in Finalizer, fin'[f].at = "fill"
  PROVE  fin'[f] = fin[f] \/ OpenCanonical(f)
<1>0. TypeInv
  BY DEF IInv
<1>. USE DEF rows
<1>1. CASE fin' = fin
  BY <1>1
<1>2. CASE Restart
  BY <1>2 DEF Restart, Idle
<1>3. ASSUME NEW g \in Finalizer, g # f,
             StartFinalize(g) \/ Look(g) \/ OpenCanonical(g) \/ FillCanonical(g)
               \/ CommitFinalize(g)
      PROVE  fin'[f] = fin[f]
  BY <1>0, <1>3, PreparedFields
     DEF StartFinalize, Look, OpenCanonical, FillCanonical, CommitFinalize,
         Stop, TypeInv
<1>4. ASSUME StartFinalize(f) \/ Look(f) \/ FillCanonical(f) \/ CommitFinalize(f)
      PROVE  FALSE
  BY <1>0, <1>4, PreparedFields
     DEF StartFinalize, Look, FillCanonical, CommitFinalize, Stop, Idle, TypeInv
<1>. QED
  BY <1>1, <1>2, <1>3, <1>4, IntakeSteps
     DEF vars, Resolve, StartUpload, Save, InsertStaged, Unstage,
         RemovePrivate, DeletePhoto, SettleEvent, Walk, Ask, Sweep

LEMMA PairStep ==
  ASSUME IInv, [Next]_vars
  PROVE  PairInv'
<1>0. TypeInv /\ PairInv /\ FinInv
  BY DEF IInv
<1>1. SUFFICES ASSUME NEW f \in Finalizer, NEW g \in Finalizer, f # g,
                      fin'[f].at = "fill", fin'[g].at = "fill",
                      NextPhoto(f)' = NextPhoto(g)', NextPhoto(f)' \in Kept'
               PROVE  NextPhoto(f)' \in doubled'
  BY DEF PairInv
<1>2. ASSUME NEW h \in Finalizer, fin'[h] = fin[h], fin'[h].at = "fill",
             NextPhoto(h)' \in Kept'
      PROVE  /\ NextPhoto(h)' = NextPhoto(h) /\ NextPhoto(h) \in Photo
             /\ NextPhoto(h) \in Kept
             /\ doubled \subseteq doubled'
             /\ file[Canonical(NextPhoto(h))] # "none"
  <2>1. NextPhoto(h)' = NextPhoto(h)
    BY <1>2 DEF NextPhoto
  <2>2. PICK p \in Photo : p = NextPhoto(h) /\ upload[p] = "over"
    BY <1>2, WritesSomePhoto
  <2>3. p \in Kept
    BY <1>2, <2>1, <2>2, RowsMove DEF Kept
  <2>. QED
    BY <1>0, <1>2, <2>1, <2>2, <2>3, FilesMove DEF FinInv, FinOf
\* The first was writing when the second opened the file.
<1>3. ASSUME NEW h \in Finalizer, NEW k \in Finalizer, h # k, OpenCanonical(h),
             fin'[k].at = "fill", NextPhoto(h)' = NextPhoto(k)',
             NextPhoto(k)' \in Kept'
      PROVE  NextPhoto(k)' \in doubled'
  <2>1. fin'[k] = fin[k] /\ NextPhoto(h)' = NextPhoto(h)
    BY <1>0, <1>3 DEF OpenCanonical, TypeInv, NextPhoto
  <2>2. /\ NextPhoto(k)' = NextPhoto(h)
        /\ file[Canonical(NextPhoto(h))] # "none"
    BY <1>2, <1>3, <2>1
  <2>. QED
    BY <1>3, <2>2 DEF OpenCanonical
<1>4. CASE fin'[f] = fin[f] /\ fin'[g] = fin[g]
  <2>1. /\ NextPhoto(f)' = NextPhoto(f) /\ NextPhoto(f) \in Kept
        /\ NextPhoto(g)' = NextPhoto(g) /\ doubled \subseteq doubled'
    BY <1>1, <1>2, <1>4
  <2>. QED
    BY <1>0, <1>1, <1>4, <2>1 DEF PairInv
<1>. QED
  BY <1>1, <1>3, <1>4, OpensFirst

LEMMA PhotosStep ==
  ASSUME IInv, [Next]_vars
  PROVE  PhotosAreKept'
<1>0. TypeInv /\ PhotosAreKept /\ FinInv
  BY DEF IInv
<1>1. SUFFICES ASSUME NEW p \in Photo, p \in photos' PROVE Good(p)'
  BY TypeStep DEF PhotosAreKept, Good, TypeInv
<1>2. CASE p \in photos
  BY <1>0, <1>2, FilesMove DEF PhotosAreKept, Good, Kept
<1>3. CASE p \notin photos
  <2>1. PICK f \in Finalizer :
          /\ fin[f].at = "commit" /\ p \in fin[f].manifest
          /\ fin[f].manifest = staged
    BY <1>1, <1>3, IntakeSteps
       DEF vars, rows, Resolve, Restart, StartUpload, Save, InsertStaged,
           Unstage, RemovePrivate, DeletePhoto, StartFinalize, Look,
           OpenCanonical, FillCanonical, CommitFinalize, SettleEvent, Walk,
           Ask, Sweep
  <2>2. p \in Kept /\ Good(p)
    BY <1>0, <2>1 DEF FinInv, FinOf, Kept
  <2>. QED
    BY <2>2, FilesMove
<1>. QED
  BY <1>2, <1>3

-----------------------------------------------------------------------------
(***************************************************************************)
(* Theorems.                                                               *)
(***************************************************************************)
(* The invariant holds whatever uploads, finalizations, cleanups and       *)
(* restarts do.                                                            *)
THEOREM IntakeInductive == Spec => []IInv
<1>1. Init => IInv
  <2>1. Init => TypeInv
    BY TypeInit
  <2>2. Init => UploadInv /\ PhotosAreKept
    BY FileFields DEF Init, UploadInv, PhotosAreKept
  <2>3. Init => SweepInv
    BY DEF Init, SweepInv, SweepOf, Begin
  <2>4. Init => FinInv /\ PairInv
    BY DEF Init, FinInv, FinOf, PairInv, Idle
  <2>. QED
    BY <2>1, <2>2, <2>3, <2>4 DEF IInv
<1>2. IInv /\ [Next]_vars => IInv'
  BY TypeStep, UploadStep, SweepStep, FinStep, PairStep, PhotosStep DEF IInv
<1>. QED
  BY <1>1, <1>2, PTL DEF Spec

(* uploadPhotoWithStorage, sweepPrivateOrphans: no cleanup takes the file  *)
(* of a staged row.                                                        *)
THEOREM StagedFilesStay == Spec => []SourcesAreKept
<1>1. IInv => SourcesAreKept
  BY DEF IInv, UploadInv, SourcesAreKept, TypeInv
<1>. QED
  BY <1>1, IntakeInductive, PTL

(* finalizeAiIntakePhotos, sweepCanonicalOrphans: a photo of the product   *)
(* has its file, whole unless two finalizations have opened it.            *)
THEOREM PhotoFilesStay == Spec => []PhotosAreKept
<1>1. IInv => PhotosAreKept
  BY DEF IInv
<1>. QED
  BY <1>1, IntakeInductive, PTL
=============================================================================
