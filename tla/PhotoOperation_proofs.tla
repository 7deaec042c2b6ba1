----------------------- MODULE PhotoOperation_proofs -----------------------
(***************************************************************************)
(* Proofs about PhotoOperation for every set of executions, processes and  *)
(* machines and every number of artifacts.                                 *)
(***************************************************************************)
EXTENDS PhotoOperationInv, TLAPS

LEMMA ArtFacts ==
  /\ ArtCount \in Nat \ {0}
  /\ 1 \in Art
  /\ Art \subseteq Nat
BY ConstantsAssumption DEF Art

LEMMA PhaseFacts ==
  /\ {"idle", "claim", "reclassify", "resume", "prepare", "seal", "intent"}
       \subseteq Phase
  /\ {"publish", "record", "link", "resolve", "review", "commit", "committing"}
       \subseteq Phase
  /\ {"answered", "refused", "fenced", "failed", "crashed"} \subseteq Phase
BY DEF Phase, Running, Stopped, Claiming, Preparing, Publishing

(* The columns of typed rows and of what an execution holds. *)
LEMMA ColumnTypes ==
  ASSUME TypeOK
  PROVE  /\ op.state \in OpStates /\ op.gen \in Nat /\ op.owner \in Owner
         /\ op.seal \in Owner /\ op.lease \in BOOLEAN
         /\ intent.state \in IntentStates /\ intent.gen \in Nat
         /\ intent.owner \in Owner /\ intent.seal \in Owner
         /\ intent.epoch \in Nat /\ intent.token \in Owner
         /\ \A e \in Exec :
              /\ gens[e] \in Generation /\ gens[e].no \in Nat
              /\ mine[e] \in Authority
              /\ mine[e].gen \in Nat /\ mine[e].owner \in Owner
              /\ mine[e].seal \in Owner /\ mine[e].epoch \in Nat
BY DEF TypeOK, Operation, Intent, Generation, Authority

(* Sweeping the staging names of an artifact keeps those it is told to keep   *)
(* and those of every other artifact.                                        *)
LEMMA SweptFacts ==
  \A e \in Exec :
    /\ Swept(e, {}) \subseteq staged
    /\ Swept(e, {canonical[art[e]]}) \subseteq staged
    /\ \A f, a : <<f, a>> \in staged /\ a /= art[e] => <<f, a>> \in Swept(e, {})
    /\ \A f, a : <<f, a>> \in staged /\ (a /= art[e] \/ f = canonical[art[e]])
                 => <<f, a>> \in Swept(e, {canonical[art[e]]})
<1> SUFFICES ASSUME NEW e \in Exec
    PROVE  /\ Swept(e, {}) \subseteq staged
           /\ Swept(e, {canonical[art[e]]}) \subseteq staged
           /\ \A f, a : <<f, a>> \in staged /\ a /= art[e]
                         => <<f, a>> \in Swept(e, {})
           /\ \A f, a : <<f, a>> \in staged
                           /\ (a /= art[e] \/ f = canonical[art[e]])
                         => <<f, a>> \in Swept(e, {canonical[art[e]]})
  OBVIOUS
<1>1. Swept(e, {}) \subseteq staged
  BY DEF Swept
<1>2. Swept(e, {canonical[art[e]]}) \subseteq staged
  BY DEF Swept
<1>3. ASSUME NEW f, NEW a, <<f, a>> \in staged, a /= art[e]
      PROVE  <<f, a>> \in Swept(e, {})
  BY <1>3 DEF Swept
<1>4. ASSUME NEW f, NEW a, <<f, a>> \in staged,
             a /= art[e] \/ f = canonical[art[e]]
      PROVE  <<f, a>> \in Swept(e, {canonical[art[e]]})
  BY <1>4 DEF Swept
<1> QED
  BY <1>1, <1>2, <1>3, <1>4

(* Type correctness: every action keeps every row, file and local variable   *)
(* of the protocol within its type.                                          *)
LEMMA TypeStep == TypeInv /\ [Next]_vars => TypeOK'
<1> SUFFICES ASSUME TypeInv, [Next]_vars PROVE TypeOK'
  OBVIOUS
<1> USE DEF Goto, Close, dbVars, fileVars, execVars
<1>type. TypeOK
  BY DEF TypeInv
<1>1. ASSUME NEW e \in Exec, Start(e) PROVE TypeOK'
  BY <1>type, <1>1, ArtFacts, PhaseFacts DEF TypeOK, Start
<1>2. ASSUME NEW e \in Exec, Create(e) PROVE TypeOK'
  <2>1. op' \in Operation
    BY <1>type, <1>2, ColumnTypes
    DEF Create, Owner, Operation, OpStates, TypeOK
  <2>2. gens' \in [Exec -> Generation]
    BY <1>type, <1>2, ColumnTypes
    DEF Create, Generation, TypeOK
  <2>3. mine' \in [Exec -> Authority]
    BY <1>type, <1>2, ColumnTypes
    DEF Create, Claimed, Owner, Authority, TypeOK
  <2> QED
    BY <1>type, <1>2, <2>1, <2>2, <2>3, PhaseFacts, ArtFacts
    DEF TypeOK, Create
<1>3. ASSUME NEW e \in Exec, Reclaim(e) PROVE TypeOK'
  <2>1. op' \in Operation
    BY <1>type, <1>3, ColumnTypes
    DEF Reclaim, Owner, Operation, OpStates, TypeOK
  <2>2. gens' \in [Exec -> Generation]
    <3>1. \A f \in Exec : Superseded(f) \in Generation
      BY ColumnTypes, <1>type DEF Superseded, Generation
    <3>2. [no |-> op.gen + 1, state |-> "active"] \in Generation
      BY ColumnTypes, <1>type DEF Generation
    <3> QED
      BY <1>3, <3>1, <3>2 DEF Reclaim
  <2>3. mine' \in [Exec -> Authority]
    <3>1. Claimed(e, op.gen + 1) \in Authority
      BY ColumnTypes, <1>type DEF Claimed, Owner, Authority
    <3> QED
      BY <1>3, <1>type, <3>1 DEF Reclaim, TypeOK
  <2>4. pc' \in [Exec -> Phase]
    BY <1>type, <1>3, PhaseFacts
    DEF Reclaim, TypeOK
  <2>5. active' \subseteq Exec
    BY <1>type, <1>3
    DEF Reclaim, TypeOK
  <2> QED
    BY <1>type, <1>3, <2>1, <2>2, <2>3, <2>4, <2>5, PhaseFacts, ArtFacts
    DEF TypeOK, Reclaim
<1>4. ASSUME NEW e \in Exec, FindBusy(e) PROVE TypeOK'
  BY <1>type, <1>4, ArtFacts, PhaseFacts DEF TypeOK, FindBusy
<1>5. ASSUME NEW e \in Exec, FindTerminal(e) PROVE TypeOK'
  BY <1>type, <1>5, ArtFacts, PhaseFacts DEF TypeOK, FindTerminal
<1>6. ASSUME NEW e \in Exec, Prepare(e) PROVE TypeOK'
  BY <1>type, <1>6, ArtFacts, PhaseFacts DEF TypeOK, Prepare
<1>7. ASSUME NEW e \in Exec, RejectInput(e) PROVE TypeOK'
  <2>1. op' \in Operation
    BY <1>type, <1>7, ColumnTypes
    DEF RejectInput, OpStates, ReviewOperation, Operation, Owner, TypeOK
  <2>2. src' \in [Exec -> {"none", "intact", "damaged", "rejected"}]
    BY <1>type, <1>7
    DEF RejectInput, TypeOK
  <2> QED
    BY <1>type, <1>7, <2>1, <2>2, PhaseFacts, ArtFacts
    DEF TypeOK, RejectInput
<1>8. ASSUME NEW e \in Exec, Seal(e) PROVE TypeOK'
  <2>1. op' \in Operation
    <3>1. [op EXCEPT !.state = "sealed", !.seal = e] \in Operation
      BY <1>type DEF TypeOK, Operation, OpStates, Owner
    <3> QED
      BY <1>8, <1>type, <3>1 DEF Seal, TypeOK
  <2>2. seals' \in [Exec -> Nat]
    BY <1>type, <1>8, ColumnTypes
    DEF Seal, TypeOK
  <2>3. mine' \in [Exec -> Authority]
    <3>1. [mine[e] EXCEPT !.seal = e] \in Authority
      BY <1>type, ColumnTypes DEF Authority, Owner
    <3> QED
      BY <1>8, <1>type, <3>1 DEF Seal, TypeOK
  <2>4. pc' \in [Exec -> Phase]
    BY <1>type, <1>8, PhaseFacts
    DEF Seal, TypeOK
  <2>5. active' \subseteq Exec
    BY <1>type, <1>8
    DEF Seal, TypeOK
  <2> QED
    BY <1>type, <1>8, <2>1, <2>2, <2>3, <2>4, <2>5, PhaseFacts, ArtFacts
    DEF TypeOK, Seal
<1>9. ASSUME NEW e \in Exec, AcquireIntent(e) PROVE TypeOK'
  <2>1. intent' \in Intent
    BY <1>type, <1>9, ColumnTypes
    DEF AcquireIntent, Owner, Intent, IntentStates, TypeOK
  <2>2. mine' \in [Exec -> Authority]
    <3>1. [mine[e] EXCEPT !.epoch = 1] \in Authority
      BY <1>type, ColumnTypes DEF Authority
    <3> QED
      BY <1>9, <1>type, <3>1 DEF AcquireIntent, TypeOK
  <2>3. pc' \in [Exec -> Phase]
    BY <1>type, <1>9, PhaseFacts
    DEF AcquireIntent, TypeOK
  <2>4. active' \subseteq Exec
    BY <1>type, <1>9
    DEF AcquireIntent, TypeOK
  <2> QED
    BY <1>type, <1>9, <2>1, <2>2, <2>3, <2>4, PhaseFacts, ArtFacts
    DEF TypeOK, AcquireIntent
<1>10. ASSUME NEW e \in Exec, Transfer(e) PROVE TypeOK'
  <2>1. exits' \subseteq [epoch : Nat, identity : Proc]
    BY <1>type, <1>10, ColumnTypes, TypeInv
    DEF Transfer, TypeInv, TokenInv, TypeOK
  <2>2. intent' \in Intent
    <3>1. intent.epoch + 1 \in Nat /\ e \in Owner
      BY <1>type, ColumnTypes DEF Owner
    <3>2. [intent EXCEPT !.epoch = intent.epoch + 1, !.token = e] \in Intent
      BY <1>type, <3>1 DEF TypeOK, Intent
    <3> QED
      BY <1>10, <3>2 DEF Transfer
  <2>3. mine' \in [Exec -> Authority]
    BY <1>type, <1>10, ColumnTypes
    DEF Transfer, Authority, Owner, TypeOK
  <2>4. pc' \in [Exec -> Phase]
    BY <1>type, <1>10, PhaseFacts
    DEF Transfer, TypeOK
  <2>5. active' \subseteq Exec
    BY <1>type, <1>10
    DEF Transfer, TypeOK
  <2> QED
    BY <1>type, <1>10, <2>1, <2>2, <2>3, <2>4, <2>5, PhaseFacts, ArtFacts
    DEF TypeOK, Transfer
<1>11. ASSUME NEW e \in Exec, StayBlocked(e) PROVE TypeOK'
  BY <1>type, <1>11, ArtFacts, PhaseFacts DEF TypeOK, StayBlocked
<1>12. ASSUME NEW e \in Exec, FindSettled(e) PROVE TypeOK'
  BY <1>type, <1>12, ArtFacts, PhaseFacts DEF TypeOK, FindSettled
<1>13. ASSUME NEW e \in Exec, FindCanonical(e) PROVE TypeOK'
  BY <1>type, <1>13, ArtFacts, PhaseFacts DEF TypeOK, FindCanonical
<1>14. ASSUME NEW e \in Exec, CopySealed(e) PROVE TypeOK'
  <2>1. bytes' \in [Exec -> [Art -> Owner]]
    <3>1. SourceBytes(mine[e].seal) \in Owner
      BY <1>type, ColumnTypes DEF SourceBytes, Owner
    <3>2. [bytes[e] EXCEPT ![art[e]] = SourceBytes(mine[e].seal)]
            \in [Art -> Owner]
      BY <1>type, <3>1 DEF TypeOK
    <3> QED
      BY <1>14, <1>type, <3>2 DEF CopySealed, TypeOK
  <2>2. staged' \subseteq Exec \X Art
    <3>1. staged' \subseteq Swept(e, {}) \union {<<e, art[e]>>}
      BY <1>14 DEF CopySealed
    <3>2. staged \subseteq Exec \X Art /\ art[e] \in Art
      BY <1>type DEF TypeOK
    <3>3. Swept(e, {}) \subseteq staged
      BY SweptFacts
    <3> QED
      BY <3>1, <3>2, <3>3
  <2>3. pc' \in [Exec -> Phase]
    BY <1>type, <1>14, PhaseFacts
    DEF CopySealed, TypeOK
  <2> QED
    BY <1>type, <1>14, <2>1, <2>2, <2>3, PhaseFacts, ArtFacts
    DEF TypeOK, CopySealed
<1>15. ASSUME NEW e \in Exec, RecordCopy(e) PROVE TypeOK'
  <2>1. copyRow' \in [Art -> Owner]
    BY <1>type, <1>15
    DEF RecordCopy, Owner, TypeOK
  <2>2. staged' \subseteq Exec \X Art
    BY <1>type, <1>15, SweptFacts
    DEF RecordCopy, DropOwnStaging, TypeOK
  <2>3. pc' \in [Exec -> Phase]
    BY <1>type, <1>15, PhaseFacts
    DEF RecordCopy, TypeOK
  <2>4. active' \subseteq Exec
    BY <1>type, <1>15
    DEF RecordCopy, TypeOK
  <2> QED
    BY <1>type, <1>15, <2>1, <2>2, <2>3, <2>4, PhaseFacts, ArtFacts
    DEF TypeOK, RecordCopy
<1>16. ASSUME NEW e \in Exec, Link(e) PROVE TypeOK'
  <2>1. canonical' \in [Art -> Owner \union {Foreign}]
    BY <1>type, <1>16
    DEF Link, Owner, TypeOK
  <2>2. pc' \in [Exec -> Phase]
    BY <1>type, <1>16, PhaseFacts
    DEF Link, NextArtifact, TypeOK
  <2>3. art' \in [Exec -> Art]
    BY <1>type, <1>16, ArtFacts
    DEF Link, NextArtifact, TypeOK
  <2> QED
    BY <1>type, <1>16, <2>1, <2>2, <2>3, PhaseFacts, ArtFacts
    DEF TypeOK, Link
<1>17. ASSUME NEW e \in Exec, Resolve(e) PROVE TypeOK'
  <2>1. pc' \in [Exec -> Phase]
    BY <1>type, <1>17, PhaseFacts
    DEF Resolve, NextArtifact, TypeOK
  <2>2. art' \in [Exec -> Art]
    BY <1>type, <1>17, ArtFacts
    DEF Resolve, NextArtifact, TypeOK
  <2>3. staged' \subseteq Exec \X Art
    BY <1>type, <1>17, SweptFacts
    DEF Resolve, TypeOK
  <2> QED
    BY <1>type, <1>17, <2>1, <2>2, <2>3, PhaseFacts, ArtFacts
    DEF TypeOK, Resolve
<1>18. ASSUME NEW e \in Exec, ReviewPublication(e) PROVE TypeOK'
  <2>1. op' \in Operation
    BY <1>type, <1>18, ColumnTypes
    DEF ReviewPublication, OpStates, ReviewOperation, Operation, Owner, TypeOK
  <2>2. intent' \in Intent
    BY <1>type, <1>18, ColumnTypes
    DEF ReviewPublication, IntentStates, Intent, Owner, TypeOK
  <2> QED
    BY <1>type, <1>18, <2>1, <2>2, PhaseFacts, ArtFacts
    DEF TypeOK, ReviewPublication
<1>19. ASSUME NEW e \in Exec, RequestCommit(e) PROVE TypeOK'
  <2>1. pc' \in [Exec -> Phase]
    BY <1>type, <1>19, PhaseFacts
    DEF RequestCommit, TypeOK
  <2>2. active' \subseteq Exec
    BY <1>type, <1>19
    DEF RequestCommit, TypeOK
  <2>3. rowLock' \in Owner
    BY <1>type, <1>19 DEF TypeOK, RequestCommit, Owner
  <2> QED
    BY <1>type, <1>19, <2>1, <2>2, <2>3, PhaseFacts, ArtFacts
    DEF TypeOK, RequestCommit
<1>20. ASSUME NEW e \in Exec, CommitDone(e) PROVE TypeOK'
  <2>1. op' \in Operation
    BY <1>type, <1>20, ColumnTypes
    DEF CommitDone, OpStates, Operation, Owner, TypeOK
  <2>2. gens' \in [Exec -> Generation]
    BY <1>type, <1>20, ColumnTypes
    DEF CommitDone, Generation, TypeOK
  <2>3. intent' \in Intent
    BY <1>type, <1>20, ColumnTypes
    DEF CommitDone, IntentStates, Intent, Owner, TypeOK
  <2>4. photos' \subseteq [by : Exec, gen : Nat, seal : Owner]
    BY <1>type, <1>20, ColumnTypes
    DEF CommitDone, TypeOK
  <2>5. pc' \in [Exec -> Phase]
    BY <1>type, <1>20, PhaseFacts
    DEF CommitDone, Settle, TypeOK
  <2>6. active' \subseteq Exec
    BY <1>type, <1>20
    DEF CommitDone, Settle, TypeOK
  <2> QED
    BY <1>type, <1>20, <2>1, <2>2, <2>3, <2>4, <2>5, <2>6, PhaseFacts, ArtFacts
    DEF TypeOK, CommitDone, Owner
<1>21. ASSUME NEW e \in Exec, CommitAborted(e) PROVE TypeOK'
  <2>1. pc' \in [Exec -> Phase]
    BY <1>type, <1>21, PhaseFacts
    DEF CommitAborted, Settle, TypeOK
  <2>2. active' \subseteq Exec
    BY <1>type, <1>21
    DEF CommitAborted, Settle, TypeOK
  <2> QED
    BY <1>type, <1>21, <2>1, <2>2, PhaseFacts, ArtFacts
    DEF TypeOK, CommitAborted, Owner
<1>22. CASE ExpireLease
  <2>1. op' \in Operation
    BY <1>type, <1>22, ColumnTypes
    DEF ExpireLease, Operation, OpStates, Owner, TypeOK
  <2> QED
    BY <1>type, <1>22, <2>1, PhaseFacts, ArtFacts
    DEF TypeOK, ExpireLease
<1>23. ASSUME NEW e \in Exec, Fail(e) PROVE TypeOK'
  <2>1. staged' \subseteq Exec \X Art
    BY <1>type, <1>23, SweptFacts
    DEF Fail, DropOwnStaging, TypeOK
  <2> QED
    BY <1>type, <1>23, <2>1, PhaseFacts, ArtFacts
    DEF TypeOK, Fail
<1>24. ASSUME NEW e \in Exec, DamageSource(e) PROVE TypeOK'
  BY <1>type, <1>24, ArtFacts, PhaseFacts DEF TypeOK, DamageSource
<1>25. ASSUME NEW p \in Proc, Crash(p) PROVE TypeOK'
  <2>1. pc' \in [Exec -> Phase]
    BY <1>type, <1>25, PhaseFacts
    DEF Crash, TypeOK
  <2>2. active' \subseteq Exec
    BY <1>type, <1>25
    DEF Crash, TypeOK
  <2> QED
    BY <1>type, <1>25, <2>1, <2>2, PhaseFacts, ArtFacts
    DEF TypeOK, Crash
<1>26. ASSUME NEW h \in Host, Attest(h) PROVE TypeOK'
  <2>1. exits' \subseteq [epoch : Nat, identity : Proc]
    BY <1>type, <1>26, ColumnTypes, TypeInv
    DEF Attest, TypeInv, TokenInv, TypeOK
  <2> QED
    BY <1>type, <1>26, <2>1, PhaseFacts, ArtFacts
    DEF TypeOK, Attest
<1>27. ASSUME NEW a \in Art, ForeignFile(a) PROVE TypeOK'
  BY <1>type, <1>27, ArtFacts, PhaseFacts DEF TypeOK, ForeignFile
<1>28. CASE UNCHANGED vars
  BY <1>type, <1>28 DEF TypeOK, vars
<1>29. ASSUME NEW e \in Exec, RefuseLegacy(e) PROVE TypeOK'
  BY <1>type, <1>29, ArtFacts, PhaseFacts DEF TypeOK, RefuseLegacy
<1>30. ASSUME NEW e \in Exec, RefuseStorage(e) PROVE TypeOK'
  BY <1>type, <1>30, ArtFacts, PhaseFacts DEF TypeOK, RefuseStorage
<1> QED
  BY <1>1, <1>2, <1>3, <1>4, <1>5, <1>6, <1>7, <1>8, <1>9, <1>10, <1>11,
     <1>12, <1>13, <1>14, <1>15, <1>16, <1>17, <1>18, <1>19, <1>20, <1>21,
     <1>22, <1>23, <1>24, <1>25, <1>26, <1>27, <1>28, <1>29, <1>30
     DEF Next, Step, Claim, Work, Resume, PublishStep, Finish, Environment

(* The executor of an intent stays a request that some process handles. *)
LEMMA TokenStep == TypeInv /\ [Next]_vars => TokenInv'
<1> SUFFICES ASSUME TypeInv, [Next]_vars PROVE TokenInv'
  OBVIOUS
<1> USE DEF TypeInv, TokenInv, Goto, Close, dbVars, fileVars, execVars, TypeOK
<1>1. ASSUME NEW e \in Exec, Start(e) PROVE TokenInv'
  BY <1>1 DEF Start
<1>2. ASSUME NEW e \in Exec, Create(e) PROVE TokenInv'
  BY <1>2 DEF Create
<1>3. ASSUME NEW e \in Exec, Reclaim(e) PROVE TokenInv'
  BY <1>3 DEF Reclaim
<1>4. ASSUME NEW e \in Exec, FindBusy(e) PROVE TokenInv'
  BY <1>4 DEF FindBusy
<1>5. ASSUME NEW e \in Exec, FindTerminal(e) PROVE TokenInv'
  BY <1>5 DEF FindTerminal
<1>6. ASSUME NEW e \in Exec, Prepare(e) PROVE TokenInv'
  BY <1>6 DEF Prepare
<1>7. ASSUME NEW e \in Exec, RejectInput(e) PROVE TokenInv'
  BY <1>7 DEF RejectInput
<1>8. ASSUME NEW e \in Exec, Seal(e) PROVE TokenInv'
  BY <1>8 DEF Seal
<1>9. ASSUME NEW e \in Exec, AcquireIntent(e) PROVE TokenInv'
  BY <1>9 DEF AcquireIntent
<1>10. ASSUME NEW e \in Exec, Transfer(e) PROVE TokenInv'
  BY <1>10 DEF Transfer, Intent
<1>11. ASSUME NEW e \in Exec, StayBlocked(e) PROVE TokenInv'
  BY <1>11 DEF StayBlocked
<1>12. ASSUME NEW e \in Exec, FindSettled(e) PROVE TokenInv'
  BY <1>12 DEF FindSettled
<1>13. ASSUME NEW e \in Exec, FindCanonical(e) PROVE TokenInv'
  BY <1>13 DEF FindCanonical
<1>14. ASSUME NEW e \in Exec, CopySealed(e) PROVE TokenInv'
  BY <1>14 DEF CopySealed
<1>15. ASSUME NEW e \in Exec, RecordCopy(e) PROVE TokenInv'
  BY <1>15 DEF RecordCopy
<1>16. ASSUME NEW e \in Exec, Link(e) PROVE TokenInv'
  BY <1>16 DEF Link, NextArtifact
<1>17. ASSUME NEW e \in Exec, Resolve(e) PROVE TokenInv'
  BY <1>17 DEF Resolve, NextArtifact
<1>18. ASSUME NEW e \in Exec, ReviewPublication(e) PROVE TokenInv'
  BY <1>18 DEF ReviewPublication, Intent
<1>19. ASSUME NEW e \in Exec, RequestCommit(e) PROVE TokenInv'
  BY <1>19 DEF RequestCommit, HoldsIntent, MayCommit
<1>20. ASSUME NEW e \in Exec, CommitDone(e) PROVE TokenInv'
  BY <1>20, ConstantsAssumption DEF CommitDone, Settle, Intent, Owner
<1>21. ASSUME NEW e \in Exec, CommitAborted(e) PROVE TokenInv'
  BY <1>21 DEF CommitAborted, Settle
<1>22. CASE ExpireLease
  BY <1>22 DEF ExpireLease
<1>23. ASSUME NEW e \in Exec, Fail(e) PROVE TokenInv'
  BY <1>23 DEF Fail, Running, Claiming, Preparing, Publishing
<1>24. ASSUME NEW e \in Exec, DamageSource(e) PROVE TokenInv'
  BY <1>24 DEF DamageSource
<1>25. ASSUME NEW p \in Proc, Crash(p) PROVE TokenInv'
  BY <1>25 DEF Crash, Running, Claiming, Preparing, Publishing
<1>26. ASSUME NEW h \in Host, Attest(h) PROVE TokenInv'
  BY <1>26 DEF Attest
<1>27. ASSUME NEW a \in Art, ForeignFile(a) PROVE TokenInv'
  BY <1>27 DEF ForeignFile
<1>28. CASE UNCHANGED vars
  BY <1>28 DEF vars
<1>29. ASSUME NEW e \in Exec, RefuseLegacy(e) PROVE TokenInv'
  BY <1>29 DEF RefuseLegacy
<1>30. ASSUME NEW e \in Exec, RefuseStorage(e) PROVE TokenInv'
  BY <1>30 DEF RefuseStorage
<1> QED
  BY <1>1, <1>2, <1>3, <1>4, <1>5, <1>6, <1>7, <1>8, <1>9, <1>10, <1>11,
     <1>12, <1>13, <1>14, <1>15, <1>16, <1>17, <1>18, <1>19, <1>20, <1>21,
     <1>22, <1>23, <1>24, <1>25, <1>26, <1>27, <1>28, <1>29, <1>30
     DEF Next, Step, Claim, Work, Resume, PublishStep, Finish, Environment

LEMMA InitTyped == Init => TypeInv
  BY ArtFacts, PhaseFacts, ConstantsAssumption
  DEF Init, TypeInv, TypeOK, TokenInv, Operation, OpStates, Generation, Intent,
      IntentStates, Authority, Claimed, NoAuthority, Owner

LEMMA TypeInductive == Spec => []TypeInv
<1>1. TypeInv /\ [Next]_vars => TypeInv'
  BY TypeStep, TokenStep DEF TypeInv
<1> QED
  BY <1>1, InitTyped, PTL DEF Spec

(* The protocol keeps its rows, files and local variables well typed for     *)
(* every number of requests, processes, machines and artifacts.              *)
THEOREM TypeCorrect == Spec => []TypeOK
<1>1. TypeInv => TypeOK
  BY DEF TypeInv
<1> QED
  BY <1>1, TypeInductive, PTL
-----------------------------------------------------------------------------
(* Claims, seals and settlements keep exactly one current generation.        *)
LEMMA GenerationStep ==
  ASSUME IInv, [Next]_vars
  PROVE  GenerationInv'
<1> USE DEF Goto, Close, dbVars, fileVars, execVars
<1>inv. TypeOK /\ GenerationInv /\ IntentInv /\ EarlyInv /\ LockInv
  BY DEF IInv, TypeInv
<1>1. ASSUME NEW e \in Exec,
             RefuseLegacy(e) \/ RefuseStorage(e) \/
             Start(e) \/ FindBusy(e) \/ FindTerminal(e) \/ Prepare(e) \/
             StayBlocked(e) \/ FindSettled(e) \/ FindCanonical(e) \/
             CopySealed(e) \/ RecordCopy(e) \/ Link(e) \/ Resolve(e) \/
             RequestCommit(e) \/ CommitAborted(e) \/ Fail(e) \/
             DamageSource(e)
      PROVE  GenerationInv'
  BY <1>inv, <1>1
  DEF RefuseLegacy, RefuseStorage,
      GenerationInv, TypeOK, Operation, Generation, Start, FindBusy,
      FindTerminal, Prepare, StayBlocked, FindSettled, FindCanonical,
      CopySealed, RecordCopy, Link, Resolve, RequestCommit, CommitAborted,
      Fail, DamageSource
<1>2. CASE (\E p \in Proc : Crash(p)) \/ (\E h \in Host : Attest(h)) \/ (\E a
           \in Art : ForeignFile(a))
  BY <1>inv, <1>2
  DEF GenerationInv, TypeOK, Operation, Generation, Crash, Attest, ForeignFile
<1>3. ASSUME NEW e \in Exec, Create(e) PROVE GenerationInv'
  BY <1>inv, <1>3, ColumnTypes, ConstantsAssumption
  DEF Create, GenerationInv, TypeOK, Operation, Generation, EarlyInv, Owner,
      Claiming
<1>4. ASSUME NEW e \in Exec, Reclaim(e) PROVE GenerationInv'
  BY <1>inv, <1>4, ColumnTypes, ConstantsAssumption
  DEF Reclaim, GenerationInv, TypeOK, Operation, Generation, Superseded,
      MayReclaim, Open, EarlyInv, Claiming
<1>5. ASSUME NEW e \in Exec, RejectInput(e) PROVE GenerationInv'
  <2>1. /\ UNCHANGED gens /\ op'.owner = op.owner /\ op'.gen = op.gen
        /\ op'.state /= op.state => Open /\ op'.state = "review"
        /\ intent'.state /= intent.state => op.state /= "absent"
    BY <1>inv, <1>5
    DEF RejectInput, ReviewOperation, TypeOK, Operation, Intent, Open,
        IntentInv, AuthorityPinsGeneration
  <2> QED
    BY <1>inv, <2>1 DEF GenerationInv, Open
<1>6. ASSUME NEW e \in Exec, Seal(e) PROVE GenerationInv'
  <2>1. CASE op' = op
    BY <1>inv, <1>6, <2>1 DEF Seal, GenerationInv
  <2>2. CASE op.state = "preparing" /\ op' = [op EXCEPT !.state = "sealed", !.seal = e]
    <3>1. op'.state = "sealed" /\ op'.owner = op.owner /\ op'.gen = op.gen
      BY <1>inv, <2>2 DEF TypeOK, Operation
    <3> QED
      BY <1>inv, <1>6, <2>2, <3>1 DEF Seal, GenerationInv
  <2> QED
    BY <1>6, <2>1, <2>2 DEF Seal
<1>7. ASSUME NEW e \in Exec, AcquireIntent(e) PROVE GenerationInv'
  BY <1>inv, <1>7, ColumnTypes, ConstantsAssumption
  DEF AcquireIntent, GenerationInv, TypeOK, Operation, Generation,
      MayAuthorize, HoldsLease, Intent
<1>8. ASSUME NEW e \in Exec, Transfer(e) PROVE GenerationInv'
  BY <1>inv, <1>8, ColumnTypes, ConstantsAssumption
  DEF Transfer, GenerationInv, TypeOK, Operation, Generation
<1>9. ASSUME NEW e \in Exec, ReviewPublication(e) PROVE GenerationInv'
  <2>1. /\ UNCHANGED gens /\ op'.owner = op.owner /\ op'.gen = op.gen
        /\ op'.state /= op.state => Open /\ op'.state = "review"
        /\ intent'.state /= intent.state => op.state /= "absent"
    BY <1>inv, <1>9
    DEF ReviewPublication, ReviewOperation, TypeOK, Operation, Intent, Open,
        IntentInv, AuthorityPinsGeneration
  <2> QED
    BY <1>inv, <2>1 DEF GenerationInv, Open
<1>10. ASSUME NEW e \in Exec, CommitDone(e) PROVE GenerationInv'
  <2>1. /\ op.state = "sealed" /\ mine[e].owner = op.owner
        /\ op'.owner = op.owner /\ op'.gen = op.gen
        /\ op'.state = "committed" /\ intent'.state = "committed"
    BY <1>inv, <1>10
    DEF CommitDone, LockInv, MayCommit, TypeOK, Operation, Intent
  <2>2. gens' = [gens EXCEPT ![op.owner].state = "committed"]
    BY <1>10, <2>1 DEF CommitDone
  <2>3. /\ gens'[op.owner].no = gens[op.owner].no
        /\ gens'[op.owner].state = "committed"
        /\ \A f \in Exec \ {op.owner} : gens'[f] = gens[f]
    BY <1>inv, <2>1, <2>2 DEF GenerationInv, TypeOK, Generation
  <2> QED
    BY <1>inv, <2>1, <2>3 DEF GenerationInv
<1>11. CASE ExpireLease
  BY <1>inv, <1>11, ColumnTypes, ConstantsAssumption
  DEF ExpireLease, GenerationInv, TypeOK, Operation, Generation, Open
<1>12. CASE UNCHANGED vars
  BY <1>inv, <1>12
  DEF vars, GenerationInv, TypeOK, Operation, Generation
<1> QED
  BY <1>1, <1>2, <1>3, <1>4, <1>5, <1>6, <1>7, <1>8, <1>9, <1>10, <1>11, <1>12
  DEF Next, Step, Claim, Work, Resume, PublishStep, Finish, Environment

(* No step leaves an authorized intent behind a superseded or settled        *)
(* operation.                                                                *)
LEMMA IntentStep ==
  ASSUME IInv, [Next]_vars
  PROVE  IntentInv'
<1> USE DEF Goto, Close, dbVars, fileVars, execVars
<1>inv. TypeInv /\ TypeOK /\ GenerationInv /\ IntentInv /\ EarlyInv /\ LockInv /\ ExecutorInv
  BY DEF IInv, TypeInv
<1>1. ASSUME NEW e \in Exec,
             RefuseLegacy(e) \/ RefuseStorage(e) \/
             Start(e) \/ FindBusy(e) \/ FindTerminal(e) \/ Prepare(e) \/
             StayBlocked(e) \/ FindSettled(e) \/ FindCanonical(e) \/
             CopySealed(e) \/ RecordCopy(e) \/ Link(e) \/ Resolve(e) \/
             RequestCommit(e) \/ CommitAborted(e) \/ Fail(e) \/
             DamageSource(e)
      PROVE  IntentInv'
  BY <1>inv, <1>1
  DEF RefuseLegacy, RefuseStorage,
      IntentInv, AuthorityPinsGeneration, Start, FindBusy, FindTerminal,
      Prepare, StayBlocked, FindSettled, FindCanonical, CopySealed,
      RecordCopy, Link, Resolve, RequestCommit, CommitAborted, Fail,
      DamageSource
<1>2. CASE (\E p \in Proc : Crash(p)) \/ (\E a \in Art : ForeignFile(a))
  BY <1>inv, <1>2
  DEF IntentInv, AuthorityPinsGeneration, Crash, ForeignFile
<1>3. ASSUME NEW e \in Exec, Create(e) PROVE IntentInv'
  BY <1>inv, <1>3, ColumnTypes, ConstantsAssumption
  DEF Create, IntentInv, AuthorityPinsGeneration
<1>4. ASSUME NEW e \in Exec, Reclaim(e) PROVE IntentInv'
  BY <1>inv, <1>4, ColumnTypes, ConstantsAssumption
  DEF Reclaim, IntentInv, AuthorityPinsGeneration, Superseded, MayReclaim,
      Open
<1>5. ASSUME NEW e \in Exec, RejectInput(e) PROVE IntentInv'
  BY <1>inv, <1>5, ColumnTypes, ConstantsAssumption
  DEF RejectInput, IntentInv, AuthorityPinsGeneration, ReviewOperation, Open,
      TypeOK, Operation, Intent, EarlyInv, Preparing
<1>6. ASSUME NEW e \in Exec, Seal(e) PROVE IntentInv'
  BY <1>inv, <1>6, ColumnTypes, ConstantsAssumption
  DEF Seal, IntentInv, AuthorityPinsGeneration, HoldsLease, TypeOK, Operation,
      Intent
<1>7. ASSUME NEW e \in Exec, AcquireIntent(e) PROVE IntentInv'
  BY <1>inv, <1>7, ColumnTypes, ConstantsAssumption
  DEF AcquireIntent, IntentInv, AuthorityPinsGeneration, MayAuthorize,
      HoldsLease, TypeOK, Operation, Intent
<1>8. ASSUME NEW e \in Exec, Transfer(e) PROVE IntentInv'
  BY <1>inv, <1>8, ColumnTypes, ConstantsAssumption
  DEF Transfer, IntentInv, AuthorityPinsGeneration, TypeOK, Operation, Intent
<1>9. ASSUME NEW e \in Exec, ReviewPublication(e) PROVE IntentInv'
  <2>1. /\ HoldsIntent(e) /\ mine[e].owner = intent.owner
        /\ intent.epoch = mine[e].epoch
    BY <1>inv, <1>9 DEF ReviewPublication, ExecutorInv, Publishing, HoldsIntent
  <2>2. /\ intent'.state = "review" /\ intent'.epoch = intent.epoch
        /\ op'.state = "review" /\ UNCHANGED exits
    BY <1>inv, <2>1, <1>9
    DEF ReviewPublication, ReviewOperation, Open, TypeOK, Operation, Intent,
        HoldsIntent, IntentInv, AuthorityPinsGeneration
  <2> QED
    BY <1>inv, <2>1, <2>2 DEF IntentInv, HoldsIntent, AuthorityPinsGeneration
<1>10. ASSUME NEW e \in Exec, CommitDone(e) PROVE IntentInv'
  BY <1>inv, <1>10, ColumnTypes, ConstantsAssumption
  DEF CommitDone, IntentInv, AuthorityPinsGeneration, Settle, LockInv,
      MayCommit, HoldsIntent, TypeOK, Operation, Intent
<1>11. CASE ExpireLease
  BY <1>inv, <1>11, ColumnTypes, ConstantsAssumption
  DEF ExpireLease, IntentInv, AuthorityPinsGeneration, Open, TypeOK,
      Operation, Intent
<1>12. ASSUME NEW h \in Host, Attest(h) PROVE IntentInv'
  BY <1>inv, <1>12, ColumnTypes, ConstantsAssumption
  DEF Attest, IntentInv, AuthorityPinsGeneration, TypeOK
<1>13. CASE UNCHANGED vars
  BY <1>inv, <1>13
  DEF vars, IntentInv, AuthorityPinsGeneration
<1> QED
  BY <1>1, <1>2, <1>3, <1>4, <1>5, <1>6, <1>7, <1>8, <1>9, <1>10, <1>11,
     <1>12, <1>13
  DEF Next, Step, Claim, Work, Resume, PublishStep, Finish, Environment

(* An execution that only claims or prepares owns nothing yet but its        *)
(* generation.                                                               *)
LEMMA EarlyStep ==
  ASSUME IInv, [Next]_vars
  PROVE  EarlyInv'
<1> USE DEF Goto, Close, dbVars, fileVars, execVars
<1>inv. TypeOK /\ EarlyInv /\ LockInv
  BY DEF IInv, TypeInv
<1>1. ASSUME NEW e \in Exec,
             RefuseLegacy(e) \/ RefuseStorage(e) \/
             Start(e) \/ FindBusy(e) \/ FindTerminal(e) \/ Prepare(e) \/
             StayBlocked(e) \/ FindSettled(e) \/ FindCanonical(e) \/
             CopySealed(e) \/ DamageSource(e)
      PROVE  EarlyInv'
  BY <1>inv, <1>1
  DEF RefuseLegacy, RefuseStorage,
      EarlyInv, Claiming, Preparing, TypeOK, Start, FindBusy, FindTerminal,
      Prepare, StayBlocked, FindSettled, FindCanonical, CopySealed,
      DamageSource
<1>2. CASE (\E h \in Host : Attest(h)) \/ (\E a \in Art : ForeignFile(a))
  BY <1>inv, <1>2
  DEF EarlyInv, Claiming, Preparing, TypeOK, Attest, ForeignFile
<1>3. ASSUME NEW e \in Exec, Create(e) PROVE EarlyInv'
  BY <1>inv, <1>3, ColumnTypes, ConstantsAssumption
  DEF Create, EarlyInv, Claiming, Preparing, TypeOK, Claimed, Owner
<1>4. ASSUME NEW e \in Exec, Reclaim(e) PROVE EarlyInv'
  BY <1>inv, <1>4, ColumnTypes, ConstantsAssumption
  DEF Reclaim, EarlyInv, Claiming, Preparing, TypeOK, Superseded, MayReclaim,
      Open, Claimed, Owner, Generation
<1>5. ASSUME NEW e \in Exec, RejectInput(e) PROVE EarlyInv'
  BY <1>inv, <1>5, ColumnTypes, ConstantsAssumption
  DEF RejectInput, EarlyInv, Claiming, Preparing, TypeOK, ReviewOperation,
      Open, Operation
<1>6. ASSUME NEW e \in Exec, Seal(e) PROVE EarlyInv'
  <2>1. CASE UNCHANGED <<op, mine>> /\ pc' = [pc EXCEPT ![e] = "fenced"]
    BY <1>inv, <1>6, <2>1 DEF Seal, EarlyInv, Claiming, Preparing, TypeOK
  <2>2. CASE /\ HoldsLease(e) /\ op' = [op EXCEPT !.state = "sealed", !.seal = e]
             /\ mine' = [mine EXCEPT ![e].seal = e]
             /\ pc' = [pc EXCEPT ![e] = "intent"]
    <3>1. op'.owner = op.owner /\ op.owner = mine[e].owner
      BY <1>inv, <2>2 DEF TypeOK, Operation, HoldsLease
    <3>2. mine[e].owner = e
      BY <1>inv, <1>6 DEF Seal, EarlyInv, Preparing
    <3>3. \A f \in Exec : mine'[f].owner = mine[f].owner /\ mine'[f].gen = mine[f].gen
      BY <1>inv, <2>2 DEF TypeOK, Authority
    <3> QED
      BY <1>inv, <1>6, <2>2, <3>1, <3>2, <3>3
      DEF Seal, EarlyInv, Claiming, Preparing, TypeOK
  <2> QED
    BY <1>6, <2>1, <2>2 DEF Seal
<1>7. ASSUME NEW e \in Exec, AcquireIntent(e) PROVE EarlyInv'
  BY <1>inv, <1>7, ColumnTypes, ConstantsAssumption
  DEF AcquireIntent, EarlyInv, Claiming, Preparing, TypeOK, MayAuthorize,
      HoldsLease, Authority, Intent
<1>8. ASSUME NEW e \in Exec, Transfer(e) PROVE EarlyInv'
  BY <1>inv, <1>8, ColumnTypes, ConstantsAssumption
  DEF Transfer, EarlyInv, Claiming, Preparing, TypeOK, Intent
<1>9. ASSUME NEW e \in Exec, RecordCopy(e) PROVE EarlyInv'
  BY <1>inv, <1>9, ColumnTypes, ConstantsAssumption
  DEF RecordCopy, EarlyInv, Claiming, Preparing, TypeOK, DropOwnStaging
<1>10. ASSUME NEW e \in Exec, Link(e) PROVE EarlyInv'
  BY <1>inv, <1>10, ColumnTypes, ConstantsAssumption
  DEF Link, EarlyInv, Claiming, Preparing, TypeOK, NextArtifact, NameFree
<1>11. ASSUME NEW e \in Exec, Resolve(e) PROVE EarlyInv'
  BY <1>inv, <1>11, ColumnTypes, ConstantsAssumption
  DEF Resolve, EarlyInv, Claiming, Preparing, TypeOK, NextArtifact
<1>12. ASSUME NEW e \in Exec, ReviewPublication(e) PROVE EarlyInv'
  BY <1>inv, <1>12, ColumnTypes, ConstantsAssumption
  DEF ReviewPublication, EarlyInv, Claiming, Preparing, TypeOK,
      ReviewOperation, Open, Operation, Intent
<1>13. ASSUME NEW e \in Exec, RequestCommit(e) PROVE EarlyInv'
  BY <1>inv, <1>13, ColumnTypes, ConstantsAssumption
  DEF RequestCommit, EarlyInv, Claiming, Preparing, TypeOK, MayCommit
<1>14. ASSUME NEW e \in Exec, CommitDone(e) PROVE EarlyInv'
  <2>1. /\ op'.owner = op.owner /\ op'.state = "committed"
        /\ intent'.token = intent.token
    BY <1>inv, <1>14 DEF CommitDone, TypeOK, Operation, Intent
  <2>2. /\ rowLock = e /\ rowLock' = None
        /\ mine[e].owner = op.owner /\ pc[e] \in {"committing", "failed", "crashed"}
    BY <1>inv, <1>14 DEF CommitDone, LockInv, MayCommit
  <2>3. \A f \in Exec :
          /\ pc'[f] = pc[f] \/ (f = e /\ pc'[e] = "answered")
          /\ gens'[f] = gens[f] \/ f = op.owner
          /\ gens'[f].no = gens[f].no
    BY <1>inv, <2>2, <1>14 DEF CommitDone, Settle, TypeOK, Generation
  <2>4. UNCHANGED <<art, mine>>
    BY <1>14 DEF CommitDone
  <2>5. ASSUME NEW f \in Exec, pc'[f] \in {"idle"} \union Claiming \union Preparing
        PROVE  f /= e /\ pc'[f] = pc[f]
    BY <2>2, <2>3, <2>5 DEF Claiming, Preparing
  <2> QED
    BY <1>inv, <2>1, <2>2, <2>3, <2>4, <2>5, ConstantsAssumption
    DEF EarlyInv
<1>15. ASSUME NEW e \in Exec, CommitAborted(e) PROVE EarlyInv'
  BY <1>inv, <1>15, ColumnTypes, ConstantsAssumption
  DEF CommitAborted, EarlyInv, Claiming, Preparing, TypeOK, Settle, LockInv
<1>16. CASE ExpireLease
  BY <1>inv, <1>16, ColumnTypes, ConstantsAssumption
  DEF ExpireLease, EarlyInv, Claiming, Preparing, TypeOK, Open, Operation
<1>17. ASSUME NEW e \in Exec, Fail(e) PROVE EarlyInv'
  BY <1>inv, <1>17, ColumnTypes, ConstantsAssumption
  DEF Fail, EarlyInv, Claiming, Preparing, TypeOK, DropOwnStaging, Running,
      Publishing
<1>18. ASSUME NEW p \in Proc, Crash(p) PROVE EarlyInv'
  BY <1>inv, <1>18, ColumnTypes, ConstantsAssumption
  DEF Crash, EarlyInv, Claiming, Preparing, TypeOK, Running, Publishing
<1>19. CASE UNCHANGED vars
  BY <1>inv, <1>19
  DEF vars, EarlyInv, Claiming, Preparing, TypeOK
<1> QED
  BY <1>1, <1>2, <1>3, <1>4, <1>5, <1>6, <1>7, <1>8, <1>9, <1>10, <1>11,
     <1>12, <1>13, <1>14, <1>15, <1>16, <1>17, <1>18, <1>19
  DEF Next, Step, Claim, Work, Resume, PublishStep, Finish, Environment

(* A new executor starts to publish only after its predecessor has ended.    *)
LEMMA ExecutorStep ==
  ASSUME IInv, [Next]_vars
  PROVE  ExecutorInv'
<1> USE DEF Goto, Close, dbVars, fileVars, execVars
<1>inv. TypeOK /\ IntentInv /\ EarlyInv /\ ExecutorInv /\ ExitInv /\ LockInv
  BY DEF IInv, TypeInv
<1>1. ASSUME NEW e \in Exec,
             RefuseLegacy(e) \/ RefuseStorage(e) \/
             Start(e) \/ FindBusy(e) \/ FindTerminal(e) \/ Prepare(e) \/
             RejectInput(e) \/ StayBlocked(e) \/ FindSettled(e) \/
             FindCanonical(e) \/ CopySealed(e) \/ RecordCopy(e) \/
             DamageSource(e)
      PROVE  ExecutorInv'
  BY <1>inv, <1>1
  DEF RefuseLegacy, RefuseStorage,
      ExecutorInv, HoldsIntent, Publishing, Claiming, Preparing, Running,
      TypeOK, Start, FindBusy, FindTerminal, Prepare, RejectInput,
      StayBlocked, FindSettled, FindCanonical, CopySealed, RecordCopy,
      DamageSource
<1>2. CASE ExpireLease \/ (\E h \in Host : Attest(h)) \/ (\E a \in Art :
           ForeignFile(a))
  BY <1>inv, <1>2
  DEF ExecutorInv, HoldsIntent, Publishing, Claiming, Preparing, Running,
      TypeOK, ExpireLease, Attest, ForeignFile
<1>3. ASSUME NEW e \in Exec, Create(e) PROVE ExecutorInv'
  BY <1>inv, <1>3, ColumnTypes, ConstantsAssumption
  DEF Create, ExecutorInv, HoldsIntent, Publishing, Claiming, Preparing,
      Running, TypeOK, Claimed
<1>4. ASSUME NEW e \in Exec, Reclaim(e) PROVE ExecutorInv'
  BY <1>inv, <1>4, ColumnTypes, ConstantsAssumption
  DEF Reclaim, ExecutorInv, HoldsIntent, Publishing, Claiming, Preparing,
      Running, TypeOK, Superseded, MayReclaim, Open, Claimed
<1>5. ASSUME NEW e \in Exec, Seal(e) PROVE ExecutorInv'
  BY <1>inv, <1>5, ColumnTypes, ConstantsAssumption
  DEF Seal, ExecutorInv, HoldsIntent, Publishing, Claiming, Preparing,
      Running, TypeOK, HoldsLease, Authority, EarlyInv
<1>6. ASSUME NEW e \in Exec, AcquireIntent(e) PROVE ExecutorInv'
  BY <1>inv, <1>6, ColumnTypes, ConstantsAssumption
  DEF AcquireIntent, ExecutorInv, HoldsIntent, Publishing, Claiming,
      Preparing, Running, TypeOK, MayAuthorize, HoldsLease, Intent, Authority,
      IntentInv, EarlyInv
<1>7. ASSUME NEW e \in Exec, Transfer(e) PROVE ExecutorInv'
  BY <1>inv, <1>7, ColumnTypes, ConstantsAssumption
  DEF Transfer, ExecutorInv, HoldsIntent, Publishing, Claiming, Preparing,
      Running, TypeOK, Intent, ExitInv, EarlyInv, MayTransfer, ProvenEnded,
      RecordsOf
<1>8. ASSUME NEW e \in Exec, Link(e) PROVE ExecutorInv'
  BY <1>inv, <1>8, ColumnTypes, ConstantsAssumption
  DEF Link, ExecutorInv, HoldsIntent, Publishing, Claiming, Preparing,
      Running, TypeOK, NextArtifact, NameFree
<1>9. ASSUME NEW e \in Exec, Resolve(e) PROVE ExecutorInv'
  BY <1>inv, <1>9, ColumnTypes, ConstantsAssumption
  DEF Resolve, ExecutorInv, HoldsIntent, Publishing, Claiming, Preparing,
      Running, TypeOK, NextArtifact
<1>10. ASSUME NEW e \in Exec, ReviewPublication(e) PROVE ExecutorInv'
  BY <1>inv, <1>10, ColumnTypes, ConstantsAssumption
  DEF ReviewPublication, ExecutorInv, HoldsIntent, Publishing, Claiming,
      Preparing, Running, TypeOK, ReviewOperation, Open, Intent
<1>11. ASSUME NEW e \in Exec, RequestCommit(e) PROVE ExecutorInv'
  BY <1>inv, <1>11, ColumnTypes, ConstantsAssumption
  DEF RequestCommit, ExecutorInv, HoldsIntent, Publishing, Claiming,
      Preparing, Running, TypeOK, MayCommit
<1>12. ASSUME NEW e \in Exec, CommitDone(e) PROVE ExecutorInv'
  <2>1. HoldsIntent(e)
    BY <1>inv, <1>12 DEF CommitDone, LockInv, MayCommit
  <2>2. \A f \in Exec : pc[f] \in Publishing => f = e
    BY <1>inv, <2>1 DEF ExecutorInv, HoldsIntent
  <2>3. pc'[e] \notin Running /\ e \notin active'
    <3>1. CASE pc[e] = "committing"
      BY <1>inv, <3>1, <1>12
      DEF CommitDone, Settle, TypeOK, Running, Claiming, Preparing, Publishing
    <3>2. CASE pc[e] \in {"failed", "crashed"}
      BY <1>inv, <3>2, <1>12
      DEF CommitDone, Settle, TypeOK, ExecutorInv, Running, Claiming,
          Preparing, Publishing
    <3> QED
      BY <1>inv, <3>1, <3>2, <1>12 DEF CommitDone, LockInv
  <2>4. /\ \A f \in Exec \ {e} : pc'[f] = pc[f] /\ (f \in active' <=> f \in active)
        /\ UNCHANGED <<alive, where>>
    BY <1>inv, <1>12 DEF CommitDone, Settle, TypeOK
  <2> QED
    BY <1>inv, <2>2, <2>3, <2>4 DEF ExecutorInv, Running
<1>13. ASSUME NEW e \in Exec, CommitAborted(e) PROVE ExecutorInv'
  BY <1>inv, <1>13, ColumnTypes, ConstantsAssumption
  DEF CommitAborted, ExecutorInv, HoldsIntent, Publishing, Claiming,
      Preparing, Running, TypeOK, Settle, LockInv
<1>14. ASSUME NEW e \in Exec, Fail(e) PROVE ExecutorInv'
  BY <1>inv, <1>14, ColumnTypes, ConstantsAssumption
  DEF Fail, ExecutorInv, HoldsIntent, Publishing, Claiming, Preparing,
      Running, TypeOK, DropOwnStaging
<1>15. ASSUME NEW p \in Proc, Crash(p) PROVE ExecutorInv'
  BY <1>inv, <1>15, ColumnTypes, ConstantsAssumption
  DEF Crash, ExecutorInv, HoldsIntent, Publishing, Claiming, Preparing,
      Running, TypeOK
<1>16. CASE UNCHANGED vars
  BY <1>inv, <1>16
  DEF vars, ExecutorInv, HoldsIntent, Publishing, Claiming, Preparing,
      Running, TypeOK
<1> QED
  BY <1>1, <1>2, <1>3, <1>4, <1>5, <1>6, <1>7, <1>8, <1>9, <1>10, <1>11,
     <1>12, <1>13, <1>14, <1>15, <1>16
  DEF Next, Step, Claim, Work, Resume, PublishStep, Finish, Environment

(* Exit records stay true: a trusted operator attests dead processes only.   *)
LEMMA ExitStep ==
  ASSUME IInv, TrustedOperator, [Next]_vars
  PROVE  ExitInv'
<1> USE DEF Goto, Close, dbVars, fileVars, execVars
<1>inv. TypeOK /\ TypeInv /\ IntentInv /\ EarlyInv /\ ExecutorInv /\ ExitInv
  BY DEF IInv, TypeInv
<1>1. ASSUME NEW e \in Exec,
             RefuseLegacy(e) \/ RefuseStorage(e) \/
             Create(e) \/ Reclaim(e) \/ FindBusy(e) \/ FindTerminal(e) \/
             Prepare(e) \/ RejectInput(e) \/ Seal(e) \/ StayBlocked(e) \/
             FindSettled(e) \/ FindCanonical(e) \/ CopySealed(e) \/
             RecordCopy(e) \/ Link(e) \/ Resolve(e) \/ RequestCommit(e) \/
             CommitAborted(e) \/ Fail(e) \/ DamageSource(e)
      PROVE  ExitInv'
  BY <1>inv, <1>1
  DEF RefuseLegacy, RefuseStorage,
      ExitInv, TypeOK, Create, Reclaim, FindBusy, FindTerminal, Prepare,
      RejectInput, Seal, StayBlocked, FindSettled, FindCanonical, CopySealed,
      RecordCopy, Link, Resolve, RequestCommit, CommitAborted, Fail,
      DamageSource
<1>2. CASE ExpireLease \/ (\E a \in Art : ForeignFile(a))
  BY <1>inv, <1>2
  DEF ExitInv, TypeOK, ExpireLease, ForeignFile
<1>3. ASSUME NEW e \in Exec, Start(e) PROVE ExitInv'
  BY <1>inv, <1>3, ColumnTypes, ConstantsAssumption
  DEF Start, ExitInv, TypeOK, TypeInv, TokenInv, IntentInv
<1>4. ASSUME NEW e \in Exec, AcquireIntent(e) PROVE ExitInv'
  BY <1>inv, <1>4, ColumnTypes, ConstantsAssumption
  DEF AcquireIntent, ExitInv, TypeOK, MayAuthorize, HoldsLease, IntentInv
<1>5. ASSUME NEW e \in Exec, Transfer(e) PROVE ExitInv'
  BY <1>inv, <1>5, ColumnTypes, ConstantsAssumption
  DEF Transfer, ExitInv, TypeOK, Intent
<1>6. ASSUME NEW e \in Exec, ReviewPublication(e) PROVE ExitInv'
  BY <1>inv, <1>6, ColumnTypes, ConstantsAssumption
  DEF ReviewPublication, ExitInv, TypeOK, ReviewOperation, Open, Intent
<1>7. ASSUME NEW e \in Exec, CommitDone(e) PROVE ExitInv'
  BY <1>inv, <1>7, ColumnTypes, ConstantsAssumption
  DEF CommitDone, ExitInv, TypeOK, Settle, Intent
<1>8. ASSUME NEW p \in Proc, Crash(p) PROVE ExitInv'
  BY <1>inv, <1>8, ColumnTypes, ConstantsAssumption
  DEF Crash, ExitInv, TypeOK
<1>9. ASSUME NEW h \in Host, Attest(h) PROVE ExitInv'
  BY <1>inv, <1>9, ColumnTypes, ConstantsAssumption
  DEF Attest, ExitInv, TypeOK, RecordsOf, TypeInv, TokenInv
<1>10. CASE UNCHANGED vars
  BY <1>inv, <1>10
  DEF vars, ExitInv, TypeOK
<1> QED
  BY <1>1, <1>2, <1>3, <1>4, <1>5, <1>6, <1>7, <1>8, <1>9, <1>10
  DEF Next, Step, Claim, Work, Resume, PublishStep, Finish, Environment

(* The row lock keeps what the commit fence checked true until T2 ends.      *)
LEMMA LockStep ==
  ASSUME IInv, [Next]_vars
  PROVE  LockInv'
<1> USE DEF Goto, Close, dbVars, fileVars, execVars
<1>inv. TypeOK /\ LockInv /\ ProgressInv
  BY DEF IInv, TypeInv
<1>free. ASSUME rowLock = None, UNCHANGED rowLock,
               \A f \in Exec : pc'[f] = "committing" => pc[f] = "committing"
        PROVE  LockInv'
  BY <1>inv, <1>free, ConstantsAssumption DEF LockInv
<1>kept. ASSUME UNCHANGED <<op, gens, intent, mine, rowLock>>,
               \A a \in Art : canonical[a] \in Exec => canonical'[a] \in Exec,
               \A f \in Exec :
                 /\ pc[f] = "committing" =>
                      pc'[f] \in {"committing", "failed", "crashed"}
                 /\ pc[f] \in {"failed", "crashed"} => pc'[f] = pc[f]
                 /\ pc'[f] = "committing" => pc[f] = "committing"
        PROVE  LockInv'
  BY <1>inv, <1>kept DEF LockInv, MayCommit, HoldsIntent
<1>1. ASSUME NEW e \in Exec, Start(e) PROVE LockInv'
  BY <1>inv, <1>1, <1>kept, ConstantsAssumption
  DEF Start, TypeOK
<1>2. ASSUME NEW e \in Exec, Create(e) PROVE LockInv'
  BY <1>inv, <1>2, <1>free
  DEF Create, TypeOK
<1>3. ASSUME NEW e \in Exec, Reclaim(e) PROVE LockInv'
  BY <1>inv, <1>3, <1>free
  DEF Reclaim, TypeOK
<1>4. ASSUME NEW e \in Exec, FindBusy(e) PROVE LockInv'
  BY <1>inv, <1>4, <1>free
  DEF FindBusy, TypeOK
<1>5. ASSUME NEW e \in Exec, FindTerminal(e) PROVE LockInv'
  BY <1>inv, <1>5, <1>free
  DEF FindTerminal, TypeOK
<1>6. ASSUME NEW e \in Exec, Prepare(e) PROVE LockInv'
  BY <1>inv, <1>6, <1>kept, ConstantsAssumption
  DEF Prepare, TypeOK
<1>7. ASSUME NEW e \in Exec, RejectInput(e) PROVE LockInv'
  BY <1>inv, <1>7, <1>free
  DEF RejectInput, TypeOK
<1>8. ASSUME NEW e \in Exec, Seal(e) PROVE LockInv'
  BY <1>inv, <1>8, <1>free
  DEF Seal, TypeOK
<1>9. ASSUME NEW e \in Exec, AcquireIntent(e) PROVE LockInv'
  BY <1>inv, <1>9, <1>free
  DEF AcquireIntent, TypeOK
<1>10. ASSUME NEW e \in Exec, Transfer(e) PROVE LockInv'
  BY <1>inv, <1>10, <1>free
  DEF Transfer, TypeOK
<1>11. ASSUME NEW e \in Exec, StayBlocked(e) PROVE LockInv'
  BY <1>inv, <1>11, <1>free
  DEF StayBlocked, TypeOK
<1>12. ASSUME NEW e \in Exec, FindSettled(e) PROVE LockInv'
  BY <1>inv, <1>12, <1>free
  DEF FindSettled, TypeOK
<1>13. ASSUME NEW e \in Exec, FindCanonical(e) PROVE LockInv'
  BY <1>inv, <1>13, <1>kept, ConstantsAssumption
  DEF FindCanonical, TypeOK
<1>14. ASSUME NEW e \in Exec, CopySealed(e) PROVE LockInv'
  BY <1>inv, <1>14, <1>kept, ConstantsAssumption
  DEF CopySealed, TypeOK
<1>15. ASSUME NEW e \in Exec, RecordCopy(e) PROVE LockInv'
  BY <1>inv, <1>15, <1>free
  DEF RecordCopy, TypeOK
<1>16. ASSUME NEW e \in Exec, Link(e) PROVE LockInv'
  BY <1>inv, <1>16, <1>kept, ConstantsAssumption
  DEF Link, TypeOK, NextArtifact, NameFree
<1>17. ASSUME NEW e \in Exec, Resolve(e) PROVE LockInv'
  BY <1>inv, <1>17, <1>free
  DEF Resolve, TypeOK, NextArtifact
<1>18. ASSUME NEW e \in Exec, ReviewPublication(e) PROVE LockInv'
  BY <1>inv, <1>18, <1>free
  DEF ReviewPublication, TypeOK
<1>19. ASSUME NEW e \in Exec, RequestCommit(e) PROVE LockInv'
  <2>1. CASE MayCommit(e) /\ rowLock' = e /\ pc' = [pc EXCEPT ![e] = "committing"]
    <3>1. \A a \in Art : canonical[a] \in Exec
      BY <1>inv, <1>19 DEF RequestCommit, ProgressInv
    <3>2. MayCommit(e)' /\ UNCHANGED canonical
      BY <1>19, <2>1 DEF RequestCommit, MayCommit, HoldsIntent
    <3>3. \A f \in Exec : pc[f] /= "committing"
      BY <1>inv, <1>19, ConstantsAssumption DEF RequestCommit, LockInv
    <3> QED
      BY <1>inv, <2>1, <3>1, <3>2, <3>3 DEF LockInv, TypeOK
  <2>2. CASE UNCHANGED rowLock /\ pc' = [pc EXCEPT ![e] = "fenced"]
    BY <1>inv, <1>19, <2>2, <1>free DEF RequestCommit, TypeOK
  <2> QED
    BY <1>19, <2>1, <2>2 DEF RequestCommit
<1>20. ASSUME NEW e \in Exec, CommitDone(e) PROVE LockInv'
  <2>1. rowLock = e /\ rowLock' = None
    BY <1>20 DEF CommitDone
  <2>2. \A f \in Exec : pc'[f] /= "committing"
    BY <1>inv, <1>20, <2>1 DEF CommitDone, Settle, TypeOK, LockInv
  <2> QED
    BY <2>1, <2>2, ConstantsAssumption DEF LockInv
<1>21. ASSUME NEW e \in Exec, CommitAborted(e) PROVE LockInv'
  <2>1. rowLock = e /\ rowLock' = None
    BY <1>21 DEF CommitAborted
  <2>2. \A f \in Exec : pc'[f] /= "committing"
    BY <1>inv, <1>21, <2>1 DEF CommitAborted, Settle, TypeOK, LockInv
  <2> QED
    BY <2>1, <2>2, ConstantsAssumption DEF LockInv
<1>22. CASE ExpireLease
  BY <1>inv, <1>22
  DEF ExpireLease, LockInv, MayCommit, HoldsIntent, TypeOK, Operation
<1>23. ASSUME NEW e \in Exec, Fail(e) PROVE LockInv'
  BY <1>inv, <1>23, <1>kept, ConstantsAssumption
  DEF Fail, TypeOK, Running, Claiming, Preparing, Publishing
<1>24. ASSUME NEW e \in Exec, DamageSource(e) PROVE LockInv'
  BY <1>inv, <1>24, <1>kept, ConstantsAssumption
  DEF DamageSource, TypeOK
<1>25. ASSUME NEW p \in Proc, Crash(p) PROVE LockInv'
  BY <1>inv, <1>25, <1>kept, ConstantsAssumption
  DEF Crash, TypeOK, Running, Claiming, Preparing, Publishing
<1>26. ASSUME NEW h \in Host, Attest(h) PROVE LockInv'
  BY <1>inv, <1>26, ColumnTypes
  DEF Attest, LockInv, MayCommit, HoldsIntent
<1>27. ASSUME NEW a \in Art, ForeignFile(a) PROVE LockInv'
  BY <1>inv, <1>27, <1>kept, ConstantsAssumption
  DEF ForeignFile, TypeOK
<1>28. CASE UNCHANGED vars
  BY <1>inv, <1>28
  DEF vars, LockInv, MayCommit, HoldsIntent
<1>29. ASSUME NEW e \in Exec, RefuseLegacy(e) PROVE LockInv'
  BY <1>inv, <1>29, <1>kept, ConstantsAssumption
  DEF RefuseLegacy, TypeOK
<1>30. ASSUME NEW e \in Exec, RefuseStorage(e) PROVE LockInv'
  BY <1>inv, <1>30, <1>kept, ConstantsAssumption
  DEF RefuseStorage, TypeOK
<1> QED
  BY <1>1, <1>2, <1>3, <1>4, <1>5, <1>6, <1>7, <1>8, <1>9, <1>10, <1>11,
     <1>12, <1>13, <1>14, <1>15, <1>16, <1>17, <1>18, <1>19, <1>20, <1>21,
     <1>22, <1>23, <1>24, <1>25, <1>26, <1>27, <1>28, <1>29, <1>30
  DEF Next, Step, Claim, Work, Resume, PublishStep, Finish, Environment

(* No step un-names, un-records or changes a linked copy.                    *)
LEMMA FileStep ==
  ASSUME IInv, [Next]_vars
  PROVE  FileInv'
<1> USE DEF Goto, Close, dbVars, fileVars, execVars
<1>inv. TypeOK /\ IntentInv /\ ExecutorInv /\ FileInv /\ ProgressInv
  BY DEF IInv, TypeInv
<1>1. ASSUME NEW e \in Exec,
             RefuseLegacy(e) \/ RefuseStorage(e) \/
             Start(e) \/ Create(e) \/ Reclaim(e) \/ FindBusy(e) \/
             FindTerminal(e) \/ Prepare(e) \/ RejectInput(e) \/ Seal(e) \/
             StayBlocked(e) \/ FindSettled(e) \/ FindCanonical(e) \/
             RequestCommit(e) \/ CommitAborted(e) \/ DamageSource(e)
      PROVE  FileInv'
  BY <1>inv, <1>1
  DEF RefuseLegacy, RefuseStorage,
      FileInv, TypeOK, Start, Create, Reclaim, FindBusy, FindTerminal,
      Prepare, RejectInput, Seal, StayBlocked, FindSettled, FindCanonical,
      RequestCommit, CommitAborted, DamageSource
<1>2. CASE ExpireLease \/ (\E p \in Proc : Crash(p)) \/ (\E h \in Host :
           Attest(h))
  BY <1>inv, <1>2
  DEF FileInv, TypeOK, ExpireLease, Crash, Attest
<1>3. ASSUME NEW e \in Exec, AcquireIntent(e) PROVE FileInv'
  BY <1>inv, <1>3, ColumnTypes, ConstantsAssumption
  DEF AcquireIntent, FileInv, TypeOK, MayAuthorize, HoldsLease, Intent
<1>4. ASSUME NEW e \in Exec, Transfer(e) PROVE FileInv'
  BY <1>inv, <1>4, ColumnTypes, ConstantsAssumption
  DEF Transfer, FileInv, TypeOK, Intent
<1>5. ASSUME NEW e \in Exec, CopySealed(e) PROVE FileInv'
  <2>1. UNCHANGED <<canonical, intent, copyRow>>
    BY <1>5 DEF CopySealed
  <2>2. \A f \in Exec, a \in Art :
          <<f, a>> \in staged => <<f, a>> \in staged' \/ a = art[e]
    <3>1. Swept(e, {}) \subseteq staged'
      BY <1>5 DEF CopySealed
    <3> QED
      BY <3>1, SweptFacts
  <2>4. \A f \in Exec, a \in Art :
          bytes'[f][a] = bytes[f][a] \/ (f = e /\ a = art[e])
    <3>1. bytes \in [Exec -> [Art -> Owner]]
      BY <1>inv DEF TypeOK
    <3>2. CASE UNCHANGED bytes
      BY <3>2
    <3>3. CASE bytes' = [bytes EXCEPT ![e][art[e]] = SourceBytes(mine[e].seal)]
      BY <3>1, <3>3
    <3> QED
      BY <1>5, <3>2, <3>3 DEF CopySealed
  <2>3. canonical[art[e]] \notin Exec
    BY <1>5, ConstantsAssumption DEF CopySealed
  <2> QED
    BY <1>inv, <2>1, <2>2, <2>3, <2>4 DEF FileInv
<1>6. ASSUME NEW e \in Exec, RecordCopy(e) PROVE FileInv'
  <2>1. UNCHANGED <<canonical, intent, bytes>> /\ canonical[art[e]] \notin Exec
    BY <1>inv, <1>6 DEF RecordCopy, ProgressInv
  <2>2. \A f \in Exec, a \in Art :
          /\ <<f, a>> \in staged => <<f, a>> \in staged' \/ a = art[e]
          /\ copyRow'[a] = copyRow[a] \/ a = art[e]
    <3>1. \A f \in Exec, a \in Art :
            <<f, a>> \in staged => <<f, a>> \in staged' \/ a = art[e]
      BY <1>6, SweptFacts DEF RecordCopy, DropOwnStaging
    <3>2. \A a \in Art : copyRow'[a] = copyRow[a] \/ a = art[e]
      BY <1>inv, <1>6 DEF RecordCopy, TypeOK
    <3> QED
      BY <3>1, <3>2
  <2> QED
    BY <1>inv, <2>1, <2>2 DEF FileInv
<1>7. ASSUME NEW e \in Exec, Link(e) PROVE FileInv'
  <2>1. UNCHANGED <<intent, copyRow, bytes, staged>>
    BY <1>7 DEF Link
  <2>2. /\ copyRow[art[e]] = e /\ <<e, art[e]>> \in staged
        /\ bytes[e][art[e]] = mine[e].seal
        /\ intent.state = "authorized" /\ intent.seal = mine[e].seal
    BY <1>inv, <1>7
    DEF Link, ProgressInv, ExecutorInv, HoldsIntent, Publishing
  <2>3. \A a \in Art : canonical'[a] = canonical[a] \/ (a = art[e] /\ canonical'[a] = e)
    BY <1>inv, <1>7 DEF Link, TypeOK
  <2> QED
    BY <1>inv, <2>1, <2>2, <2>3 DEF FileInv
<1>8. ASSUME NEW e \in Exec, ReviewPublication(e) PROVE FileInv'
  BY <1>inv, <1>8, ColumnTypes, ConstantsAssumption
  DEF ReviewPublication, FileInv, TypeOK, ReviewOperation, Open, Intent
<1>9. ASSUME NEW e \in Exec, CommitDone(e) PROVE FileInv'
  BY <1>inv, <1>9, ColumnTypes, ConstantsAssumption
  DEF CommitDone, FileInv, TypeOK, Settle, Intent
<1>10. ASSUME NEW e \in Exec, Fail(e) PROVE FileInv'
  <2>1. UNCHANGED <<canonical, intent, bytes, copyRow>>
    BY <1>10 DEF Fail
  <2>2. \A f \in Exec, a \in Art : <<f, a>> \in staged =>
          <<f, a>> \in staged' \/ (a = art[e] /\ canonical[a] \notin Exec)
    BY <1>10, SweptFacts, ConstantsAssumption DEF Fail, DropOwnStaging
  <2> QED
    BY <1>inv, <2>1, <2>2 DEF FileInv
<1>11. ASSUME NEW a \in Art, ForeignFile(a) PROVE FileInv'
  BY <1>inv, <1>11, ColumnTypes, ConstantsAssumption
  DEF ForeignFile, FileInv, TypeOK
<1>12. CASE UNCHANGED vars
  BY <1>inv, <1>12
  DEF vars, FileInv, TypeOK
<1>13. ASSUME NEW e \in Exec, Resolve(e) PROVE FileInv'
  <2>1. UNCHANGED <<canonical, intent, bytes, copyRow>> /\ art[e] \in Art
    BY <1>inv, <1>13 DEF Resolve, TypeOK
  <2>2. mine[e].seal = intent.seal
    BY <1>inv, <1>13 DEF Resolve, ExecutorInv, HoldsIntent, Publishing
  <2>3. canonical[art[e]] \in Exec => IsOwnCopy(e, art[e])
    BY <1>inv, <2>1, <2>2 DEF FileInv, IsOwnCopy
  <2>4. \A f \in Exec, a \in Art :
          <<f, a>> \in staged /\ canonical[a] = f => <<f, a>> \in staged'
    BY <1>13, <2>1, <2>3, SweptFacts DEF Resolve
  <2> QED
    BY <1>inv, <2>1, <2>4 DEF FileInv
<1> QED
  BY <1>1, <1>2, <1>3, <1>4, <1>5, <1>6, <1>7, <1>8, <1>9, <1>10, <1>11, <1>12,
     <1>13
  DEF Next, Step, Claim, Work, Resume, PublishStep, Finish, Environment

(* The publishing execution takes the artifacts in order, each one copied,   *)
(* recorded and linked.                                                      *)
LEMMA ProgressStep ==
  ASSUME IInv, [Next]_vars
  PROVE  ProgressInv'
<1> USE DEF Goto, Close, dbVars, fileVars, execVars
<1>inv. TypeOK /\ IntentInv /\ EarlyInv /\ ExecutorInv /\ FileInv /\ ProgressInv /\ LockInv
  BY DEF IInv, TypeInv
<1>one. \A f, g \in Exec : pc[f] \in Publishing /\ pc[g] \in Publishing => f = g
  BY <1>inv DEF ExecutorInv, HoldsIntent
<1>1. ASSUME NEW e \in Exec,
             RefuseLegacy(e) \/ RefuseStorage(e) \/
             Start(e) \/ Create(e) \/ Reclaim(e) \/ FindBusy(e) \/
             Prepare(e) \/ RejectInput(e) \/ StayBlocked(e) \/
             FindSettled(e) \/ ReviewPublication(e) \/ DamageSource(e)
      PROVE  ProgressInv'
  BY <1>inv, <1>1
  DEF RefuseLegacy, RefuseStorage,
      ProgressInv, TypeOK, Publishing, Start, Create, Reclaim, FindBusy,
      Prepare, RejectInput, StayBlocked, FindSettled, ReviewPublication,
      DamageSource
<1>2. CASE ExpireLease \/ (\E h \in Host : Attest(h))
  BY <1>inv, <1>2
  DEF ProgressInv, TypeOK, Publishing, ExpireLease, Attest
<1>3. ASSUME NEW e \in Exec, FindTerminal(e) PROVE ProgressInv'
  BY <1>inv, <1>3, ColumnTypes, <1>one, ArtFacts, ConstantsAssumption
  DEF FindTerminal, ProgressInv, TypeOK, Publishing
<1>4. ASSUME NEW e \in Exec, Seal(e) PROVE ProgressInv'
  BY <1>inv, <1>4, ColumnTypes, <1>one, ArtFacts, ConstantsAssumption
  DEF Seal, ProgressInv, TypeOK, Publishing, HoldsLease
<1>5. ASSUME NEW e \in Exec, AcquireIntent(e) PROVE ProgressInv'
  <2>1. art[e] = 1
    BY <1>inv, <1>5 DEF AcquireIntent, EarlyInv, Preparing, Claiming
  <2>2. \A a \in Art : ~(a < 1)
    BY ArtFacts DEF Art
  <2>3. \A f \in Exec \ {e} : pc'[f] = pc[f] /\ mine'[f] = mine[f]
    BY <1>inv, <1>5 DEF AcquireIntent, TypeOK
  <2>4. pc'[e] \in {"publish", "fenced"}
    BY <1>inv, <1>5 DEF AcquireIntent, TypeOK
  <2>5. UNCHANGED <<canonical, bytes, staged, copyRow, art>>
    BY <1>5 DEF AcquireIntent
  <2> QED
    BY <1>inv, <2>1, <2>2, <2>3, <2>4, <2>5 DEF ProgressInv, Publishing
<1>6. ASSUME NEW e \in Exec, Transfer(e) PROVE ProgressInv'
  <2>1. art[e] = 1
    BY <1>inv, <1>6 DEF Transfer, EarlyInv, Preparing, Claiming
  <2>2. \A a \in Art : ~(a < 1)
    BY ArtFacts DEF Art
  <2>3. \A f \in Exec \ {e} : pc'[f] = pc[f] /\ mine'[f] = mine[f]
    BY <1>inv, <1>6 DEF Transfer, TypeOK
  <2>4. pc'[e] \in {"publish", "fenced"}
    BY <1>inv, <1>6 DEF Transfer, TypeOK
  <2>5. UNCHANGED <<canonical, bytes, staged, copyRow, art>>
    BY <1>6 DEF Transfer
  <2> QED
    BY <1>inv, <2>1, <2>2, <2>3, <2>4, <2>5 DEF ProgressInv, Publishing
<1>7. ASSUME NEW e \in Exec, FindCanonical(e) PROVE ProgressInv'
  BY <1>inv, <1>7, ColumnTypes, <1>one, ArtFacts, ConstantsAssumption
  DEF FindCanonical, ProgressInv, TypeOK, Publishing
<1>8. ASSUME NEW e \in Exec, CopySealed(e) PROVE ProgressInv'
  BY <1>inv, <1>8, ColumnTypes, <1>one, ArtFacts, ConstantsAssumption
  DEF CopySealed, ProgressInv, TypeOK, Publishing, SourceBytes, Verified
<1>9. ASSUME NEW e \in Exec, RecordCopy(e) PROVE ProgressInv'
  BY <1>inv, <1>9, ColumnTypes, <1>one, ArtFacts, ConstantsAssumption
  DEF RecordCopy, ProgressInv, TypeOK, Publishing, DropOwnStaging
<1>10. ASSUME NEW e \in Exec, Link(e) PROVE ProgressInv'
  <2>1. art[e] \in Art /\ art[e] \in Nat
    BY <1>inv, ArtFacts DEF TypeOK
  <2>2. pc[e] \in Publishing /\ (\A f \in Exec \ {e} : pc[f] \notin Publishing)
    BY <1>one, <1>10 DEF Link, Publishing
  <2>3. \A f \in Exec \ {e} : pc'[f] = pc[f]
    BY <1>inv, <1>10 DEF Link, NextArtifact, TypeOK
  <2>4. /\ UNCHANGED <<bytes, staged, copyRow, mine>>
        /\ \A a \in Art \ {art[e]} : canonical'[a] = canonical[a]
        /\ canonical[art[e]] \in Exec => canonical'[art[e]] = canonical[art[e]]
    BY <1>inv, <1>10, ConstantsAssumption DEF Link, TypeOK, NameFree
  <2>5. CASE NextArtifact(e) /\ canonical'[art[e]] \in Exec
    <3>1. ASSUME NEW a \in Art, a < art[e] + 1 PROVE canonical'[a] \in Exec
      <4>1. a < art[e] \/ a = art[e]
        BY <2>1, <3>1, ArtFacts
      <4>2. a < art[e] => canonical[a] \in Exec /\ a /= art[e]
        <5>1. a < art[e] => a /= art[e]
          BY <2>1, ArtFacts
        <5> QED
          BY <1>inv, <2>2, <5>1 DEF ProgressInv
      <4> QED
        BY <2>4, <2>5, <4>1, <4>2
    <3>2. CASE /\ art[e] + 1 \in Art /\ art' = [art EXCEPT ![e] = art[e] + 1]
               /\ pc' = [pc EXCEPT ![e] = "publish"]
      <4>1. art'[e] = art[e] + 1 /\ pc'[e] = "publish"
        BY <1>inv, <3>2 DEF TypeOK
      <4> QED
        BY <1>inv, <2>2, <2>3, <3>1, <4>1 DEF ProgressInv, Publishing
    <3>3. CASE /\ art[e] + 1 \notin Art /\ UNCHANGED art
               /\ pc' = [pc EXCEPT ![e] = "commit"]
      <4>1. \A a \in Art : a < art[e] + 1
        BY <3>3, <2>1, ArtFacts DEF Art
      <4>2. pc'[e] = "commit"
        BY <1>inv, <3>3 DEF TypeOK
      <4> QED
        BY <1>inv, <2>2, <2>3, <3>1, <3>3, <4>1, <4>2, <2>1
        DEF ProgressInv, Publishing
    <3> QED
      BY <2>5, <3>2, <3>3 DEF NextArtifact
  <2>6. CASE pc' = [pc EXCEPT ![e] = "resolve"] /\ UNCHANGED <<art, canonical>>
             /\ canonical[art[e]] /= None
    <3>1. pc'[e] = "resolve"
      BY <1>inv, <2>6 DEF TypeOK
    <3> QED
      BY <1>inv, <2>2, <2>3, <2>4, <2>6, <3>1 DEF ProgressInv, Publishing
  <2> QED
    BY <1>inv, <1>10, <2>1, <2>5, <2>6 DEF Link, TypeOK, NameFree
<1>11. ASSUME NEW e \in Exec, Resolve(e) PROVE ProgressInv'
  <2>1. art[e] \in Art /\ art[e] \in Nat
    BY <1>inv, ArtFacts DEF TypeOK
  <2>2. pc[e] \in Publishing /\ (\A f \in Exec \ {e} : pc[f] \notin Publishing)
    BY <1>one, <1>11 DEF Resolve, Publishing
  <2>3. \A f \in Exec \ {e} : pc'[f] = pc[f]
    BY <1>inv, <1>11 DEF Resolve, NextArtifact, TypeOK
  <2>4. UNCHANGED <<bytes, canonical, copyRow, mine>>
    BY <1>11 DEF Resolve
  <2>5. CASE NextArtifact(e) /\ canonical'[art[e]] \in Exec
    <3>1. ASSUME NEW a \in Art, a < art[e] + 1 PROVE canonical'[a] \in Exec
      <4>1. a < art[e] \/ a = art[e]
        BY <2>1, <3>1, ArtFacts
      <4>2. a < art[e] => canonical[a] \in Exec /\ a /= art[e]
        <5>1. a < art[e] => a /= art[e]
          BY <2>1, ArtFacts
        <5> QED
          BY <1>inv, <2>2, <5>1 DEF ProgressInv
      <4> QED
        BY <2>4, <2>5, <4>1, <4>2
    <3>2. CASE /\ art[e] + 1 \in Art /\ art' = [art EXCEPT ![e] = art[e] + 1]
               /\ pc' = [pc EXCEPT ![e] = "publish"]
      <4>1. art'[e] = art[e] + 1 /\ pc'[e] = "publish"
        BY <1>inv, <3>2 DEF TypeOK
      <4> QED
        BY <1>inv, <2>2, <2>3, <3>1, <4>1 DEF ProgressInv, Publishing
    <3>3. CASE /\ art[e] + 1 \notin Art /\ UNCHANGED art
               /\ pc' = [pc EXCEPT ![e] = "commit"]
      <4>1. \A a \in Art : a < art[e] + 1
        BY <3>3, <2>1, ArtFacts DEF Art
      <4>2. pc'[e] = "commit"
        BY <1>inv, <3>3 DEF TypeOK
      <4> QED
        BY <1>inv, <2>2, <2>3, <3>1, <3>3, <4>1, <4>2, <2>1
        DEF ProgressInv, Publishing
    <3> QED
      BY <2>5, <3>2, <3>3 DEF NextArtifact
  <2>6. CASE pc' = [pc EXCEPT ![e] = "review"] /\ UNCHANGED <<art, canonical>>
             /\ canonical[art[e]] /= None
    <3>1. pc'[e] = "review"
      BY <1>inv, <2>6 DEF TypeOK
    <3> QED
      BY <1>inv, <2>2, <2>3, <2>4, <2>6, <3>1 DEF ProgressInv, Publishing
  <2> QED
    BY <1>inv, <1>11, <2>1, <2>5, <2>6
    DEF Resolve, IsOwnCopy, ProgressInv
<1>12. ASSUME NEW e \in Exec, RequestCommit(e) PROVE ProgressInv'
  BY <1>inv, <1>12, ColumnTypes, <1>one, ArtFacts, ConstantsAssumption
  DEF RequestCommit, ProgressInv, TypeOK, Publishing, MayCommit
<1>13. ASSUME NEW e \in Exec, CommitDone(e) PROVE ProgressInv'
  BY <1>inv, <1>13, ColumnTypes, <1>one, ArtFacts, ConstantsAssumption
  DEF CommitDone, ProgressInv, TypeOK, Publishing, Settle
<1>14. ASSUME NEW e \in Exec, CommitAborted(e) PROVE ProgressInv'
  BY <1>inv, <1>14, ColumnTypes, <1>one, ArtFacts, ConstantsAssumption
  DEF CommitAborted, ProgressInv, TypeOK, Publishing, Settle
<1>15. ASSUME NEW e \in Exec, Fail(e) PROVE ProgressInv'
  BY <1>inv, <1>15, ColumnTypes, <1>one, ArtFacts, ConstantsAssumption
  DEF Fail, ProgressInv, TypeOK, Publishing, DropOwnStaging
<1>16. ASSUME NEW p \in Proc, Crash(p) PROVE ProgressInv'
  BY <1>inv, <1>16, ColumnTypes, <1>one, ArtFacts, ConstantsAssumption
  DEF Crash, ProgressInv, TypeOK, Publishing
<1>17. ASSUME NEW a \in Art, ForeignFile(a) PROVE ProgressInv'
  BY <1>inv, <1>17, ColumnTypes, <1>one, ArtFacts, ConstantsAssumption
  DEF ForeignFile, ProgressInv, TypeOK, Publishing
<1>18. CASE UNCHANGED vars
  BY <1>inv, <1>18
  DEF vars, ProgressInv, TypeOK, Publishing
<1> QED
  BY <1>1, <1>2, <1>3, <1>4, <1>5, <1>6, <1>7, <1>8, <1>9, <1>10, <1>11,
     <1>12, <1>13, <1>14, <1>15, <1>16, <1>17, <1>18
  DEF Next, Step, Claim, Work, Resume, PublishStep, Finish, Environment

(* The photo row appears with the committed state and only then.             *)
LEMMA PhotoStep ==
  ASSUME IInv, [Next]_vars
  PROVE  PhotoInv'
<1> USE DEF Goto, Close, dbVars, fileVars, execVars
<1>inv. TypeOK /\ PhotoInv /\ LockInv
  BY DEF IInv, TypeInv
<1>1. ASSUME NEW e \in Exec,
             RefuseLegacy(e) \/ RefuseStorage(e) \/
             Start(e) \/ FindBusy(e) \/ FindTerminal(e) \/ Prepare(e) \/
             AcquireIntent(e) \/ Transfer(e) \/ StayBlocked(e) \/
             FindSettled(e) \/ FindCanonical(e) \/ CopySealed(e) \/
             RecordCopy(e) \/ Resolve(e) \/ RequestCommit(e) \/
             CommitAborted(e) \/ Fail(e) \/ DamageSource(e)
      PROVE  PhotoInv'
  BY <1>inv, <1>1
  DEF RefuseLegacy, RefuseStorage,
      PhotoInv, TypeOK, Start, FindBusy, FindTerminal, Prepare, AcquireIntent,
      Transfer, StayBlocked, FindSettled, FindCanonical, CopySealed,
      RecordCopy, Resolve, RequestCommit, CommitAborted, Fail, DamageSource
<1>2. CASE (\E p \in Proc : Crash(p)) \/ (\E h \in Host : Attest(h))
  BY <1>inv, <1>2
  DEF PhotoInv, TypeOK, Crash, Attest
<1>3. ASSUME NEW e \in Exec, Create(e) PROVE PhotoInv'
  BY <1>inv, <1>3, ColumnTypes, ConstantsAssumption
  DEF Create, PhotoInv, TypeOK
<1>4. ASSUME NEW e \in Exec, Reclaim(e) PROVE PhotoInv'
  BY <1>inv, <1>4, ColumnTypes, ConstantsAssumption
  DEF Reclaim, PhotoInv, TypeOK, Superseded, MayReclaim, Open
<1>5. ASSUME NEW e \in Exec, RejectInput(e) PROVE PhotoInv'
  BY <1>inv, <1>5, ColumnTypes, ConstantsAssumption
  DEF RejectInput, PhotoInv, TypeOK, ReviewOperation, Open, Operation
<1>6. ASSUME NEW e \in Exec, Seal(e) PROVE PhotoInv'
  BY <1>inv, <1>6, ColumnTypes, ConstantsAssumption
  DEF Seal, PhotoInv, TypeOK, HoldsLease, Operation
<1>7. ASSUME NEW e \in Exec, Link(e) PROVE PhotoInv'
  BY <1>inv, <1>7, ColumnTypes, ConstantsAssumption
  DEF Link, PhotoInv, TypeOK, NextArtifact, NameFree
<1>8. ASSUME NEW e \in Exec, ReviewPublication(e) PROVE PhotoInv'
  BY <1>inv, <1>8, ColumnTypes, ConstantsAssumption
  DEF ReviewPublication, PhotoInv, TypeOK, ReviewOperation, Open, Operation
<1>9. ASSUME NEW e \in Exec, CommitDone(e) PROVE PhotoInv'
  <2>1. /\ op.state = "sealed" /\ op.gen = mine[e].gen /\ op.seal = mine[e].seal
        /\ \A a \in Art : canonical[a] \in Exec
    BY <1>inv, <1>9 DEF CommitDone, LockInv, MayCommit
  <2>2. op'.state = "committed" /\ op'.gen = op.gen /\ op'.seal = op.seal
    BY <1>inv, <1>9 DEF CommitDone, TypeOK, Operation
  <2>3. photos' = {[by |-> e, gen |-> op'.gen, seal |-> op'.seal]}
    BY <1>inv, <1>9, <2>1, <2>2 DEF CommitDone, PhotoInv
  <2>4. UNCHANGED canonical
    BY <1>9 DEF CommitDone
  <2> QED
    BY <2>1, <2>2, <2>3, <2>4 DEF PhotoInv
<1>10. CASE ExpireLease
  BY <1>inv, <1>10, ColumnTypes, ConstantsAssumption
  DEF ExpireLease, PhotoInv, TypeOK, Open, Operation
<1>11. ASSUME NEW a \in Art, ForeignFile(a) PROVE PhotoInv'
  BY <1>inv, <1>11, ColumnTypes, ConstantsAssumption
  DEF ForeignFile, PhotoInv, TypeOK
<1>12. CASE UNCHANGED vars
  BY <1>inv, <1>12
  DEF vars, PhotoInv, TypeOK
<1> QED
  BY <1>1, <1>2, <1>3, <1>4, <1>5, <1>6, <1>7, <1>8, <1>9, <1>10, <1>11, <1>12
  DEF Next, Step, Claim, Work, Resume, PublishStep, Finish, Environment

(* Seals name prepared files of the owner of their generation, and only      *)
(* evidence, or a legacy seal before a confined executor, sends a            *)
(* publication to review.                                                    *)
LEMMA SealStep ==
  ASSUME IInv, [Next]_vars
  PROVE  SealInv'
<1> USE DEF Goto, Close, dbVars, fileVars, execVars
<1>inv. TypeOK /\ TokenInv /\ GenerationInv /\ IntentInv /\ EarlyInv /\ ExecutorInv /\ FileInv /\ ProgressInv /\ LockInv /\ SealInv
  BY DEF IInv, TypeInv
<1>rev. \A f \in Exec : pc[f] = "review" =>
          /\ intent.state = "authorized" /\ intent.token = f
          /\ intent.seal = mine[f].seal
  BY <1>inv DEF ExecutorInv, HoldsIntent, Publishing
<1>keep. ASSUME op'.seal = op.seal, op'.owner = op.owner,
                op'.state = "review" => op.state = "review",
                intent'.seal = intent.seal, intent'.token = intent.token,
                intent.state = "review" => intent'.state = "review",
                intent'.state /= "absent" => intent.state /= "absent",
                \A a \in Art : canonical[a] = Foreign => canonical'[a] = Foreign,
                \A f \in Exec :
                  /\ src'[f] = src[f] \/ (src[f] = "intact" /\ src'[f] = "damaged")
                  /\ pc[f] /= "idle" => where'[f] = where[f]
                  /\ mine'[f].seal = mine[f].seal
                  /\ pc'[f] \in {"idle", "prepare"} \union Claiming =>
                       pc[f] \in {"idle", "prepare"} \union Claiming
                  /\ pc'[f] \in {"seal", "intent", "review"} => pc'[f] = pc[f]
         PROVE  SealInv'
  <2>1. Damaged => Damaged' \/ op.owner \notin Exec
    BY <1>keep DEF Damaged
  <2>2. op.state = "review" => op.owner \in Exec
    BY <1>inv DEF GenerationInv
  <2>3. \A f \in Exec : pc[f] = "review" => op.owner \in Exec
    BY <1>inv, <1>rev DEF GenerationInv
  <2>4. intent.state /= "absent" =>
          where'[intent.seal] = where[intent.seal]
            /\ where'[intent.token] = where[intent.token]
    BY <1>inv, <1>keep DEF SealInv, TokenInv
  <2>5. LegacyRefused => LegacyRefused'
    BY <1>keep, <2>4 DEF LegacyRefused, Legacy
  <2>6. op'.state = "review" => Damaged' \/ LegacyRefused'
    BY <1>inv, <1>keep, <2>1, <2>2, <2>5 DEF SealInv
  <2>7. ASSUME NEW f \in Exec, pc'[f] = "review"
        PROVE  Damaged' \/ (Legacy(mine[f].seal) /\ where[f] \in Confined)'
    BY <1>inv, <1>rev, <1>keep, <2>1, <2>3, <2>4, <2>7 DEF SealInv, Legacy
  <2> QED
    BY <1>inv, <1>keep, <2>6, <2>7 DEF SealInv
<1>1. ASSUME NEW e \in Exec,
             Start(e) \/ FindBusy(e) \/ FindTerminal(e) \/ StayBlocked(e) \/
             FindSettled(e) \/ RefuseStorage(e) \/ FindCanonical(e) \/
             RecordCopy(e) \/ RequestCommit(e) \/ Fail(e)
      PROVE  SealInv'
  BY <1>inv, <1>1, <1>keep
  DEF Claiming, TypeOK, Start, FindBusy, FindTerminal, StayBlocked, FindSettled,
      RefuseStorage, FindCanonical, RecordCopy, RequestCommit, Fail
<1>2. CASE \E h \in Host : Attest(h)
  BY <1>inv, <1>2, <1>keep DEF Attest
<1>3. ASSUME NEW e \in Exec, Create(e) PROVE SealInv'
  <2>1. intent.state = "absent" /\ \A f \in Exec : pc[f] /= "review"
    BY <1>inv, <1>rev, <1>3 DEF Create, GenerationInv
  <2> QED
    BY <1>inv, <1>3, <2>1, ConstantsAssumption DEF Create, SealInv, Claiming, TypeOK
<1>4. ASSUME NEW e \in Exec, Reclaim(e) PROVE SealInv'
  <2>1. \A f \in Exec : pc[f] /= "review"
    BY <1>inv, <1>rev, <1>4 DEF Reclaim, MayReclaim
  <2> QED
    BY <1>inv, <1>4, <2>1, ConstantsAssumption DEF Reclaim, SealInv, Claiming, TypeOK
<1>5. ASSUME NEW e \in Exec, Prepare(e) PROVE SealInv'
  <2>1. src[e] = "none"
    BY <1>inv, <1>5 DEF Prepare, SealInv
  <2>2. Damaged => Damaged'
    BY <1>inv, <1>5, <2>1 DEF Prepare, Damaged, TypeOK
  <2>3. LegacyRefused' = LegacyRefused /\ \A s : Legacy(s)' = Legacy(s)
    BY <1>5 DEF Prepare, LegacyRefused, Legacy
  <2> QED
    BY <1>inv, <1>5, <2>2, <2>3 DEF Prepare, SealInv, Legacy, Claiming, TypeOK
<1>6. ASSUME NEW e \in Exec, RejectInput(e) PROVE SealInv'
  <2>1. /\ op'.owner = op.owner /\ op'.seal = op.seal
        /\ op'.state = op.state \/ op.owner = mine[e].owner
    BY <1>inv, <1>6 DEF RejectInput, ReviewOperation, TypeOK, Operation
  <2>2. mine[e].owner = e
    BY <1>inv, <1>6 DEF RejectInput, EarlyInv, Preparing
  <2>3. src'[e] = "rejected" /\ \A f \in Exec \ {e} : src'[f] = src[f]
    BY <1>inv, <1>6 DEF RejectInput, TypeOK
  <2>4. UNCHANGED <<intent, canonical, where, mine>>
    BY <1>6 DEF RejectInput
  <2>5. pc'[e] = "refused" /\ \A f \in Exec \ {e} : pc'[f] = pc[f]
    BY <1>inv, <1>6 DEF RejectInput, TypeOK
  <2>6. Damaged => Damaged' \/ op.owner \notin Exec
    BY <2>1, <2>3, <2>4 DEF Damaged
  <2>7. op.owner = e => Damaged'
    BY <2>1, <2>3 DEF Damaged
  <2>8. LegacyRefused' = LegacyRefused
    BY <2>4 DEF LegacyRefused, Legacy
  <2>9. /\ op'.state = "review" => Damaged' \/ LegacyRefused'
        /\ \A f \in Exec : pc[f] = "review" => op.owner \in Exec
    BY <1>inv, <1>rev, <2>1, <2>2, <2>6, <2>7, <2>8 DEF SealInv, GenerationInv
  <2> QED
    BY <1>inv, <2>1, <2>3, <2>4, <2>5, <2>6, <2>9
    DEF SealInv, Legacy, Claiming
<1>7. ASSUME NEW e \in Exec, Seal(e) PROVE SealInv'
  <2>1. CASE UNCHANGED op /\ pc' = [pc EXCEPT ![e] = "fenced"] /\ UNCHANGED mine
    BY <1>inv, <1>7, <2>1, <1>keep DEF Seal, Claiming, TypeOK
  <2>2. CASE /\ HoldsLease(e)
             /\ op' = [op EXCEPT !.state = "sealed", !.seal = e]
             /\ mine' = [mine EXCEPT ![e].seal = e]
             /\ pc' = [pc EXCEPT ![e] = "intent"]
    <3>1. op'.seal = e /\ op'.state = "sealed" /\ op'.owner = op.owner
      BY <1>inv, <2>2 DEF TypeOK, Operation
    <3>2. \A f \in Exec : mine'[f].seal = IF f = e THEN e ELSE mine[f].seal
      BY <1>inv, <2>2 DEF TypeOK, Authority
    <3>3. op.owner = e
      BY <1>inv, <1>7, <2>2 DEF Seal, HoldsLease, EarlyInv, Preparing
    <3>4. UNCHANGED <<intent, canonical, src, where>>
      BY <1>7 DEF Seal
    <3>5. pc'[e] = "intent" /\ \A f \in Exec \ {e} : pc'[f] = pc[f]
      BY <1>inv, <2>2 DEF TypeOK
    <3>6. Damaged' = Damaged
      BY <3>1, <3>4 DEF Damaged
    <3>7. src[e] /= "none"
      BY <1>inv, <1>7 DEF Seal, SealInv
    <3> QED
      BY <1>inv, <3>1, <3>2, <3>3, <3>4, <3>5, <3>6, <3>7
      DEF SealInv, Legacy, Claiming
  <2> QED
    BY <1>7, <2>1, <2>2 DEF Seal
<1>8. ASSUME NEW e \in Exec, AcquireIntent(e) PROVE SealInv'
  <2>1. CASE MayAuthorize(e)
    <3>1. \A f \in Exec : pc[f] /= "review"
      BY <1>inv, <1>rev, <2>1 DEF MayAuthorize
    <3>2. op.state = "sealed" /\ mine[e].seal = e /\ src[e] /= "none"
      BY <1>inv, <1>8, <2>1 DEF AcquireIntent, MayAuthorize, SealInv
    <3>3. /\ intent'.seal = e /\ UNCHANGED <<op, src>>
          /\ pc'[e] = "publish" /\ \A f \in Exec \ {e} : pc'[f] = pc[f]
      BY <1>inv, <1>8, <2>1, <3>2 DEF AcquireIntent, TypeOK
    <3>4. \A f \in Exec : mine'[f].seal = mine[f].seal
      <4>1. mine' = [mine EXCEPT ![e].epoch = 1]
        BY <1>8, <2>1 DEF AcquireIntent
      <4> QED
        BY <1>inv, <4>1 DEF TypeOK, Authority
    <3> QED
      BY <1>inv, <3>1, <3>2, <3>3, <3>4 DEF SealInv, Claiming
  <2>2. CASE ~MayAuthorize(e)
    BY <1>inv, <1>8, <2>2, <1>keep DEF AcquireIntent, Claiming, TypeOK
  <2> QED
    BY <2>1, <2>2
<1>9. ASSUME NEW e \in Exec, Transfer(e) PROVE SealInv'
  <2>1. /\ intent'.seal = intent.seal /\ intent'.state = intent.state
        /\ intent.state = "authorized"
        /\ UNCHANGED <<op, src, canonical, where>>
        /\ pc'[e] = "publish"
        /\ \A f \in Exec \ {e} : pc'[f] = pc[f] /\ mine'[f] = mine[f]
    BY <1>inv, <1>9 DEF Transfer, TypeOK, Intent
  <2>2. Damaged' = Damaged
    BY <2>1 DEF Damaged
  <2>3. ~LegacyRefused
    BY <2>1 DEF LegacyRefused
  <2> QED
    BY <1>inv, <2>1, <2>2, <2>3 DEF SealInv, Legacy, Claiming
<1>10. ASSUME NEW e \in Exec, CopySealed(e) PROVE SealInv'
  <2>1. UNCHANGED <<op, intent, src, canonical, where, mine>>
    BY <1>10 DEF CopySealed
  <2>2. CASE pc' = [pc EXCEPT ![e] = "record"]
    BY <1>inv, <2>1, <2>2, <1>keep DEF Claiming, TypeOK
  <2>3. CASE /\ ~Verified(SourceBytes(mine[e].seal), mine[e].seal)
             /\ pc' = [pc EXCEPT ![e] = "review"]
    <3>1. /\ mine[e].seal = intent.seal /\ intent.seal = op.seal
          /\ op.seal \in Exec /\ op.owner = op.seal
      BY <1>inv, <1>10
      DEF CopySealed, ExecutorInv, HoldsIntent, Publishing, IntentInv,
          AuthorityPinsGeneration, SealInv
    <3>2. src[op.owner] \in {"damaged", "rejected"}
      BY <1>inv, <2>3, <3>1 DEF Verified, SourceBytes, SealInv, TypeOK
    <3>3. Damaged'
      BY <2>1, <3>2 DEF Damaged
    <3>4. pc'[e] = "review" /\ \A f \in Exec \ {e} : pc'[f] = pc[f]
      BY <1>inv, <2>3 DEF TypeOK
    <3> QED
      BY <1>inv, <2>1, <3>3, <3>4 DEF SealInv, Claiming
  <2> QED
    BY <1>10, <2>2, <2>3 DEF CopySealed
<1>11. ASSUME NEW e \in Exec, RefuseLegacy(e) PROVE SealInv'
  <2>1. /\ UNCHANGED <<op, intent, src, canonical, where, mine>>
        /\ Legacy(mine[e].seal) /\ where[e] \in Confined
        /\ pc'[e] = "review" /\ \A f \in Exec \ {e} : pc'[f] = pc[f]
    BY <1>inv, <1>11 DEF RefuseLegacy, TypeOK
  <2>2. Damaged' = Damaged /\ LegacyRefused' = LegacyRefused
    BY <2>1 DEF Damaged, LegacyRefused, Legacy
  <2> QED
    BY <1>inv, <2>1, <2>2 DEF SealInv, Legacy, Claiming
<1>12. ASSUME NEW e \in Exec, Link(e) PROVE SealInv'
  <2>1. \A a \in Art : canonical[a] = Foreign => canonical'[a] = Foreign
    BY <1>inv, <1>12, ConstantsAssumption DEF Link, NameFree, TypeOK
  <2>2. UNCHANGED <<op, intent, src, where, mine>>
    BY <1>12 DEF Link
  <2>3. /\ \A f \in Exec \ {e} : pc'[f] = pc[f]
        /\ pc'[e] \in {"publish", "commit", "resolve"}
    BY <1>inv, <1>12 DEF Link, NextArtifact, TypeOK
  <2> QED
    BY <1>keep, <2>1, <2>2, <2>3 DEF Claiming
<1>13. ASSUME NEW e \in Exec, Resolve(e) PROVE SealInv'
  <2>1. /\ canonical[art[e]] /= None
        /\ mine[e].seal = intent.seal
    BY <1>inv, <1>13
    DEF Resolve, ProgressInv, ExecutorInv, HoldsIntent, Publishing
  <2>2. ~IsOwnCopy(e, art[e]) => canonical[art[e]] = Foreign
    BY <1>inv, <2>1 DEF IsOwnCopy, FileInv, TypeOK, Owner
  <2>3. UNCHANGED <<op, intent, src, canonical, mine, where>>
    BY <1>13 DEF Resolve
  <2>4. CASE IsOwnCopy(e, art[e])
    <3>1. /\ \A f \in Exec \ {e} : pc'[f] = pc[f]
          /\ pc'[e] \in {"publish", "commit"}
      BY <1>inv, <1>13, <2>4 DEF Resolve, NextArtifact, TypeOK
    <3> QED
      BY <1>keep, <2>3, <3>1 DEF Claiming
  <2>5. CASE ~IsOwnCopy(e, art[e])
    <3>1. /\ \A f \in Exec \ {e} : pc'[f] = pc[f]
          /\ pc'[e] = "review"
      BY <1>inv, <1>13, <2>5 DEF Resolve, TypeOK
    <3>2. Damaged'
      BY <1>inv, <2>2, <2>3, <2>5 DEF Damaged, TypeOK
    <3> QED
      BY <1>inv, <2>3, <3>1, <3>2 DEF SealInv, Claiming
  <2> QED
    BY <2>4, <2>5
<1>14. ASSUME NEW e \in Exec, ReviewPublication(e) PROVE SealInv'
  <2>1. /\ HoldsIntent(e)
        /\ \A f \in Exec \ {e} : pc[f] /= "review"
    BY <1>inv, <1>rev, <1>14
    DEF ReviewPublication, ExecutorInv, Publishing
  <2>2. /\ intent'.state = "review" /\ intent'.seal = mine[e].seal
        /\ intent'.token = e /\ intent'.seal = intent.seal
    BY <1>inv, <1>14, <2>1 DEF ReviewPublication, HoldsIntent, TypeOK, Intent
  <2>3. op'.owner = op.owner /\ op'.seal = op.seal
    BY <1>inv, <1>14 DEF ReviewPublication, ReviewOperation, TypeOK, Operation
  <2>4. UNCHANGED <<src, canonical, where, mine>>
    BY <1>14 DEF ReviewPublication
  <2>5. pc'[e] = "refused" /\ \A f \in Exec \ {e} : pc'[f] = pc[f]
    BY <1>inv, <1>14 DEF ReviewPublication, TypeOK
  <2>6. Damaged' \/ LegacyRefused'
    <3>1. Damaged \/ (Legacy(mine[e].seal) /\ where[e] \in Confined)
      BY <1>inv, <1>14 DEF ReviewPublication, SealInv
    <3>2. Damaged' = Damaged
      BY <2>3, <2>4 DEF Damaged
    <3> QED
      BY <2>2, <2>4, <3>1, <3>2 DEF LegacyRefused, Legacy
  <2>7. intent.state /= "absent"
    BY <2>1 DEF HoldsIntent
  <2> QED
    BY <1>inv, <2>1, <2>2, <2>3, <2>4, <2>5, <2>6, <2>7 DEF SealInv, Claiming
<1>15. ASSUME NEW e \in Exec, CommitDone(e) PROVE SealInv'
  <2>1. /\ op'.seal = op.seal /\ op'.state = "committed" /\ op'.owner = op.owner
        /\ intent'.seal = intent.seal /\ intent'.token = intent.token
    BY <1>inv, <1>15 DEF CommitDone, TypeOK, Operation, Intent
  <2>2. intent.state = "authorized"
    BY <1>inv, <1>15 DEF CommitDone, LockInv, MayCommit, HoldsIntent
  <2>3. \A f \in Exec : pc'[f] = pc[f] \/ pc'[f] = "answered"
    BY <1>inv, <1>15 DEF CommitDone, Settle, TypeOK
  <2>4. UNCHANGED <<src, canonical, mine, where>>
    BY <1>15 DEF CommitDone
  <2> QED
    BY <1>keep, <2>1, <2>2, <2>3, <2>4 DEF Claiming
<1>16. ASSUME NEW e \in Exec, CommitAborted(e) PROVE SealInv'
  BY <1>inv, <1>16, <1>keep DEF CommitAborted, Settle, Claiming, TypeOK
<1>17. CASE ExpireLease
  <2>1. /\ op'.state = op.state /\ op'.owner = op.owner /\ op'.seal = op.seal
        /\ UNCHANGED <<intent, src, canonical, mine, where, pc>>
    BY <1>inv, <1>17 DEF ExpireLease, TypeOK, Operation
  <2> QED
    BY <1>keep, <2>1
<1>18. ASSUME NEW e \in Exec, DamageSource(e) PROVE SealInv'
  BY <1>inv, <1>18, <1>keep DEF DamageSource, TypeOK
<1>19. ASSUME NEW p \in Proc, Crash(p) PROVE SealInv'
  BY <1>inv, <1>19, <1>keep DEF Crash, Claiming, TypeOK
<1>20. ASSUME NEW a \in Art, ForeignFile(a) PROVE SealInv'
  BY <1>inv, <1>20, <1>keep DEF ForeignFile, TypeOK
<1>21. CASE UNCHANGED vars
  BY <1>21, <1>keep DEF vars
<1> QED
  BY <1>1, <1>2, <1>3, <1>4, <1>5, <1>6, <1>7, <1>8, <1>9, <1>10, <1>11,
     <1>12, <1>13, <1>14, <1>15, <1>16, <1>17, <1>18, <1>19, <1>20, <1>21
  DEF Next, Step, Claim, Work, Resume, PublishStep, Finish, Environment

-----------------------------------------------------------------------------
LEMMA InitInductive == Init => IInv
<1> SUFFICES ASSUME Init PROVE IInv
  OBVIOUS
<1>1. TypeInv
  BY InitTyped
<1> QED
  BY <1>1, ArtFacts, ConstantsAssumption
  DEF Init, IInv, GenerationInv, IntentInv, AuthorityPinsGeneration, EarlyInv,
      ExecutorInv, ExitInv, LockInv, FileInv, ProgressInv, PhotoInv, SealInv,
      Running, Claiming, Preparing, Publishing

LEMMA StepInductive ==
  ASSUME TrustedOperator
  PROVE  IInv /\ [Next]_vars => IInv'
BY TypeStep, TokenStep, GenerationStep, IntentStep, EarlyStep, ExecutorStep,
   ExitStep, LockStep, FileStep, ProgressStep, PhotoStep, SealStep
   DEF IInv, TypeInv

(* With a trusted operator every reachable state satisfies the inductive     *)
(* invariant.                                                                *)
THEOREM Inductive == TrustedOperator => (Spec => []IInv)
<1> SUFFICES ASSUME TrustedOperator PROVE Spec => []IInv
  OBVIOUS
<1> QED
  BY InitInductive, StepInductive, PTL DEF Spec

-----------------------------------------------------------------------------
(* While an intent is authorized no reclaim, review or settlement of the     *)
(* operation can slip past it.                                               *)
THEOREM IntentPinsItsGeneration ==
  TrustedOperator => (Spec => []AuthorityPinsGeneration)
<1>1. IInv => AuthorityPinsGeneration
  BY DEF IInv, IntentInv
<1> QED
  BY <1>1, Inductive, PTL

(* Two executors never act at once: whoever copies, links or commits holds   *)
(* the current epoch and runs in a living process.                           *)
THEOREM SingleExecutor == TrustedOperator => (Spec => []OneLiveExecutor)
<1>1. IInv => OneLiveExecutor
  BY DEF IInv, ExecutorInv, OneLiveExecutor, Running
<1> QED
  BY <1>1, Inductive, PTL

(* A committed operation has one photo row, and its files are the sealed     *)
(* bytes in recorded, anchored copies.                                       *)
THEOREM CommitIsConsistent ==
  TrustedOperator => (Spec => []CommittedIsPublished)
<1>1. IInv => CommittedIsPublished
  BY DEF IInv, IntentInv, PhotoInv, FileInv, CommittedIsPublished
<1> QED
  BY <1>1, Inductive, PTL

(* A crash never leaves a public name that the ledger does not explain.      *)
THEOREM NamesAreRecorded == TrustedOperator => (Spec => []RecordedBeforeNamed)
<1>1. IInv => RecordedBeforeNamed
  BY DEF IInv, FileInv, RecordedBeforeNamed
<1> QED
  BY <1>1, Inductive, PTL

(* Retries, crashes and hand-overs alone never send an upload to review: only *)
(* a rejected or damaged file of its generation, a foreign public file, or a *)
(* legacy seal that came to a confined executor do.                          *)
THEOREM ReviewIsJustified == TrustedOperator => (Spec => []ReviewNeedsEvidence)
<1>1. IInv => ReviewNeedsEvidence
  BY DEF IInv, SealInv, Damaged, ReviewNeedsEvidence
<1> QED
  BY <1>1, Inductive, PTL

(* The generation history never shows two live generations.                  *)
THEOREM HistoryIsLinear == TrustedOperator => (Spec => []OneLiveGeneration)
<1>1. ASSUME GenerationInv, NEW e \in Exec
      PROVE  gens[e].state \in {"active", "committed"} <=>
               (op.owner = e /\ gens[e].no = op.gen /\ op.state /= "absent")
  <2>1. CASE op.state = "absent"
    BY <1>1, <2>1 DEF GenerationInv
  <2>2. CASE op.state /= "absent" /\ op.owner = e
    BY <1>1, <2>2 DEF GenerationInv
  <2>3. CASE op.state /= "absent" /\ op.owner /= e
    BY <1>1, <2>3 DEF GenerationInv
  <2> QED
    BY <2>1, <2>2, <2>3
<1>2. IInv => OneLiveGeneration
  BY <1>1 DEF IInv, OneLiveGeneration
<1> QED
  BY <1>2, Inductive, PTL

-----------------------------------------------------------------------------
(* Authority changes hands only when nothing of its loser still runs, and    *)
(* never while a commit is in flight.                                        *)
LEMMA TransferStep ==
  ASSUME IInv, [Next]_vars, intent.state = "authorized",
         intent'.token /= intent.token
  PROVE  /\ pc[intent.token] \in Stopped
         /\ intent'.epoch = intent.epoch + 1
         /\ rowLock = None
<1> USE DEF dbVars, fileVars, execVars
<1>inv. TypeOK /\ TokenInv /\ EarlyInv /\ ExecutorInv /\ ExitInv
  BY DEF IInv, TypeInv
<1>1. PICK e \in Exec : Transfer(e)
  <2>1. ASSUME NEW e \in Exec, ReviewPublication(e) \/ CommitDone(e)
        PROVE  FALSE
    BY <1>inv, <2>1 DEF ReviewPublication, CommitDone, TypeOK, Intent
  <2>2. ASSUME NEW e \in Exec, AcquireIntent(e) PROVE FALSE
    BY <2>2 DEF AcquireIntent, MayAuthorize
  <2> QED
    BY <2>1, <2>2
    DEF Next, Step, Claim, Work, Resume, PublishStep, Finish, Environment,
        RefuseLegacy, RefuseStorage, Start, Create, Reclaim, FindBusy,
        FindTerminal, Prepare, RejectInput,
        Seal, StayBlocked, FindSettled, FindCanonical, CopySealed, RecordCopy,
        Link, Resolve, RequestCommit, CommitAborted, ExpireLease, Fail,
        DamageSource, Crash, Attest, ForeignFile, vars
<1>2. intent.token \in Exec /\ pc[intent.token] \notin Publishing
  BY <1>inv, <1>1
  DEF Transfer, TokenInv, ExecutorInv, ExitInv, MayTransfer, ProvenEnded,
      RecordsOf, Running
<1>3. pc[intent.token] \notin {"idle"} \union Claiming \union Preparing
  BY <1>inv, <1>2 DEF EarlyInv
<1>4. pc[intent.token] \in Stopped
  BY <1>inv, <1>2, <1>3 DEF TypeOK, Phase, Running
<1>5. intent'.epoch = intent.epoch + 1 /\ rowLock = None
  BY <1>inv, <1>1 DEF Transfer, TypeOK, Intent
<1> QED
  BY <1>4, <1>5

THEOREM HandOverIsSafe == TrustedOperator => (Spec => TransferAfterExit)
<1>1. IInv /\ [Next]_vars =>
        [intent.state = "authorized" /\ intent'.token /= intent.token =>
           /\ pc[intent.token] \in Stopped
           /\ intent'.epoch = intent.epoch + 1
           /\ rowLock = None]_vars
  BY TransferStep
<1> QED
  BY <1>1, Inductive, PTL DEF Spec, TransferAfterExit
-----------------------------------------------------------------------------
(***************************************************************************)
(* The protocol implements PublishOnce: each of its steps is a step of the *)
(* promise or leaves everything the promise speaks of as it is.            *)
(***************************************************************************)
Files == [a \in Art |-> NameKind(a)]
Committers == {r.by : r \in photos}

(* Names keep their kind while the names, the copies behind them and the   *)
(* seal stay.                                                              *)
LEMMA FilesStay ==
  ASSUME TypeOK, canonical' = canonical,
         \A a \in Art : canonical[a] \in Exec =>
           /\ bytes'[canonical[a]][a] = bytes[canonical[a]][a]
           /\ op'.seal = op.seal
  PROVE  Files' = Files
<1>1. \A a \in Art : NameKind(a)' = NameKind(a)
  BY DEF NameKind, TypeOK, Owner
<1>. QED
  BY <1>1 DEF Files

(* Before the intent no public name is the protocol's.                     *)
LEMMA NothingNamedEarly ==
  ASSUME IInv, Open \/ op.state = "absent", intent.state /= "authorized"
  PROVE  intent.state = "absent" /\ \A a \in Art : canonical[a] \notin Exec
<1>1. intent.state = "absent"
  BY ColumnTypes DEF IInv, TypeInv, GenerationInv, IntentInv, Open, IntentStates
<1>. QED
  BY <1>1 DEF IInv, FileInv

(* The promise is idle while progress, holder, names and photos stay.      *)
LEMMA Idles ==
  ASSUME Progress' = Progress, intent'.token = intent.token, Files' = Files,
         Committers' = Committers
  PROVE  Abstract!ANext
<1>1. Handled' \subseteq Exec
  BY DEF Handled
<1>. QED
  BY <1>1 DEF Abstract!ANext, Abstract!Others, Files, Committers

(* Steps that touch neither row, intent, photo nor public name.            *)
LEMMA IdleStep ==
  ASSUME IInv,
         \/ \E e \in Exec :
              \/ RefuseLegacy(e) \/ RefuseStorage(e)
              \/ Start(e) \/ FindBusy(e) \/ FindTerminal(e) \/ Prepare(e)
              \/ StayBlocked(e) \/ FindSettled(e) \/ FindCanonical(e)
              \/ CopySealed(e) \/ RecordCopy(e) \/ Resolve(e)
              \/ RequestCommit(e) \/ CommitAborted(e) \/ Fail(e)
              \/ DamageSource(e)
         \/ ExpireLease \/ (\E p \in Proc : Crash(p)) \/ (\E h \in Host : Attest(h))
  PROVE  Abstract!ANext
<1>. USE DEF dbVars, fileVars, execVars
<1>inv. TypeOK
  BY DEF IInv, TypeInv
<1>1. /\ op'.state = op.state /\ op'.seal = op.seal
      /\ UNCHANGED <<intent, photos, canonical>>
      /\ bytes' = bytes \/ \E e \in Exec : CopySealed(e)
  BY <1>inv DEF TypeOK, Operation, RefuseLegacy, RefuseStorage,
     Start, FindBusy, FindTerminal, Prepare,
     StayBlocked, FindSettled, FindCanonical, CopySealed, RecordCopy, Resolve,
     RequestCommit, CommitAborted, Fail, DamageSource, ExpireLease, Crash, Attest
<1>2. \A a \in Art : canonical[a] \in Exec =>
        bytes'[canonical[a]][a] = bytes[canonical[a]][a]
  BY <1>inv, <1>1, ConstantsAssumption DEF TypeOK, CopySealed
<1>3. Files' = Files
  BY <1>inv, <1>1, <1>2, FilesStay
<1>4. Progress' = Progress /\ Committers' = Committers
  BY <1>1 DEF Progress, Open, Committers
<1>. QED
  BY <1>1, <1>3, <1>4, Idles

(* Claims open the operation; preparation and seal stay behind it.         *)
LEMMA ClaimStep ==
  ASSUME IInv, NEW e \in Exec, Create(e) \/ Reclaim(e) \/ Seal(e)
  PROVE  Abstract!ANext
<1>. USE DEF dbVars, fileVars, execVars
<1>inv. TypeOK
  BY DEF IInv, TypeInv
<1>1. CASE Create(e)
  <2>1. intent.state = "absent" /\ \A a \in Art : canonical[a] \notin Exec
    BY <1>1, NothingNamedEarly DEF Create, IInv, GenerationInv
  <2>2. Files' = Files
    BY <1>inv, <1>1, <2>1, FilesStay DEF Create
  <2>3. Progress = "none" /\ Progress' = "open"
    BY <1>1, <2>1 DEF Create, Open, Progress
  <2>4. UNCHANGED <<intent.token, Committers>> /\ Handled' \subseteq Exec
    BY <1>1 DEF Create, Committers, Handled
  <2>. QED
    BY <2>2, <2>3, <2>4 DEF Abstract!ANext, Abstract!Open, Files, Committers
<1>2. CASE Reclaim(e)
  <2>1. intent.state = "absent" /\ \A a \in Art : canonical[a] \notin Exec
    BY <1>2, NothingNamedEarly DEF Reclaim, MayReclaim
  <2>2. Files' = Files
    BY <1>inv, <1>2, <2>1, FilesStay DEF Reclaim
  <2>3. Progress' = Progress /\ Committers' = Committers
    BY <1>2, <2>1 DEF Reclaim, MayReclaim, Open, Progress, Committers
  <2>. QED
    BY <1>2, <2>2, <2>3, Idles DEF Reclaim
<1>3. CASE Seal(e) /\ op' /= op
  <2>0. op.state = "preparing" /\ op' = [op EXCEPT !.state = "sealed", !.seal = e]
    BY <1>3 DEF Seal
  <2>1. intent.state = "absent" /\ \A a \in Art : canonical[a] \notin Exec
    BY <2>0, NothingNamedEarly DEF Open, IInv, IntentInv, AuthorityPinsGeneration
  <2>2. Files' = Files
    BY <1>inv, <1>3, <2>1, FilesStay DEF Seal
  <2>3. Progress' = Progress /\ Committers' = Committers
    BY <1>inv, <1>3, <2>0, <2>1 DEF Seal, Open, Progress, Committers, TypeOK, Operation
  <2>. QED
    BY <1>3, <2>2, <2>3, Idles DEF Seal
<1>4. CASE Seal(e) /\ op' = op
  <2>1. Files' = Files
    BY <1>inv, <1>4, FilesStay DEF Seal
  <2>2. Progress' = Progress /\ Committers' = Committers
    BY <1>4 DEF Seal, Open, Progress, Committers
  <2>. QED
    BY <1>4, <2>1, <2>2, Idles DEF Seal
<1>. QED
  BY <1>1, <1>2, <1>3, <1>4

(* T1 authorizes an execution that runs; a later authority replaces one    *)
(* that has ended.                                                         *)
LEMMA AuthorityStep ==
  ASSUME IInv, [Next]_vars, NEW e \in Exec, AcquireIntent(e) \/ Transfer(e)
  PROVE  Abstract!ANext
<1>. USE DEF dbVars, fileVars, execVars
<1>inv. TypeOK
  BY DEF IInv, TypeInv
<1>files. Files' = Files /\ Committers' = Committers /\ op' = op
  BY <1>inv, FilesStay DEF AcquireIntent, Transfer, Committers
<1>1. CASE AcquireIntent(e) /\ MayAuthorize(e)
  <2>1. Progress = "open" /\ Progress' = "authorized"
    BY <1>1 DEF AcquireIntent, MayAuthorize, Open, Progress
  <2>2. e \in Handled /\ Handled' = Handled
    BY <1>inv, <1>1 DEF AcquireIntent, Handled, TypeOK, Goto, Running, Preparing,
       Publishing
  <2>3. intent'.token = e
    BY <1>1 DEF AcquireIntent
  <2>. QED
    BY <1>files, <2>1, <2>2, <2>3
    DEF Abstract!ANext, Abstract!Authorize, Files, Committers
<1>2. CASE AcquireIntent(e) /\ ~MayAuthorize(e)
  <2>1. Progress' = Progress /\ intent' = intent
    BY <1>2 DEF AcquireIntent, Open, Progress
  <2>. QED
    BY <1>files, <2>1, Idles
<1>3. CASE Transfer(e)
  <2>1. op.state = "sealed" /\ intent.state = "authorized"
        /\ intent'.state = "authorized" /\ intent'.token = e
    BY <1>inv, <1>3 DEF Transfer, IInv, IntentInv, AuthorityPinsGeneration, TypeOK,
       Intent
  <2>2. Progress = "authorized" /\ Progress' = "authorized"
    BY <1>files, <2>1 DEF Open, Progress
  <2>3. e \in Handled /\ Handled' = Handled
    BY <1>inv, <1>3 DEF Transfer, Handled, TypeOK, Goto, Running, Claiming,
       Publishing
  <2>4. intent.token \notin Handled
    <3>1. intent.token /= e
      BY <1>3 DEF Transfer, IInv, EarlyInv, Claiming
    <3>2. pc[intent.token] \in Stopped
      BY <2>1, <3>1, TransferStep
    <3>. QED
      BY <3>2 DEF Handled, Stopped, Running, Claiming, Preparing, Publishing
  <2>. QED
    BY <1>files, <2>1, <2>2, <2>3, <2>4
    DEF Abstract!ANext, Abstract!Handover, Files, Committers
<1>. QED
  BY <1>1, <1>2, <1>3

(* A link gives a free name the sealed bytes of who holds the authority.   *)
LEMMA LinkStep ==
  ASSUME IInv, NEW e \in Exec, Link(e)
  PROVE  Abstract!ANext
<1>. USE DEF dbVars, fileVars, execVars
<1>inv. TypeOK /\ art[e] \in Art
  BY DEF IInv, TypeInv, TypeOK
<1>same. /\ Progress' = Progress /\ Committers' = Committers
         /\ UNCHANGED <<op, intent, bytes>>
  BY DEF Link, Open, Progress, Committers
<1>art. PICK b \in Art : b = art[e]
  BY <1>inv
<1>1. CASE NameFree(art[e])
  <2>1. /\ canonical[b] = None
        /\ canonical' = [canonical EXCEPT ![b] = e] /\ NextArtifact(e)
    BY <1>1, <1>art DEF Link, NameFree
  <2>2. /\ HoldsIntent(e) /\ bytes[e][b] = mine[e].seal
        /\ intent.seal = op.seal /\ op.state = "sealed"
    BY <1>art DEF Link, IInv, ExecutorInv, ProgressInv, IntentInv,
       AuthorityPinsGeneration, Publishing, HoldsIntent
  <2>3. Progress = "authorized" /\ intent.token = e
    BY <2>2 DEF Progress, Open, HoldsIntent
  <2>4. e \in Handled /\ Handled' = Handled
    BY <1>inv, <2>1 DEF Link, Handled, TypeOK, NextArtifact, Goto, Running,
       Publishing
  <2>5. NameKind(b) = "none"
    BY <2>1, ConstantsAssumption DEF NameKind
  <2>6. Files' = [Files EXCEPT ![b] = "sealed"]
    <3>1. NameKind(b)' = "sealed"
      <4>1. canonical'[b] = e /\ e /= None /\ e /= Foreign
        BY <1>inv, <2>1, ConstantsAssumption DEF TypeOK
      <4>2. bytes'[e][b] = op'.seal
        BY <1>same, <2>2 DEF HoldsIntent
      <4>. QED
        BY <4>1, <4>2 DEF NameKind
    <3>2. \A a \in Art \ {b} : NameKind(a)' = NameKind(a)
      BY <1>inv, <1>same, <2>1 DEF NameKind, TypeOK
    <3>. QED
      BY <1>inv, <3>1, <3>2 DEF Files
  <2>. QED
    BY <1>inv, <1>same, <2>3, <2>4, <2>5, <2>6
    DEF Abstract!ANext, Abstract!Publish, Files, Committers
<1>2. CASE ~NameFree(art[e])
  <2>1. canonical' = canonical
    BY <1>2 DEF Link
  <2>2. Files' = Files
    BY <1>inv, <1>same, <2>1, FilesStay
  <2>. QED
    BY <1>same, <2>2, Idles
<1>. QED
  BY <1>1, <1>2

(* Reviews end an operation that is open or authorized.                    *)
LEMMA ReviewStep ==
  ASSUME IInv, NEW e \in Exec, RejectInput(e) \/ ReviewPublication(e)
  PROVE  Abstract!ANext
<1>. USE DEF dbVars, fileVars, execVars
<1>inv. TypeOK
  BY DEF IInv, TypeInv
<1>1. /\ UNCHANGED <<photos, canonical, bytes>>
      /\ intent'.token = intent.token /\ op'.seal = op.seal
      /\ \/ Open /\ op'.state = "review"
         \/ op' = op
  BY <1>inv DEF RejectInput, ReviewPublication, ReviewOperation, TypeOK, Operation,
     Intent
<1>2. Files' = Files /\ Committers' = Committers
  BY <1>inv, <1>1, FilesStay DEF Committers
<1>3. CASE Open /\ op'.state = "review"
  <2>1. Progress \in {"open", "authorized"} /\ Progress' = "review"
    BY <1>3 DEF Open, Progress
  <2>2. Handled' \subseteq Exec
    BY DEF Handled
  <2>. QED
    BY <1>1, <1>2, <2>1, <2>2
    DEF Abstract!ANext, Abstract!Review, Files, Committers
<1>4. CASE op' = op /\ intent' = intent
  BY <1>1, <1>2, <1>4, Idles DEF Open, Progress
<1>5. CASE op' = op /\ intent' /= intent
  <2>1. ReviewPublication(e) /\ HoldsIntent(e) /\ mine[e].owner = intent.owner
    BY <1>5 DEF RejectInput, ReviewPublication, IInv, ExecutorInv, Publishing
  <2>2. Open /\ op.gen = mine[e].gen /\ op.owner = mine[e].owner
    BY <2>1 DEF HoldsIntent, IInv, IntentInv, AuthorityPinsGeneration, Open
  <2>3. op'.state = "review"
    BY <1>inv, <2>1, <2>2 DEF ReviewPublication, ReviewOperation, TypeOK, Operation
  <2>. QED
    BY <1>5, <2>2, <2>3 DEF Open
<1>. QED
  BY <1>1, <1>3, <1>4, <1>5

(* T2 commits the photo of who holds the authority, every name sealed.     *)
LEMMA CommitStep ==
  ASSUME IInv, NEW e \in Exec, CommitDone(e)
  PROVE  Abstract!ANext
<1>. USE DEF dbVars, fileVars, execVars
<1>inv. TypeOK
  BY DEF IInv, TypeInv
<1>1. MayCommit(e) /\ \A a \in Art : canonical[a] \in Exec
  BY DEF CommitDone, IInv, LockInv
<1>2. Progress = "authorized" /\ Progress' = "committed" /\ intent.token = e
      /\ intent'.token = e
  BY <1>inv, <1>1 DEF MayCommit, HoldsIntent, Open, Progress, CommitDone, TypeOK,
     Operation, Intent
<1>3. \A a \in Art : Files[a] = "sealed"
  <2>1. op.seal = intent.seal
    BY <1>1 DEF MayCommit, HoldsIntent
  <2>2. \A a \in Art : bytes[canonical[a]][a] = op.seal
    BY <1>1, <2>1 DEF IInv, FileInv
  <2>. QED
    BY <1>1, <2>2, ConstantsAssumption DEF Files, NameKind
<1>4. Files' = Files
  <2>. op'.seal = op.seal
    BY <1>inv DEF CommitDone, TypeOK, Operation
  <2>. QED
    BY <1>inv, FilesStay DEF CommitDone
<1>5. Committers' = Committers \union {e}
  <2>1. PICK row : photos' = photos \union {row} /\ row.by = e
    <3>. DEFINE committed == [by |-> e, gen |-> mine[e].gen, seal |-> mine[e].seal]
    <3>1. photos' = photos \union {committed} /\ committed.by = e
      BY DEF CommitDone
    <3>. QED
      BY <3>1
  <2>2. \A x : x \in Committers' <=> x \in Committers \/ x = e
    BY <2>1 DEF Committers
  <2>. QED
    BY <2>2
<1>6. Handled' \subseteq Exec
  BY DEF Handled
<1>. QED
  BY <1>2, <1>3, <1>4, <1>5, <1>6
  DEF Abstract!ANext, Abstract!Commit, Files, Committers

LEMMA ForeignStep ==
  ASSUME IInv, NEW a \in Art, ForeignFile(a)
  PROVE  Abstract!ANext
<1>. USE DEF dbVars, fileVars, execVars
<1>inv. TypeOK
  BY DEF IInv, TypeInv
<1>1. Progress' = Progress /\ Committers' = Committers /\ Handled' = Handled
      /\ intent' = intent /\ op' = op /\ bytes' = bytes
  BY DEF ForeignFile, Open, Progress, Committers, Handled
<1>2. NameKind(a) = "none" /\ NameKind(a)' = "foreign"
  BY <1>inv, ConstantsAssumption DEF ForeignFile, NameKind, TypeOK
<1>3. \A b \in Art \ {a} : NameKind(b)' = NameKind(b)
  BY <1>inv, <1>1 DEF ForeignFile, NameKind, TypeOK
<1>4. Files' = [Files EXCEPT ![a] = "foreign"]
  BY <1>2, <1>3 DEF Files
<1>. QED
  BY <1>1, <1>2, <1>4 DEF Abstract!ANext, Abstract!Obstruct, Files, Committers

(* photoPublicationIntents, photoCopyPublisher, photoOperationCommitFence: *)
(* whatever the requests, processes and machines, the photo is committed   *)
(* at most once, by the holder of the authority, over sealed names.        *)
THEOREM ProtocolPublishesOnce == TrustedOperator => (Spec => PublishesOnce)
<1>1. Init => Abstract!AInit
  <2>. SUFFICES ASSUME Init PROVE Abstract!AInit
    OBVIOUS
  <2>1. Progress = "none" /\ intent.token = None /\ Committers = {}
    BY DEF Init, Progress, Open, Committers
  <2>2. Handled = {}
    BY DEF Init, Handled, Running, Claiming, Preparing, Publishing
  <2>3. \A a \in Art : NameKind(a) = "none"
    BY ConstantsAssumption DEF Init, NameKind
  <2>. QED
    BY <2>1, <2>2, <2>3 DEF Abstract!AInit, Committers
<1>2. IInv /\ [Next]_vars => [Abstract!ANext]_(Abstract!avars)
  <2>. SUFFICES ASSUME IInv, Next PROVE Abstract!ANext
    <3>1. UNCHANGED vars => UNCHANGED Abstract!avars
      BY DEF vars, dbVars, fileVars, execVars, Abstract!avars, Open, Progress, Handled,
         NameKind
    <3>. QED
      BY <3>1
  <2>1. ASSUME NEW e \in Exec, Start(e) \/ Step(e) \/ Finish(e) PROVE Abstract!ANext
    BY <2>1, IdleStep, ClaimStep, AuthorityStep, LinkStep, ReviewStep, CommitStep
    DEF Step, Claim, Work, Resume, PublishStep, Finish
  <2>2. ASSUME Environment PROVE Abstract!ANext
    BY <2>2, IdleStep, ReviewStep, ForeignStep DEF Environment
  <2>. QED
    BY <2>1, <2>2 DEF Next
<1>. QED
  BY <1>1, <1>2, Inductive, PTL DEF Spec, PublishesOnce, Abstract!ASpec
=============================================================================
