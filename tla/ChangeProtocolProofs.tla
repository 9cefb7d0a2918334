------------------------ MODULE ChangeProtocolProofs ------------------------
(***************************************************************************)
(* Proofs about ChangeProtocol, for every choice of its constants that     *)
(* satisfies ConstantsAssumption: any number of invocations, readers,      *)
(* files, tables and operations, all of which may fail or be damaged.      *)
(*                                                                         *)
(* The inductive invariant is TypeOK /\ ProtocolInvariant.  Each conjunct  *)
(* has a lemma saying that a step preserves it, and the two temporal       *)
(* theorems combine them.                                                  *)
(***************************************************************************)
EXTENDS ChangeProtocol, FiniteSetTheorems, TLAPS

USE ConstantsAssumption

-----------------------------------------------------------------------------
(* Most steps move an invocation or the lock and leave the disk and the
   catalog, as far as the invariant sees them, alone. *)
diskVars ==
    <<place, plan, manifest, redo, intact, target, revision, applied, cover, total>>

LEMMA DiskSteps ==
    ASSUME [Next]_vars
    PROVE  \/ UNCHANGED diskVars
           \/ \E i \in Invocations :
                \/ \E f \in Files, start \in Starts : BeginPublish(i, f, start)
                \/ WriteRedo(i) \/ WriteManifest(i) \/ MoveToPending(i)
                \/ ReplaceTarget(i) \/ MarkReplaced(i) \/ CommitCatalog(i)
                \/ MarkApplied(i) \/ ReleaseRedo(i) \/ Archive(i) \/ PublishFails(i)
                \/ \E op \in Ops : AbortPreparation(i, op)
                \/ \E t \in Tables, start \in Starts : CatalogRows(i, t, start)
           \/ \E op \in Ops : Damage(op) \/ Repair(op)
<1> USE DEF lockVars, stateVars, catalogVars, memoryVars, diskVars
<1>1. ASSUME NEW i \in Invocations,
            \/ AcquireWrite(i)
            \/ EndStage(i)
            \/ FinishRun(i)
            \/ RecoverAgain(i)
            \/ Validate(i)
            \/ PublishDone(i)
     PROVE  UNCHANGED diskVars
  BY <1>1 DEF AcquireWrite, EndStage, FinishRun, RecoverAgain, Validate, PublishDone
<1>2. ASSUME NEW i \in Invocations,
            \/ ReconcileRun(i)
            \/ RecoveryDone(i)
            \/ \E op \in Ops : TakePending(i, op)
     PROVE  UNCHANGED diskVars
  BY <1>2 DEF ReconcileRun, RecoveryDone, TakePending
<1>3. ASSUME NEW i \in Invocations,
            \/ RecoveryFails(i)
            \/ JobFails(i)
            \/ Crash(i)
     PROVE  UNCHANGED diskVars
  BY <1>3 DEF RecoveryFails, JobFails, Crash
<1>4. ASSUME NEW r \in Readers,
            \/ EnterRead(r)
            \/ Read(r)
            \/ ExitRead(r)
     PROVE  UNCHANGED diskVars
  BY <1>4 DEF EnterRead, Read, ExitRead
<1>5. CASE UNCHANGED vars
  BY <1>5 DEF vars
<1> QED
  BY <1>1, <1>2, <1>3, <1>4, <1>5 DEF Next, Prepare, Apply, Recover, Fail

(* Types: CommitCatalog needs PhaseInvariant, that its operation is a planned one. *)
LEMMA TypeStep == TypeOK /\ ProtocolInvariant /\ [Next]_vars => TypeOK'
<1> SUFFICES ASSUME TypeOK, ProtocolInvariant, [Next]_vars
             PROVE  TypeOK'
  OBVIOUS
<1> USE DEF TypeOK, lockVars, stateVars, catalogVars, memoryVars
<1> USE DEF Goto, Phases, Locked, PreparePhases, ApplyPhases
<1> USE DEF Places, ManifestStates, RunStates, Outcomes
<1>1. ASSUME NEW i \in Invocations, AcquireWrite(i) PROVE TypeOK'
  BY <1>1 DEF AcquireWrite
<1>2. ASSUME NEW i \in Invocations, EndStage(i) PROVE TypeOK'
  BY <1>2 DEF EndStage
<1>3. ASSUME NEW i \in Invocations, FinishRun(i) PROVE TypeOK'
  BY <1>3 DEF FinishRun
<1>4. ASSUME NEW i \in Invocations, RecoverAgain(i) PROVE TypeOK'
  BY <1>4 DEF RecoverAgain
<1>5. ASSUME NEW i \in Invocations, NEW f \in Files, NEW start \in Starts,
            BeginPublish(i, f, start)
     PROVE  TypeOK'
  BY <1>5 DEF BeginPublish, NoteRun, Plans, Objects
<1>6. ASSUME NEW i \in Invocations, WriteRedo(i) PROVE TypeOK'
  BY <1>6 DEF WriteRedo
<1>7. ASSUME NEW i \in Invocations, WriteManifest(i) PROVE TypeOK'
  BY <1>7 DEF WriteManifest
<1>8. ASSUME NEW i \in Invocations, MoveToPending(i) PROVE TypeOK'
  BY <1>8 DEF MoveToPending
<1>9. ASSUME NEW i \in Invocations, Validate(i) PROVE TypeOK'
  BY <1>9 DEF Validate, NoteRun
<1>10. ASSUME NEW i \in Invocations, ReplaceTarget(i) PROVE TypeOK'
  BY <1>10 DEF ReplaceTarget
<1>11. ASSUME NEW i \in Invocations, MarkReplaced(i) PROVE TypeOK'
  BY <1>11 DEF MarkReplaced
<1>12. ASSUME NEW i \in Invocations, CommitCatalog(i) PROVE TypeOK'
  BY <1>12
     DEF CommitCatalog, Record, StaleFrom, Plans, ProtocolInvariant, PhaseInvariant, PlanInvariant
<1>13. ASSUME NEW i \in Invocations, MarkApplied(i) PROVE TypeOK'
  BY <1>13 DEF MarkApplied
<1>14. ASSUME NEW i \in Invocations, ReleaseRedo(i) PROVE TypeOK'
  BY <1>14 DEF ReleaseRedo
<1>15. ASSUME NEW i \in Invocations, Archive(i) PROVE TypeOK'
  BY <1>15 DEF Archive
<1>16. ASSUME NEW i \in Invocations, PublishDone(i) PROVE TypeOK'
  BY <1>16 DEF PublishDone
<1>17. ASSUME NEW i \in Invocations, NEW op \in Ops,
            AbortPreparation(i, op)
     PROVE  TypeOK'
  BY <1>17 DEF AbortPreparation
<1>18. ASSUME NEW i \in Invocations, NEW op \in Ops,
            TakePending(i, op)
     PROVE  TypeOK'
  BY <1>18 DEF TakePending
<1>19. ASSUME NEW i \in Invocations, ReconcileRun(i) PROVE TypeOK'
  BY <1>19 DEF ReconcileRun
<1>20. ASSUME NEW i \in Invocations, RecoveryDone(i) PROVE TypeOK'
  BY <1>20 DEF RecoveryDone
<1>21. ASSUME NEW i \in Invocations, PublishFails(i) PROVE TypeOK'
  BY <1>21 DEF PublishFails, Caught, Raised
<1>22. ASSUME NEW i \in Invocations, RecoveryFails(i) PROVE TypeOK'
  BY <1>22 DEF RecoveryFails, Caught, Raised, NoteRun
<1>23. ASSUME NEW i \in Invocations, JobFails(i) PROVE TypeOK'
  BY <1>23 DEF JobFails, Caught, Raised, NoteRun
<1>24. ASSUME NEW i \in Invocations, Crash(i) PROVE TypeOK'
  BY <1>24 DEF Crash
<1>25. ASSUME NEW i \in Invocations, NEW t \in Tables, NEW start \in Starts,
            CatalogRows(i, t, start)
     PROVE  TypeOK'
  BY <1>25
     DEF CatalogRows, Record, Caught, Raised, StaleFrom, NoteRun, Plans, Objects
<1>26. ASSUME NEW r \in Readers, EnterRead(r) PROVE TypeOK'
  BY <1>26 DEF EnterRead
<1>27. ASSUME NEW r \in Readers, Read(r) PROVE TypeOK'
  BY <1>27 DEF Read, Views
<1>28. ASSUME NEW r \in Readers, ExitRead(r) PROVE TypeOK'
  BY <1>28 DEF ExitRead
<1>29. ASSUME NEW op \in Ops, Damage(op) PROVE TypeOK'
  BY <1>29 DEF Damage
<1>30. ASSUME NEW op \in Ops, Repair(op) PROVE TypeOK'
  BY <1>30 DEF Repair
<1>31. CASE UNCHANGED vars
  BY <1>31 DEF vars
<1> QED
  BY <1>1, <1>2, <1>3, <1>4, <1>5, <1>6, <1>7, <1>8, <1>9, <1>10, <1>11, <1>12, <1>13, <1>14,
     <1>15, <1>16, <1>17, <1>18, <1>19, <1>20, <1>21, <1>22, <1>23, <1>24, <1>25, <1>26, <1>27, <1>28, <1>29, <1>30, <1>31
     DEF Next, Prepare, Apply, Recover, Fail

(* The lock: a phase is locked exactly while its invocation holds the flock. *)
LEMMA LockStep == TypeOK /\ ProtocolInvariant /\ [Next]_vars => LockInvariant'
<1> SUFFICES ASSUME TypeOK, ProtocolInvariant, [Next]_vars
             PROVE  LockInvariant'
  OBVIOUS
<1> USE DEF TypeOK, lockVars, stateVars, catalogVars, memoryVars
<1> USE DEF ProtocolInvariant, LockInvariant
<1> USE DEF Goto, Locked, PreparePhases, ApplyPhases, Pending
<1>1. ASSUME NEW i \in Invocations, AcquireWrite(i) PROVE LockInvariant'
  BY <1>1 DEF AcquireWrite
<1>2. ASSUME NEW i \in Invocations, EndStage(i) PROVE LockInvariant'
  BY <1>2 DEF EndStage
<1>3. ASSUME NEW i \in Invocations, FinishRun(i) PROVE LockInvariant'
  BY <1>3 DEF FinishRun
<1>4. ASSUME NEW i \in Invocations, RecoverAgain(i) PROVE LockInvariant'
  BY <1>4 DEF RecoverAgain
<1>5. ASSUME NEW i \in Invocations, NEW f \in Files, NEW start \in Starts,
            BeginPublish(i, f, start)
     PROVE  LockInvariant'
  BY <1>5 DEF BeginPublish
<1>6. ASSUME NEW i \in Invocations, WriteRedo(i) PROVE LockInvariant'
  BY <1>6 DEF WriteRedo
<1>7. ASSUME NEW i \in Invocations, WriteManifest(i) PROVE LockInvariant'
  BY <1>7 DEF WriteManifest
<1>8. ASSUME NEW i \in Invocations, MoveToPending(i) PROVE LockInvariant'
  BY <1>8 DEF MoveToPending
<1>9. ASSUME NEW i \in Invocations, Validate(i) PROVE LockInvariant'
  BY <1>9 DEF Validate
<1>10. ASSUME NEW i \in Invocations, ReplaceTarget(i) PROVE LockInvariant'
  BY <1>10 DEF ReplaceTarget
<1>11. ASSUME NEW i \in Invocations, MarkReplaced(i) PROVE LockInvariant'
  BY <1>11 DEF MarkReplaced
<1>12. ASSUME NEW i \in Invocations, CommitCatalog(i) PROVE LockInvariant'
  BY <1>12 DEF CommitCatalog, Record
<1>13. ASSUME NEW i \in Invocations, MarkApplied(i) PROVE LockInvariant'
  BY <1>13 DEF MarkApplied
<1>14. ASSUME NEW i \in Invocations, ReleaseRedo(i) PROVE LockInvariant'
  BY <1>14 DEF ReleaseRedo
<1>15. ASSUME NEW i \in Invocations, Archive(i) PROVE LockInvariant'
  BY <1>15 DEF Archive
<1>16. ASSUME NEW i \in Invocations, PublishDone(i) PROVE LockInvariant'
  BY <1>16 DEF PublishDone
<1>17. ASSUME NEW i \in Invocations, NEW op \in Ops,
            AbortPreparation(i, op)
     PROVE  LockInvariant'
  BY <1>17 DEF AbortPreparation
<1>18. ASSUME NEW i \in Invocations, NEW op \in Ops,
            TakePending(i, op)
     PROVE  LockInvariant'
  BY <1>18 DEF TakePending
<1>19. ASSUME NEW i \in Invocations, ReconcileRun(i) PROVE LockInvariant'
  BY <1>19 DEF ReconcileRun
<1>20. ASSUME NEW i \in Invocations, RecoveryDone(i) PROVE LockInvariant'
  BY <1>20 DEF RecoveryDone
<1>21. ASSUME NEW i \in Invocations, PublishFails(i) PROVE LockInvariant'
  BY <1>21 DEF PublishFails, Caught, Raised
<1>22. ASSUME NEW i \in Invocations, RecoveryFails(i) PROVE LockInvariant'
  BY <1>22 DEF RecoveryFails, Caught, Raised
<1>23. ASSUME NEW i \in Invocations, JobFails(i) PROVE LockInvariant'
  BY <1>23 DEF JobFails, Caught, Raised
<1>24. ASSUME NEW i \in Invocations, Crash(i) PROVE LockInvariant'
  BY <1>24 DEF Crash
<1>25. ASSUME NEW i \in Invocations, NEW t \in Tables, NEW start \in Starts,
            CatalogRows(i, t, start)
     PROVE  LockInvariant'
  BY <1>25 DEF CatalogRows, Record, Caught, Raised
<1>26. ASSUME NEW r \in Readers, EnterRead(r) PROVE LockInvariant'
  BY <1>26 DEF EnterRead
<1>27. ASSUME NEW r \in Readers, Read(r) PROVE LockInvariant'
  BY <1>27 DEF Read
<1>28. ASSUME NEW r \in Readers, ExitRead(r) PROVE LockInvariant'
  BY <1>28 DEF ExitRead
<1>29. ASSUME NEW op \in Ops, Damage(op) PROVE LockInvariant'
  BY <1>29 DEF Damage
<1>30. ASSUME NEW op \in Ops, Repair(op) PROVE LockInvariant'
  BY <1>30 DEF Repair
<1>31. CASE UNCHANGED vars
  BY <1>31 DEF vars
<1> QED
  BY <1>1, <1>2, <1>3, <1>4, <1>5, <1>6, <1>7, <1>8, <1>9, <1>10, <1>11, <1>12, <1>13, <1>14,
     <1>15, <1>16, <1>17, <1>18, <1>19, <1>20, <1>21, <1>22, <1>23, <1>24, <1>25, <1>26, <1>27, <1>28, <1>29, <1>30, <1>31
     DEF Next, Prepare, Apply, Recover, Fail

(* The directories. *)
LEMMA PlanStep == TypeOK /\ ProtocolInvariant /\ [Next]_vars => PlanInvariant'
<1> SUFFICES ASSUME TypeOK, ProtocolInvariant, [Next]_vars
             PROVE  PlanInvariant'
  OBVIOUS
<1> USE DEF TypeOK, lockVars, stateVars, catalogVars, memoryVars
<1> USE DEF ProtocolInvariant, PlanInvariant, PhaseInvariant
<1> USE DEF Goto, PreparePhases, ApplyPhases, diskVars
<1>1. ASSUME NEW i \in Invocations, NEW f \in Files, NEW start \in Starts,
            BeginPublish(i, f, start)
     PROVE  PlanInvariant'
  BY <1>1 DEF BeginPublish, Plans, Objects
<1>2. ASSUME NEW i \in Invocations, WriteRedo(i) PROVE PlanInvariant'
  BY <1>2 DEF WriteRedo
<1>3. ASSUME NEW i \in Invocations, WriteManifest(i) PROVE PlanInvariant'
  BY <1>3 DEF WriteManifest
<1>4. ASSUME NEW i \in Invocations, MoveToPending(i) PROVE PlanInvariant'
  BY <1>4 DEF MoveToPending
<1>5. ASSUME NEW i \in Invocations, ReplaceTarget(i) PROVE PlanInvariant'
  BY <1>5 DEF ReplaceTarget
<1>6. ASSUME NEW i \in Invocations, MarkReplaced(i) PROVE PlanInvariant'
  BY <1>6 DEF MarkReplaced
<1>7. ASSUME NEW i \in Invocations, CommitCatalog(i) PROVE PlanInvariant'
  BY <1>7 DEF CommitCatalog, Record
<1>8. ASSUME NEW i \in Invocations, MarkApplied(i) PROVE PlanInvariant'
  BY <1>8 DEF MarkApplied
<1>9. ASSUME NEW i \in Invocations, ReleaseRedo(i) PROVE PlanInvariant'
  BY <1>9 DEF ReleaseRedo
<1>10. ASSUME NEW i \in Invocations, Archive(i) PROVE PlanInvariant'
  BY <1>10 DEF Archive
<1>11. ASSUME NEW i \in Invocations, NEW op \in Ops,
            AbortPreparation(i, op)
     PROVE  PlanInvariant'
  BY <1>11 DEF AbortPreparation
<1>12. ASSUME NEW i \in Invocations, PublishFails(i) PROVE PlanInvariant'
  BY <1>12 DEF PublishFails
<1>13. ASSUME NEW i \in Invocations, NEW t \in Tables, NEW start \in Starts,
            CatalogRows(i, t, start)
     PROVE  PlanInvariant'
  BY <1>13 DEF CatalogRows, Record, Plans, Objects, Caught, Raised
<1>14. ASSUME NEW op \in Ops, Damage(op) PROVE PlanInvariant'
  BY <1>14 DEF Damage
<1>15. ASSUME NEW op \in Ops, Repair(op) PROVE PlanInvariant'
  BY <1>15 DEF Repair
<1>16. CASE UNCHANGED diskVars
  BY <1>16
<1> QED
  BY DiskSteps, <1>1, <1>2, <1>3, <1>4, <1>5, <1>6, <1>7, <1>8, <1>9, <1>10, <1>11, <1>12, <1>13, <1>14, <1>15, <1>16

(* The phases: the holder of the lock is the only one in a locked phase, so a
   step of one invocation cannot disturb what another relies on. *)
LEMMA PhaseStep == TypeOK /\ ProtocolInvariant /\ [Next]_vars => PhaseInvariant'
<1> SUFFICES ASSUME TypeOK, ProtocolInvariant, [Next]_vars
             PROVE  PhaseInvariant'
  OBVIOUS
<1> USE DEF TypeOK, lockVars, stateVars, catalogVars, memoryVars
<1> USE DEF ProtocolInvariant, LockInvariant, PhaseInvariant, PlanInvariant
<1> USE DEF Goto, Locked, PreparePhases, ApplyPhases, Unclaimed
<1>1. ASSUME NEW i \in Invocations, AcquireWrite(i) PROVE PhaseInvariant'
  BY <1>1 DEF AcquireWrite
<1>2. ASSUME NEW i \in Invocations, EndStage(i) PROVE PhaseInvariant'
  BY <1>2 DEF EndStage
<1>3. ASSUME NEW i \in Invocations, FinishRun(i) PROVE PhaseInvariant'
  BY <1>3 DEF FinishRun
<1>4. ASSUME NEW i \in Invocations, RecoverAgain(i) PROVE PhaseInvariant'
  BY <1>4 DEF RecoverAgain
<1>5. ASSUME NEW i \in Invocations, NEW f \in Files, NEW start \in Starts,
            BeginPublish(i, f, start)
     PROVE  PhaseInvariant'
  BY <1>5 DEF BeginPublish
<1>6. ASSUME NEW i \in Invocations, WriteRedo(i) PROVE PhaseInvariant'
  BY <1>6 DEF WriteRedo
<1>7. ASSUME NEW i \in Invocations, WriteManifest(i) PROVE PhaseInvariant'
  BY <1>7 DEF WriteManifest
<1>8. ASSUME NEW i \in Invocations, MoveToPending(i) PROVE PhaseInvariant'
  BY <1>8 DEF MoveToPending
<1>9. ASSUME NEW i \in Invocations, Validate(i) PROVE PhaseInvariant'
  BY <1>9 DEF Validate, Acceptable
<1>10. ASSUME NEW i \in Invocations, ReplaceTarget(i) PROVE PhaseInvariant'
  BY <1>10 DEF ReplaceTarget
<1>11. ASSUME NEW i \in Invocations, MarkReplaced(i) PROVE PhaseInvariant'
  BY <1>11 DEF MarkReplaced
<1>12. ASSUME NEW i \in Invocations, CommitCatalog(i) PROVE PhaseInvariant'
  BY <1>12 DEF CommitCatalog, Record
<1>13. ASSUME NEW i \in Invocations, MarkApplied(i) PROVE PhaseInvariant'
  BY <1>13 DEF MarkApplied
<1>14. ASSUME NEW i \in Invocations, ReleaseRedo(i) PROVE PhaseInvariant'
  BY <1>14 DEF ReleaseRedo
<1>15. ASSUME NEW i \in Invocations, Archive(i) PROVE PhaseInvariant'
  BY <1>15 DEF Archive
<1>16. ASSUME NEW i \in Invocations, PublishDone(i) PROVE PhaseInvariant'
  BY <1>16 DEF PublishDone
<1>17. ASSUME NEW i \in Invocations, NEW op \in Ops,
            AbortPreparation(i, op)
     PROVE  PhaseInvariant'
  BY <1>17 DEF AbortPreparation
<1>18. ASSUME NEW i \in Invocations, NEW op \in Ops,
            TakePending(i, op)
     PROVE  PhaseInvariant'
  BY <1>18 DEF TakePending
<1>19. ASSUME NEW i \in Invocations, ReconcileRun(i) PROVE PhaseInvariant'
  BY <1>19 DEF ReconcileRun
<1>20. ASSUME NEW i \in Invocations, RecoveryDone(i) PROVE PhaseInvariant'
  BY <1>20 DEF RecoveryDone
<1>21. ASSUME NEW i \in Invocations, PublishFails(i) PROVE PhaseInvariant'
  BY <1>21 DEF PublishFails, Caught, Raised
<1>22. ASSUME NEW i \in Invocations, RecoveryFails(i) PROVE PhaseInvariant'
  BY <1>22 DEF RecoveryFails, Caught, Raised
<1>23. ASSUME NEW i \in Invocations, JobFails(i) PROVE PhaseInvariant'
  BY <1>23 DEF JobFails, Caught, Raised
<1>24. ASSUME NEW i \in Invocations, Crash(i) PROVE PhaseInvariant'
  BY <1>24 DEF Crash
<1>25. ASSUME NEW i \in Invocations, NEW t \in Tables, NEW start \in Starts,
            CatalogRows(i, t, start)
     PROVE  PhaseInvariant'
  BY <1>25 DEF CatalogRows, Record, Caught, Raised
<1>26. ASSUME NEW r \in Readers, EnterRead(r) PROVE PhaseInvariant'
  BY <1>26 DEF EnterRead
<1>27. ASSUME NEW r \in Readers, Read(r) PROVE PhaseInvariant'
  BY <1>27 DEF Read
<1>28. ASSUME NEW r \in Readers, ExitRead(r) PROVE PhaseInvariant'
  BY <1>28 DEF ExitRead
<1>29. ASSUME NEW op \in Ops, Damage(op) PROVE PhaseInvariant'
  BY <1>29 DEF Damage
<1>30. ASSUME NEW op \in Ops, Repair(op) PROVE PhaseInvariant'
  BY <1>30 DEF Repair
<1>31. CASE UNCHANGED vars
  BY <1>31 DEF vars
<1> QED
  BY <1>1, <1>2, <1>3, <1>4, <1>5, <1>6, <1>7, <1>8, <1>9, <1>10, <1>11, <1>12, <1>13, <1>14,
     <1>15, <1>16, <1>17, <1>18, <1>19, <1>20, <1>21, <1>22, <1>23, <1>24, <1>25, <1>26, <1>27, <1>28, <1>29, <1>30, <1>31
     DEF Next, Prepare, Apply, Recover, Fail

(* Pending operations: a commit moves the revision of its own object only, and
   no other pending operation is on that object. *)
LEMMA PendingStep == TypeOK /\ ProtocolInvariant /\ [Next]_vars => PendingInvariant'
<1> SUFFICES ASSUME TypeOK, ProtocolInvariant, [Next]_vars
             PROVE  PendingInvariant'
  OBVIOUS
<1> USE DEF TypeOK, lockVars, stateVars, catalogVars, memoryVars
<1> USE DEF ProtocolInvariant, PlanInvariant, PhaseInvariant, PendingInvariant
<1> USE DEF Goto, PreparePhases, ApplyPhases, diskVars
<1>1. ASSUME NEW i \in Invocations, NEW f \in Files, NEW start \in Starts,
            BeginPublish(i, f, start)
     PROVE  PendingInvariant'
  BY <1>1 DEF BeginPublish
<1>2. ASSUME NEW i \in Invocations, WriteRedo(i) PROVE PendingInvariant'
  BY <1>2 DEF WriteRedo
<1>3. ASSUME NEW i \in Invocations, WriteManifest(i) PROVE PendingInvariant'
  BY <1>3 DEF WriteManifest
<1>4. ASSUME NEW i \in Invocations, MoveToPending(i) PROVE PendingInvariant'
  BY <1>4 DEF MoveToPending, Unclaimed
<1>5. ASSUME NEW i \in Invocations, ReplaceTarget(i) PROVE PendingInvariant'
  BY <1>5 DEF ReplaceTarget
<1>6. ASSUME NEW i \in Invocations, MarkReplaced(i) PROVE PendingInvariant'
  BY <1>6 DEF MarkReplaced
<1>7. ASSUME NEW i \in Invocations, CommitCatalog(i) PROVE PendingInvariant'
  <2> DEFINE op == cur[i]
             o == plan[op].object
  <2>1. /\ op \in Ops /\ place[op] = "pending" /\ op \notin applied
        /\ plan[op] \in Plans /\ o \in Objects
        /\ revision[o] = plan[op].input /\ target[o] = op
    BY <1>7 DEF CommitCatalog, Record, Objects
  <2>2. /\ revision' = [revision EXCEPT ![o] = plan[op].input + 1]
        /\ applied' = applied \cup {op}
        /\ UNCHANGED <<place, plan, redo, target>>
    BY <1>7 DEF CommitCatalog, Record
  <2>3. ASSUME NEW op2 \in Ops, place[op2] = "pending", op2 # op
        PROVE  plan[op2].object # o /\ plan[op2].object \in Objects
    BY <2>1, <2>3 DEF Objects
  <2>4. revision'[o] = plan[op].input + 1
    BY <2>1, <2>2
  <2>5. ASSUME NEW op2 \in Ops, place[op2] = "pending", op2 # op
        PROVE  revision'[plan[op2].object] = revision[plan[op2].object]
    BY <2>2, <2>3, <2>5
  <2> QED
    BY <2>1, <2>2, <2>4, <2>5
<1>8. ASSUME NEW i \in Invocations, MarkApplied(i) PROVE PendingInvariant'
  BY <1>8 DEF MarkApplied
<1>9. ASSUME NEW i \in Invocations, ReleaseRedo(i) PROVE PendingInvariant'
  BY <1>9 DEF ReleaseRedo
<1>10. ASSUME NEW i \in Invocations, Archive(i) PROVE PendingInvariant'
  BY <1>10 DEF Archive
<1>11. ASSUME NEW i \in Invocations, NEW op \in Ops,
            AbortPreparation(i, op)
     PROVE  PendingInvariant'
  BY <1>11 DEF AbortPreparation
<1>12. ASSUME NEW i \in Invocations, PublishFails(i) PROVE PendingInvariant'
  BY <1>12 DEF PublishFails
<1>13. ASSUME NEW i \in Invocations, NEW t \in Tables, NEW start \in Starts,
            CatalogRows(i, t, start)
     PROVE  PendingInvariant'
  BY <1>13 DEF CatalogRows, Record
<1>14. ASSUME NEW op \in Ops, Damage(op) PROVE PendingInvariant'
  BY <1>14 DEF Damage
<1>15. ASSUME NEW op \in Ops, Repair(op) PROVE PendingInvariant'
  BY <1>15 DEF Repair
<1>16. CASE UNCHANGED diskVars
  BY <1>16
<1> QED
  BY DiskSteps, <1>1, <1>2, <1>3, <1>4, <1>5, <1>6, <1>7, <1>8, <1>9, <1>10, <1>11, <1>12, <1>13, <1>14, <1>15, <1>16

(* Targets and coverage. *)
LEMMA TargetStep == TypeOK /\ ProtocolInvariant /\ [Next]_vars => TargetInvariant'
<1> SUFFICES ASSUME TypeOK, ProtocolInvariant, [Next]_vars
             PROVE  TargetInvariant'
  OBVIOUS
<1> USE DEF TypeOK, lockVars, stateVars, catalogVars, memoryVars
<1> USE DEF ProtocolInvariant, PlanInvariant, PhaseInvariant, TargetInvariant
<1> USE DEF Goto, PreparePhases, ApplyPhases, diskVars
<1>1. ASSUME NEW i \in Invocations, NEW f \in Files, NEW start \in Starts,
            BeginPublish(i, f, start)
     PROVE  TargetInvariant'
  BY <1>1 DEF BeginPublish
<1>2. ASSUME NEW i \in Invocations, WriteRedo(i) PROVE TargetInvariant'
  BY <1>2 DEF WriteRedo
<1>3. ASSUME NEW i \in Invocations, WriteManifest(i) PROVE TargetInvariant'
  BY <1>3 DEF WriteManifest
<1>4. ASSUME NEW i \in Invocations, MoveToPending(i) PROVE TargetInvariant'
  BY <1>4 DEF MoveToPending
<1>5. ASSUME NEW i \in Invocations, ReplaceTarget(i) PROVE TargetInvariant'
  BY <1>5 DEF ReplaceTarget
<1>6. ASSUME NEW i \in Invocations, MarkReplaced(i) PROVE TargetInvariant'
  BY <1>6 DEF MarkReplaced
<1>7. ASSUME NEW i \in Invocations, CommitCatalog(i) PROVE TargetInvariant'
  BY <1>7 DEF CommitCatalog, Record
<1>8. ASSUME NEW i \in Invocations, MarkApplied(i) PROVE TargetInvariant'
  BY <1>8 DEF MarkApplied
<1>9. ASSUME NEW i \in Invocations, ReleaseRedo(i) PROVE TargetInvariant'
  BY <1>9 DEF ReleaseRedo
<1>10. ASSUME NEW i \in Invocations, Archive(i) PROVE TargetInvariant'
  BY <1>10 DEF Archive
<1>11. ASSUME NEW i \in Invocations, NEW op \in Ops,
            AbortPreparation(i, op)
     PROVE  TargetInvariant'
  BY <1>11 DEF AbortPreparation
<1>12. ASSUME NEW i \in Invocations, PublishFails(i) PROVE TargetInvariant'
  BY <1>12 DEF PublishFails
<1>13. ASSUME NEW i \in Invocations, NEW t \in Tables, NEW start \in Starts,
            CatalogRows(i, t, start)
     PROVE  TargetInvariant'
  BY <1>13 DEF CatalogRows, Record
<1>14. ASSUME NEW op \in Ops, Damage(op) PROVE TargetInvariant'
  BY <1>14 DEF Damage
<1>15. ASSUME NEW op \in Ops, Repair(op) PROVE TargetInvariant'
  BY <1>15 DEF Repair
<1>16. CASE UNCHANGED diskVars
  BY <1>16
<1> QED
  BY DiskSteps, <1>1, <1>2, <1>3, <1>4, <1>5, <1>6, <1>7, <1>8, <1>9, <1>10, <1>11, <1>12, <1>13, <1>14, <1>15, <1>16

(* Readers: whoever changes a target or the catalog holds the lock alone, and a
   reader looks when nothing is pending, where targets and coverage agree. *)
LEMMA ReadersStep == TypeOK /\ ProtocolInvariant /\ [Next]_vars => ReadersSeeCommitted'
<1> SUFFICES ASSUME TypeOK, ProtocolInvariant, [Next]_vars
             PROVE  ReadersSeeCommitted'
  OBVIOUS
<1> USE DEF TypeOK, lockVars, stateVars, catalogVars, memoryVars
<1> USE DEF ProtocolInvariant, LockInvariant, ReadersSeeCommitted, RedoUntilCommitted
<1> USE DEF Goto, Locked, PreparePhases, ApplyPhases, Pending
<1>1. ASSUME NEW i \in Invocations, AcquireWrite(i) PROVE ReadersSeeCommitted'
  BY <1>1 DEF AcquireWrite
<1>2. ASSUME NEW i \in Invocations, EndStage(i) PROVE ReadersSeeCommitted'
  BY <1>2 DEF EndStage
<1>3. ASSUME NEW i \in Invocations, FinishRun(i) PROVE ReadersSeeCommitted'
  BY <1>3 DEF FinishRun
<1>4. ASSUME NEW i \in Invocations, RecoverAgain(i) PROVE ReadersSeeCommitted'
  BY <1>4 DEF RecoverAgain
<1>5. ASSUME NEW i \in Invocations, NEW f \in Files, NEW start \in Starts,
            BeginPublish(i, f, start)
     PROVE  ReadersSeeCommitted'
  BY <1>5 DEF BeginPublish
<1>6. ASSUME NEW i \in Invocations, WriteRedo(i) PROVE ReadersSeeCommitted'
  BY <1>6 DEF WriteRedo
<1>7. ASSUME NEW i \in Invocations, WriteManifest(i) PROVE ReadersSeeCommitted'
  BY <1>7 DEF WriteManifest
<1>8. ASSUME NEW i \in Invocations, MoveToPending(i) PROVE ReadersSeeCommitted'
  BY <1>8 DEF MoveToPending
<1>9. ASSUME NEW i \in Invocations, Validate(i) PROVE ReadersSeeCommitted'
  BY <1>9 DEF Validate
<1>10. ASSUME NEW i \in Invocations,
            ReplaceTarget(i)
     PROVE  ReadersSeeCommitted'
  BY <1>10 DEF ReplaceTarget
<1>11. ASSUME NEW i \in Invocations, MarkReplaced(i) PROVE ReadersSeeCommitted'
  BY <1>11 DEF MarkReplaced
<1>12. ASSUME NEW i \in Invocations,
            CommitCatalog(i)
     PROVE  ReadersSeeCommitted'
  BY <1>12 DEF CommitCatalog, Record
<1>13. ASSUME NEW i \in Invocations, MarkApplied(i) PROVE ReadersSeeCommitted'
  BY <1>13 DEF MarkApplied
<1>14. ASSUME NEW i \in Invocations, ReleaseRedo(i) PROVE ReadersSeeCommitted'
  BY <1>14 DEF ReleaseRedo
<1>15. ASSUME NEW i \in Invocations, Archive(i) PROVE ReadersSeeCommitted'
  BY <1>15 DEF Archive
<1>16. ASSUME NEW i \in Invocations, PublishDone(i) PROVE ReadersSeeCommitted'
  BY <1>16 DEF PublishDone
<1>17. ASSUME NEW i \in Invocations, NEW op \in Ops,
            AbortPreparation(i, op)
     PROVE  ReadersSeeCommitted'
  BY <1>17 DEF AbortPreparation
<1>18. ASSUME NEW i \in Invocations, NEW op \in Ops,
            TakePending(i, op)
     PROVE  ReadersSeeCommitted'
  BY <1>18 DEF TakePending
<1>19. ASSUME NEW i \in Invocations, ReconcileRun(i) PROVE ReadersSeeCommitted'
  BY <1>19 DEF ReconcileRun
<1>20. ASSUME NEW i \in Invocations, RecoveryDone(i) PROVE ReadersSeeCommitted'
  BY <1>20 DEF RecoveryDone
<1>21. ASSUME NEW i \in Invocations, PublishFails(i) PROVE ReadersSeeCommitted'
  BY <1>21 DEF PublishFails, Caught, Raised
<1>22. ASSUME NEW i \in Invocations,
            RecoveryFails(i)
     PROVE  ReadersSeeCommitted'
  BY <1>22 DEF RecoveryFails, Caught, Raised
<1>23. ASSUME NEW i \in Invocations, JobFails(i) PROVE ReadersSeeCommitted'
  BY <1>23 DEF JobFails, Caught, Raised
<1>24. ASSUME NEW i \in Invocations, Crash(i) PROVE ReadersSeeCommitted'
  BY <1>24 DEF Crash
<1>25. ASSUME NEW i \in Invocations, NEW t \in Tables, NEW start \in Starts,
            CatalogRows(i, t, start)
     PROVE  ReadersSeeCommitted'
  BY <1>25 DEF CatalogRows, Record, Caught, Raised
<1>26. ASSUME NEW r \in Readers, EnterRead(r) PROVE ReadersSeeCommitted'
  BY <1>26 DEF EnterRead
<1>27. ASSUME NEW r \in Readers, Read(r) PROVE ReadersSeeCommitted'
  BY <1>27 DEF Read
<1>28. ASSUME NEW r \in Readers, ExitRead(r) PROVE ReadersSeeCommitted'
  BY <1>28 DEF ExitRead
<1>29. ASSUME NEW op \in Ops, Damage(op) PROVE ReadersSeeCommitted'
  BY <1>29 DEF Damage
<1>30. ASSUME NEW op \in Ops, Repair(op) PROVE ReadersSeeCommitted'
  BY <1>30 DEF Repair
<1>31. CASE UNCHANGED vars
  BY <1>31 DEF vars
<1> QED
  BY <1>1, <1>2, <1>3, <1>4, <1>5, <1>6, <1>7, <1>8, <1>9, <1>10, <1>11, <1>12, <1>13, <1>14,
     <1>15, <1>16, <1>17, <1>18, <1>19, <1>20, <1>21, <1>22, <1>23, <1>24, <1>25, <1>26, <1>27, <1>28, <1>29, <1>30, <1>31
     DEF Next, Prepare, Apply, Recover, Fail

(* The redo file. *)
LEMMA RedoStep == TypeOK /\ ProtocolInvariant /\ [Next]_vars => RedoUntilCommitted'
<1> SUFFICES ASSUME TypeOK, ProtocolInvariant, [Next]_vars
             PROVE  RedoUntilCommitted'
  OBVIOUS
<1> USE DEF TypeOK, lockVars, stateVars, catalogVars, memoryVars
<1> USE DEF ProtocolInvariant, PlanInvariant, PhaseInvariant, PendingInvariant,
            TargetInvariant, RedoUntilCommitted
<1> USE DEF Goto, PreparePhases, ApplyPhases, diskVars
<1>1. ASSUME NEW i \in Invocations, NEW f \in Files, NEW start \in Starts,
            BeginPublish(i, f, start)
     PROVE  RedoUntilCommitted'
  BY <1>1 DEF BeginPublish
<1>2. ASSUME NEW i \in Invocations, WriteRedo(i) PROVE RedoUntilCommitted'
  BY <1>2 DEF WriteRedo
<1>3. ASSUME NEW i \in Invocations, WriteManifest(i) PROVE RedoUntilCommitted'
  BY <1>3 DEF WriteManifest
<1>4. ASSUME NEW i \in Invocations, MoveToPending(i) PROVE RedoUntilCommitted'
  BY <1>4 DEF MoveToPending
<1>5. ASSUME NEW i \in Invocations, ReplaceTarget(i) PROVE RedoUntilCommitted'
  BY <1>5 DEF ReplaceTarget
<1>6. ASSUME NEW i \in Invocations, MarkReplaced(i) PROVE RedoUntilCommitted'
  BY <1>6 DEF MarkReplaced
<1>7. ASSUME NEW i \in Invocations, CommitCatalog(i) PROVE RedoUntilCommitted'
  BY <1>7 DEF CommitCatalog, Record
<1>8. ASSUME NEW i \in Invocations, MarkApplied(i) PROVE RedoUntilCommitted'
  BY <1>8 DEF MarkApplied
<1>9. ASSUME NEW i \in Invocations, ReleaseRedo(i) PROVE RedoUntilCommitted'
  BY <1>9 DEF ReleaseRedo
<1>10. ASSUME NEW i \in Invocations, Archive(i) PROVE RedoUntilCommitted'
  BY <1>10 DEF Archive
<1>11. ASSUME NEW i \in Invocations, NEW op \in Ops,
            AbortPreparation(i, op)
     PROVE  RedoUntilCommitted'
  BY <1>11 DEF AbortPreparation
<1>12. ASSUME NEW i \in Invocations, PublishFails(i) PROVE RedoUntilCommitted'
  BY <1>12 DEF PublishFails
<1>13. ASSUME NEW i \in Invocations, NEW t \in Tables, NEW start \in Starts,
            CatalogRows(i, t, start)
     PROVE  RedoUntilCommitted'
  BY <1>13 DEF CatalogRows, Record
<1>14. ASSUME NEW op \in Ops, Damage(op) PROVE RedoUntilCommitted'
  BY <1>14 DEF Damage
<1>15. ASSUME NEW op \in Ops, Repair(op) PROVE RedoUntilCommitted'
  BY <1>15 DEF Repair
<1>16. CASE UNCHANGED diskVars
  BY <1>16
<1> QED
  BY DiskSteps, <1>1, <1>2, <1>3, <1>4, <1>5, <1>6, <1>7, <1>8, <1>9, <1>10, <1>11, <1>12, <1>13, <1>14, <1>15, <1>16

(* The archive and the aborted preparations. *)
LEMMA PlaceStep == TypeOK /\ ProtocolInvariant /\ [Next]_vars => PlaceTellsTheTruth'
<1> SUFFICES ASSUME TypeOK, ProtocolInvariant, [Next]_vars
             PROVE  PlaceTellsTheTruth'
  OBVIOUS
<1> USE DEF TypeOK, lockVars, stateVars, catalogVars, memoryVars
<1> USE DEF ProtocolInvariant, PlanInvariant, PhaseInvariant, PendingInvariant,
            TargetInvariant, PlaceTellsTheTruth
<1> USE DEF Goto, PreparePhases, ApplyPhases, diskVars
<1>1. ASSUME NEW i \in Invocations, NEW f \in Files, NEW start \in Starts,
            BeginPublish(i, f, start)
     PROVE  PlaceTellsTheTruth'
  BY <1>1 DEF BeginPublish
<1>2. ASSUME NEW i \in Invocations, WriteRedo(i) PROVE PlaceTellsTheTruth'
  BY <1>2 DEF WriteRedo
<1>3. ASSUME NEW i \in Invocations, WriteManifest(i) PROVE PlaceTellsTheTruth'
  BY <1>3 DEF WriteManifest
<1>4. ASSUME NEW i \in Invocations, MoveToPending(i) PROVE PlaceTellsTheTruth'
  BY <1>4 DEF MoveToPending
<1>5. ASSUME NEW i \in Invocations, ReplaceTarget(i) PROVE PlaceTellsTheTruth'
  BY <1>5 DEF ReplaceTarget
<1>6. ASSUME NEW i \in Invocations, MarkReplaced(i) PROVE PlaceTellsTheTruth'
  BY <1>6 DEF MarkReplaced
<1>7. ASSUME NEW i \in Invocations, CommitCatalog(i) PROVE PlaceTellsTheTruth'
  BY <1>7 DEF CommitCatalog, Record
<1>8. ASSUME NEW i \in Invocations, MarkApplied(i) PROVE PlaceTellsTheTruth'
  BY <1>8 DEF MarkApplied
<1>9. ASSUME NEW i \in Invocations, ReleaseRedo(i) PROVE PlaceTellsTheTruth'
  BY <1>9 DEF ReleaseRedo
<1>10. ASSUME NEW i \in Invocations, Archive(i) PROVE PlaceTellsTheTruth'
  BY <1>10 DEF Archive
<1>11. ASSUME NEW i \in Invocations, NEW op \in Ops,
            AbortPreparation(i, op)
     PROVE  PlaceTellsTheTruth'
  BY <1>11 DEF AbortPreparation
<1>12. ASSUME NEW i \in Invocations, PublishFails(i) PROVE PlaceTellsTheTruth'
  BY <1>12 DEF PublishFails
<1>13. ASSUME NEW i \in Invocations, NEW t \in Tables, NEW start \in Starts,
            CatalogRows(i, t, start)
     PROVE  PlaceTellsTheTruth'
  BY <1>13 DEF CatalogRows, Record
<1>14. ASSUME NEW op \in Ops, Damage(op) PROVE PlaceTellsTheTruth'
  BY <1>14 DEF Damage
<1>15. ASSUME NEW op \in Ops, Repair(op) PROVE PlaceTellsTheTruth'
  BY <1>15 DEF Repair
<1>16. CASE UNCHANGED diskVars
  BY <1>16
<1> QED
  BY DiskSteps, <1>1, <1>2, <1>3, <1>4, <1>5, <1>6, <1>7, <1>8, <1>9, <1>10, <1>11, <1>12, <1>13, <1>14, <1>15, <1>16

-----------------------------------------------------------------------------
LEMMA InitInvariant == Init => TypeOK /\ ProtocolInvariant
<1> SUFFICES ASSUME Init PROVE TypeOK /\ ProtocolInvariant
  OBVIOUS
<1> USE DEF Init, PreparePhases, ApplyPhases, Locked
<1>1. TypeOK
  BY DEF TypeOK, Places, ManifestStates, RunStates, Outcomes, Phases
<1>2. LockInvariant /\ PlanInvariant /\ PhaseInvariant
  BY DEF LockInvariant, PlanInvariant, PhaseInvariant
<1>3. PendingInvariant /\ TargetInvariant
  BY DEF PendingInvariant, TargetInvariant
<1>4. ReadersSeeCommitted /\ RedoUntilCommitted /\ PlaceTellsTheTruth
  BY DEF ReadersSeeCommitted, RedoUntilCommitted, PlaceTellsTheTruth
<1> QED
  BY <1>1, <1>2, <1>3, <1>4 DEF ProtocolInvariant

LEMMA InvariantStep ==
    TypeOK /\ ProtocolInvariant /\ [Next]_vars => (TypeOK /\ ProtocolInvariant)'
  BY TypeStep, LockStep, PlanStep, PhaseStep, PendingStep, TargetStep,
     ReadersStep, RedoStep, PlaceStep
     DEF ProtocolInvariant

(* The inductive invariant of the commit protocol holds in every state: types,
   the flock, the phases, and what pending, archived and aborted directories,
   targets and coverage say about each other. *)
THEOREM InvariantHolds == Spec => [](TypeOK /\ ProtocolInvariant)
  BY InitInvariant, InvariantStep, PTL DEF Spec

(* Every variable keeps its type. *)
THEOREM TypeCorrect == Spec => []TypeOK
  BY InvariantHolds, PTL

(* Readers never see a target without its catalog record, or the reverse,
   whatever crashed before them. *)
THEOREM ReadersAreConsistent == Spec => []ReadersSeeCommitted
<1>1. TypeOK /\ ProtocolInvariant => ReadersSeeCommitted
  BY DEF ProtocolInvariant
<1> QED
  BY <1>1, InvariantHolds, PTL

(* A target that is ahead of the catalog can still be committed. *)
THEOREM RedoIsKept == Spec => []RedoUntilCommitted
<1>1. TypeOK /\ ProtocolInvariant => RedoUntilCommitted
  BY DEF ProtocolInvariant
<1> QED
  BY <1>1, InvariantHolds, PTL

(* Recovery of an undamaged preparation is never refused. *)
THEOREM RecoveryIsNeverRefused == Spec => []PendingRecoverable
<1>1. TypeOK /\ ProtocolInvariant => PendingRecoverable
  BY DEF ProtocolInvariant, PendingInvariant, PendingRecoverable, Acceptable
<1> QED
  BY <1>1, InvariantHolds, PTL

(* Aborted and archived directories mean what their place says. *)
THEOREM PlacesAreTruthful == Spec => []PlaceTellsTheTruth
<1>1. TypeOK /\ ProtocolInvariant => PlaceTellsTheTruth
  BY DEF ProtocolInvariant
<1> QED
  BY <1>1, InvariantHolds, PTL
-----------------------------------------------------------------------------
(* The history of the objects.  RevisionChain counts operations and relates each to
   its predecessor; the catalog remembers only the last one of a file. *)
HistoryInvariant ==
    /\ IsFiniteSet(applied)
    /\ RevisionChain
    /\ CountedOnce
    /\ \A f \in Files :
        IF revision[f] = 0 THEN cover[f] = NoOp
        ELSE /\ cover[f] \in applied
             /\ plan[cover[f]].object = f
             /\ plan[cover[f]].input = revision[f] - 1
    /\ \A op \in Ops : place[op] = "pending" /\ op \notin applied =>
        plan[op].base = cover[plan[op].object]

(* A part of a finite set, and the same with one more operation. *)
LEMMA OneMore ==
    ASSUME NEW All, IsFiniteSet(All), NEW Part \in SUBSET All, NEW op, op \notin Part
    PROVE  /\ Cardinality(Part) \in Nat
           /\ Cardinality(Part \cup {op}) = Cardinality(Part) + 1
<1>1. IsFiniteSet(Part)
  BY FS_Subset
<1> QED
  BY <1>1, FS_AddElement, FS_CardinalityType

(* _record() counts the operation to its object and its run. *)
LEMMA RecordCounts ==
    ASSUME TypeOK, IsFiniteSet(applied), RevisionChain, CountedOnce,
           NEW op \in Ops, op \notin applied, NEW p \in Plans, plan'[op] = p,
           \A x \in applied : plan'[x] = plan[x],
           Record(op, p)
    PROVE  /\ IsFiniteSet(applied')
           /\ \A o \in Objects :
                revision'[o] = Cardinality({x \in applied' : plan'[x].object = o})
           /\ CountedOnce'
<1>1. applied' = applied \cup {op}
  BY DEF Record
<1>2. IsFiniteSet(applied')
  BY <1>1, FS_AddElement
<1>3. ASSUME NEW o \in Objects
     PROVE  revision'[o] = Cardinality({x \in applied' : plan'[x].object = o})
  <2> DEFINE Old == {x \in applied : plan[x].object = o}
             New == {x \in applied' : plan'[x].object = o}
  <2>1. Old \subseteq applied /\ op \notin Old
    OBVIOUS
  <2>2. New = IF p.object = o THEN Old \cup {op} ELSE Old
    BY <1>1
  <2>3. /\ Cardinality(Old) \in Nat
        /\ Cardinality(Old \cup {op}) = Cardinality(Old) + 1
    <3> HIDE DEF Old
    <3> QED
      BY <2>1, OneMore
  <2>4. revision[o] = Cardinality(Old)
    BY DEF RevisionChain
  <2>5. revision'[o] = IF p.object = o THEN revision[o] + 1 ELSE revision[o]
    BY DEF Record, TypeOK, Plans
  <2> QED
    BY <2>1, <2>2, <2>3, <2>4, <2>5
<1>4. ASSUME NEW i \in Invocations
     PROVE  total'[i] = Cardinality({x \in applied' : plan'[x].run = i})
  <2> DEFINE Old == {x \in applied : plan[x].run = i}
             New == {x \in applied' : plan'[x].run = i}
  <2>1. Old \subseteq applied /\ op \notin Old
    OBVIOUS
  <2>2. New = IF p.run = i THEN Old \cup {op} ELSE Old
    BY <1>1
  <2>3. /\ Cardinality(Old) \in Nat
        /\ Cardinality(Old \cup {op}) = Cardinality(Old) + 1
    <3> HIDE DEF Old
    <3> QED
      BY <2>1, OneMore
  <2>4. total[i] = Cardinality(Old)
    BY DEF CountedOnce
  <2>5. total'[i] = IF p.run = i THEN total[i] + 1 ELSE total[i]
    BY DEF Record, TypeOK, Plans
  <2> QED
    BY <2>1, <2>2, <2>3, <2>4, <2>5
<1> QED
  BY <1>2, <1>3, <1>4 DEF CountedOnce

(* Without a record, the history stays as the plans of its operations do. *)
LEMMA HistoryIsKept ==
    ASSUME HistoryInvariant, UNCHANGED <<revision, applied, cover, total>>,
           \A x \in applied : plan'[x] = plan[x],
           \A x \in Ops : place'[x] = "pending" /\ x \notin applied =>
               plan'[x].base = cover[plan'[x].object]
    PROVE  HistoryInvariant'
<1>1. \A o : {x \in applied' : plan'[x].object = o} = {x \in applied : plan[x].object = o}
  OBVIOUS
<1>2. \A i : {x \in applied' : plan'[x].run = i} = {x \in applied : plan[x].run = i}
  OBVIOUS
<1>3. RevisionChain' /\ CountedOnce'
  BY <1>1, <1>2 DEF HistoryInvariant, RevisionChain, CountedOnce
<1> QED
  BY <1>3 DEF HistoryInvariant

(* The commit of a file: what was prepared from its last content is the next link. *)
LEMMA CommitExtendsHistory ==
    ASSUME TypeOK, ProtocolInvariant, HistoryInvariant,
           NEW i \in Invocations, CommitCatalog(i)
    PROVE  HistoryInvariant'
<1> DEFINE op == cur[i]
           f == plan[op].object
<1>1. /\ op \in Ops /\ op \notin applied /\ place[op] = "pending"
      /\ plan[op] \in Plans /\ f \in Files
  BY DEF ProtocolInvariant, PhaseInvariant, PlanInvariant, CommitCatalog, ApplyPhases
<1>2. /\ plan' = plan /\ place' = place /\ applied' = applied \cup {op}
      /\ cover' = [cover EXCEPT ![f] = op]
      /\ revision[f] = plan[op].input
      /\ revision' = [revision EXCEPT ![f] = plan[op].input + 1]
  BY DEF CommitCatalog, Record, stateVars
<1>3. /\ IsFiniteSet(applied')
      /\ \A o \in Objects :
            revision'[o] = Cardinality({x \in applied' : plan'[x].object = o})
      /\ CountedOnce'
  <2>1. Record(op, plan[op])
    BY DEF CommitCatalog
  <2> QED
    BY <1>1, <1>2, <2>1, RecordCounts DEF HistoryInvariant
<1>4. plan[op].base = cover[f]
  BY <1>1 DEF HistoryInvariant
<1>5. ASSUME NEW x \in applied', plan'[x].object \in Files
     PROVE  IF plan'[x].input = 0 THEN plan'[x].base = NoOp
            ELSE /\ plan'[x].base \in applied'
                 /\ plan'[plan'[x].base].object = plan'[x].object
                 /\ plan'[plan'[x].base].input = plan'[x].input - 1
  <2>1. CASE x = op
    BY <2>1, <1>1, <1>2, <1>4 DEF HistoryInvariant
  <2>2. CASE x \in applied
    BY <2>2, <1>2, <1>5 DEF HistoryInvariant, RevisionChain
  <2> QED
    BY <2>1, <2>2, <1>2
<1>6. ASSUME NEW g \in Files
     PROVE  IF revision'[g] = 0 THEN cover'[g] = NoOp
            ELSE /\ cover'[g] \in applied'
                 /\ plan'[cover'[g]].object = g
                 /\ plan'[cover'[g]].input = revision'[g] - 1
  BY <1>1, <1>2 DEF HistoryInvariant, TypeOK, Objects, Plans
<1>7. ASSUME NEW x \in Ops, place'[x] = "pending", x \notin applied'
     PROVE  plan'[x].base = cover'[plan'[x].object]
  <2>1. plan[x].object # f /\ plan[x].object \in Files
    BY <1>1, <1>2, <1>7 DEF ProtocolInvariant, PendingInvariant, PlanInvariant
  <2> QED
    BY <1>1, <1>2, <1>7, <2>1 DEF HistoryInvariant, TypeOK
<1> QED
  BY <1>3, <1>5, <1>6, <1>7 DEF HistoryInvariant, RevisionChain

(* The commit of catalog rows: its object is a table. *)
LEMMA RowsExtendHistory ==
    ASSUME TypeOK, ProtocolInvariant, HistoryInvariant,
           NEW i \in Invocations, NEW t \in Tables, NEW start \in Starts,
           CatalogRows(i, t, start)
    PROVE  HistoryInvariant'
<1> DEFINE p == [object |-> t, input |-> revision[t], base |-> NoOp,
                 start |-> start, run |-> i]
<1>1. PICK op \in Ops :
        /\ place[op] = "none"
        /\ place' = [place EXCEPT ![op] = "rows"]
        /\ plan' = [plan EXCEPT ![op] = p]
        /\ Record(op, p)
  BY DEF CatalogRows
<1>2. cover' = cover /\ t \notin Files
  BY DEF CatalogRows
<1>3. /\ op \notin applied /\ p \in Plans /\ plan'[op] = p
      /\ \A x \in Ops \ {op} : plan'[x] = plan[x] /\ place'[x] = place[x]
      /\ place'[op] = "rows" /\ applied \subseteq Ops
  BY <1>1 DEF TypeOK, ProtocolInvariant, PlanInvariant, Plans, Objects
<1>4. /\ applied' = applied \cup {op}
      /\ \A g \in Files : revision'[g] = revision[g]
  BY <1>1, <1>2 DEF Record, TypeOK, Objects
<1>5. /\ IsFiniteSet(applied')
      /\ \A o \in Objects :
            revision'[o] = Cardinality({x \in applied' : plan'[x].object = o})
      /\ CountedOnce'
  <2> HIDE DEF p
  <2> QED
    BY <1>1, <1>3, RecordCounts DEF HistoryInvariant
<1>6. ASSUME NEW x \in applied', plan'[x].object \in Files
     PROVE  IF plan'[x].input = 0 THEN plan'[x].base = NoOp
            ELSE /\ plan'[x].base \in applied'
                 /\ plan'[plan'[x].base].object = plan'[x].object
                 /\ plan'[plan'[x].base].input = plan'[x].input - 1
  BY <1>2, <1>3, <1>4, <1>6 DEF HistoryInvariant, RevisionChain
<1>7. ASSUME NEW g \in Files
     PROVE  IF revision'[g] = 0 THEN cover'[g] = NoOp
            ELSE /\ cover'[g] \in applied'
                 /\ plan'[cover'[g]].object = g
                 /\ plan'[cover'[g]].input = revision'[g] - 1
  BY <1>2, <1>3, <1>4 DEF HistoryInvariant
<1>8. ASSUME NEW x \in Ops, place'[x] = "pending", x \notin applied'
     PROVE  plan'[x].base = cover'[plan'[x].object]
  BY <1>2, <1>3, <1>4, <1>8 DEF HistoryInvariant
<1> QED
  BY <1>5, <1>6, <1>7, <1>8 DEF HistoryInvariant, RevisionChain

LEMMA HistoryStep ==
    TypeOK /\ ProtocolInvariant /\ HistoryInvariant /\ [Next]_vars => HistoryInvariant'
<1> SUFFICES ASSUME TypeOK, ProtocolInvariant, HistoryInvariant, [Next]_vars
             PROVE  HistoryInvariant'
  OBVIOUS
<1>1. ASSUME NEW i \in Invocations, NEW f \in Files, NEW start \in Starts,
            BeginPublish(i, f, start)
     PROVE  HistoryInvariant'
  <2>1. PICK op \in Ops :
          /\ place[op] = "none"
          /\ place' = [place EXCEPT ![op] = "preparing"]
          /\ \A x \in Ops \ {op} : plan'[x] = plan[x]
    BY <1>1 DEF BeginPublish, TypeOK
  <2>2. UNCHANGED <<revision, applied, cover, total>>
    BY <1>1 DEF BeginPublish, catalogVars
  <2>3. op \notin applied
    BY <2>1 DEF ProtocolInvariant, PlanInvariant
  <2>4. \A x \in applied : plan'[x] = plan[x]
    BY <2>1, <2>3 DEF TypeOK
  <2>5. \A x \in Ops : place'[x] = "pending" => x # op /\ place[x] = "pending"
    BY <2>1 DEF TypeOK
  <2> QED
    BY <2>1, <2>2, <2>4, <2>5, HistoryIsKept DEF HistoryInvariant
<1>2. ASSUME NEW i \in Invocations, MoveToPending(i) PROVE HistoryInvariant'
  <2> DEFINE op == cur[i]
             f == plan[op].object
  <2>1. /\ place' = [place EXCEPT ![op] = "pending"]
        /\ UNCHANGED <<plan, revision, applied, cover, total>>
    BY <1>2 DEF MoveToPending, catalogVars
  <2>2. op \in Ops /\ place[op] = "preparing" /\ plan[op].base = target[f] /\ Unclaimed(f)
    BY <1>2 DEF MoveToPending, ProtocolInvariant, PhaseInvariant, PreparePhases
  <2>3. f \in Files
    BY <2>2 DEF ProtocolInvariant, PlanInvariant
  <2>4. target[f] = cover[f]
    BY <2>2, <2>3 DEF ProtocolInvariant, RedoUntilCommitted, Unclaimed
  <2>5. ASSUME NEW x \in Ops, place'[x] = "pending", x \notin applied
       PROVE  plan'[x].base = cover[plan'[x].object]
    BY <2>1, <2>2, <2>4, <2>5 DEF HistoryInvariant, TypeOK
  <2> QED
    BY <2>1, <2>5, HistoryIsKept
<1>3. ASSUME NEW i \in Invocations,
            \/ WriteRedo(i) \/ WriteManifest(i) \/ ReplaceTarget(i) \/ MarkReplaced(i)
            \/ MarkApplied(i) \/ ReleaseRedo(i) \/ PublishFails(i)
     PROVE  UNCHANGED <<place, plan, revision, applied, cover, total>>
  BY <1>3 DEF WriteRedo, WriteManifest, ReplaceTarget, MarkReplaced, MarkApplied,
              ReleaseRedo, PublishFails, stateVars, catalogVars
<1>4. ASSUME NEW op \in Ops, Damage(op) \/ Repair(op)
     PROVE  UNCHANGED <<place, plan, revision, applied, cover, total>>
  BY <1>4 DEF Damage, Repair, catalogVars
<1>5. ASSUME NEW i \in Invocations, Archive(i) \/ \E op \in Ops : AbortPreparation(i, op)
     PROVE  /\ UNCHANGED <<plan, revision, applied, cover, total>>
            /\ \A x \in Ops : place'[x] = "pending" => place[x] = "pending"
  BY <1>5 DEF Archive, AbortPreparation, catalogVars, TypeOK
<1>6. CASE UNCHANGED <<place, plan, revision, applied, cover, total>>
  BY <1>6, HistoryIsKept DEF HistoryInvariant
<1>7. CASE /\ UNCHANGED <<plan, revision, applied, cover, total>>
           /\ \A x \in Ops : place'[x] = "pending" => place[x] = "pending"
  BY <1>7, HistoryIsKept DEF HistoryInvariant
<1>8. UNCHANGED diskVars => UNCHANGED <<place, plan, revision, applied, cover, total>>
  BY DEF diskVars
<1> QED
  BY <1>1, <1>2, <1>3, <1>4, <1>5, <1>6, <1>7, <1>8, DiskSteps,
     CommitExtendsHistory, RowsExtendHistory

LEMMA HistoryHolds == Spec => []HistoryInvariant
<1>1. ASSUME Init PROVE HistoryInvariant
  <2>1. applied = {} /\ Cardinality({}) = 0 /\ IsFiniteSet({})
    BY <1>1, FS_EmptySet DEF Init
  <2>2. \A o : {x \in applied : plan[x].object = o} = {}
    BY <2>1
  <2>3. \A i : {x \in applied : plan[x].run = i} = {}
    BY <2>1
  <2>4. /\ \A o \in Objects :
            revision[o] = Cardinality({x \in applied : plan[x].object = o})
        /\ \A i \in Invocations :
            total[i] = Cardinality({x \in applied : plan[x].run = i})
    BY <1>1, <2>1, <2>2, <2>3 DEF Init
  <2> QED
    BY <1>1, <2>1, <2>4 DEF Init, HistoryInvariant, RevisionChain, CountedOnce, Objects
<1>2. TypeOK /\ ProtocolInvariant /\ HistoryInvariant /\ [Next]_vars => HistoryInvariant'
  BY HistoryStep
<1> QED
  BY <1>1, <1>2, InvariantHolds, PTL DEF Spec

(* The committed operations of a file are one chain, and revisions count them. *)
THEOREM RevisionsAreChained == Spec => []RevisionChain
<1>1. HistoryInvariant => RevisionChain
  BY DEF HistoryInvariant
<1> QED
  BY <1>1, HistoryHolds, PTL

(* Totals count each committed operation of a run once. *)
THEOREM RunsAreCountedOnce == Spec => []CountedOnce
<1>1. HistoryInvariant => CountedOnce
  BY DEF HistoryInvariant
<1> QED
  BY <1>1, HistoryHolds, PTL

-----------------------------------------------------------------------------
(* What the row of a run says.  An operation is published for the run that prepared
   it, so nothing of a run becomes pending after its summary. *)
RunInvariant ==
    /\ SummaryTellsOfPending
    /\ \A i \in Invocations : pc[i] \in PreparePhases => plan[cur[i]].run = i

(* A step that ends no run and makes nothing pending, and whose preparations are the
   old ones, keeps it. *)
LEMMA RunsGoOn ==
    ASSUME RunInvariant,
           \A i \in Invocations : pc'[i] = "done" =>
               pc[i] = "done" /\ runState'[i] \in {runState[i], "recovered"},
           \A op \in Ops : place'[op] = "pending" =>
               place[op] = "pending" /\ plan'[op] = plan[op],
           \A i \in Invocations : pc'[i] \in PreparePhases =>
               \/ pc[i] \in PreparePhases /\ plan'[cur'[i]] = plan[cur[i]]
               \/ plan'[cur'[i]].run = i
    PROVE  RunInvariant'
<1>1. ASSUME NEW i \in Invocations, pc'[i] = "done",
             runState'[i] \notin {"recovery_required", "recovered"},
             NEW op \in Ops, place'[op] = "pending"
      PROVE  plan'[op].run # i
  BY <1>1 DEF RunInvariant, SummaryTellsOfPending
<1>2. \A i \in Invocations : pc'[i] \in PreparePhases => plan'[cur'[i]].run = i
  BY DEF RunInvariant
<1> QED
  BY <1>1, <1>2 DEF RunInvariant, SummaryTellsOfPending

LEMMA RunStep ==
    TypeOK /\ ProtocolInvariant /\ RunInvariant /\ [Next]_vars => RunInvariant'
<1> SUFFICES ASSUME TypeOK, ProtocolInvariant, RunInvariant, [Next]_vars
             PROVE  RunInvariant'
  OBVIOUS
<1> USE DEF TypeOK, lockVars, stateVars, catalogVars, memoryVars, Goto, PreparePhases
<1>1. ASSUME NEW i \in Invocations,
            \/ AcquireWrite(i) \/ EndStage(i) \/ RecoverAgain(i) \/ RecoveryDone(i)
            \/ Crash(i) \/ JobFails(i) \/ RecoveryFails(i) \/ PublishFails(i)
     PROVE  RunInvariant'
  <2>1. /\ \A j \in Invocations : pc'[j] = "done" => pc[j] = "done" /\ runState'[j] = runState[j]
        /\ UNCHANGED <<place, plan>>
        /\ \A j \in Invocations : pc'[j] \in PreparePhases => pc[j] \in PreparePhases /\ cur'[j] = cur[j]
    BY <1>1 DEF AcquireWrite, EndStage, RecoverAgain, RecoveryDone, Crash, JobFails,
                RecoveryFails, PublishFails, Caught, Raised, NoteRun, ApplyPhases
  <2> QED
    BY <2>1, RunsGoOn
<1>2. ASSUME NEW i \in Invocations, FinishRun(i) PROVE RunInvariant'
  <2>1. /\ UNCHANGED <<place, plan, cur>>
        /\ \A j \in Invocations \ {i} : pc'[j] = pc[j] /\ runState'[j] = runState[j]
        /\ pc'[i] = "done"
        /\ Pending => runState'[i] = "recovery_required"
    BY <1>2 DEF FinishRun
  <2> QED
    BY <2>1 DEF RunInvariant, SummaryTellsOfPending, Pending
<1>3. ASSUME NEW i \in Invocations, NEW f \in Files, NEW start \in Starts,
            BeginPublish(i, f, start)
     PROVE  RunInvariant'
  <2> DEFINE p == [object |-> f, input |-> revision[f], base |-> target[f],
                   start |-> start, run |-> i]
  <2>1. PICK op \in Ops :
          /\ place[op] = "none"
          /\ place' = [place EXCEPT ![op] = "preparing"]
          /\ plan' = [plan EXCEPT ![op] = p]
          /\ cur' = [cur EXCEPT ![i] = op]
    BY <1>3 DEF BeginPublish
  <2>2. /\ pc' = [pc EXCEPT ![i] = "preparing"]
        /\ \A j \in Invocations \ {i} : runState'[j] = runState[j]
    BY <1>3 DEF BeginPublish, NoteRun
  <2>3. p.run = i
    OBVIOUS
  <2> HIDE DEF p
  <2>4. /\ plan'[op].run = i /\ cur'[i] = op /\ pc'[i] = "preparing"
        /\ \A x \in Ops \ {op} : plan'[x] = plan[x] /\ place'[x] = place[x]
        /\ place'[op] = "preparing"
        /\ \A j \in Invocations \ {i} : pc'[j] = pc[j] /\ cur'[j] = cur[j]
    BY <2>1, <2>2, <2>3
  <2>5. \A j \in Invocations : pc[j] \in PreparePhases => cur[j] \in Ops \ {op}
    BY <2>1 DEF ProtocolInvariant, PhaseInvariant
  <2>6. \A j \in Invocations : pc'[j] = "done" => pc[j] = "done" /\ runState'[j] = runState[j]
    BY <2>2, <2>4
  <2>7. \A x \in Ops : place'[x] = "pending" => place[x] = "pending" /\ plan'[x] = plan[x]
    BY <2>4
  <2>8. ASSUME NEW j \in Invocations, pc'[j] \in PreparePhases
       PROVE  \/ pc[j] \in PreparePhases /\ plan'[cur'[j]] = plan[cur[j]]
              \/ plan'[cur'[j]].run = j
    <3>1. CASE j = i
      BY <3>1, <2>4
    <3>2. CASE j # i
      BY <3>2, <2>4, <2>5, <2>8
    <3> QED
      BY <3>1, <3>2
  <2> QED
    BY <2>6, <2>7, <2>8, RunsGoOn
<1>4. ASSUME NEW i \in Invocations, WriteRedo(i) \/ WriteManifest(i) PROVE RunInvariant'
  <2>1. /\ UNCHANGED <<place, plan, cur, runState>>
        /\ \A j \in Invocations : pc'[j] = "done" => pc[j] = "done"
        /\ \A j \in Invocations : pc'[j] \in PreparePhases => pc[j] \in PreparePhases
    BY <1>4 DEF WriteRedo, WriteManifest
  <2> QED
    BY <2>1, RunsGoOn
<1>5. ASSUME NEW i \in Invocations, MoveToPending(i) PROVE RunInvariant'
  <2>1. /\ UNCHANGED <<plan, cur, runState>>
        /\ place' = [place EXCEPT ![cur[i]] = "pending"]
        /\ pc' = [pc EXCEPT ![i] = "validate"]
        /\ plan[cur[i]].run = i
    BY <1>5 DEF MoveToPending, RunInvariant
  <2> QED
    BY <2>1 DEF RunInvariant, SummaryTellsOfPending
<1>6. ASSUME NEW i \in Invocations,
            \/ Validate(i) \/ ReplaceTarget(i) \/ MarkReplaced(i) \/ CommitCatalog(i)
            \/ MarkApplied(i) \/ ReleaseRedo(i) \/ Archive(i) \/ PublishDone(i)
            \/ ReconcileRun(i) \/ \E op \in Ops : AbortPreparation(i, op) \/ TakePending(i, op)
     PROVE  RunInvariant'
  <2>1. /\ \A j \in Invocations : pc'[j] = "done" =>
              pc[j] = "done" /\ runState'[j] \in {runState[j], "recovered"}
        /\ plan' = plan
        /\ \A op \in Ops : place'[op] = "pending" => place[op] = "pending"
        /\ \A j \in Invocations : pc'[j] \in PreparePhases => pc[j] \in PreparePhases /\ cur'[j] = cur[j]
    BY <1>6 DEF Validate, ReplaceTarget, MarkReplaced, CommitCatalog, MarkApplied, ReleaseRedo,
                Archive, PublishDone, ReconcileRun, AbortPreparation, TakePending, NoteRun
  <2> QED
    BY <2>1, RunsGoOn
<1>7. ASSUME NEW i \in Invocations, NEW t \in Tables, NEW start \in Starts,
            CatalogRows(i, t, start)
     PROVE  RunInvariant'
  <2>1. PICK op \in Ops :
          /\ place[op] = "none"
          /\ place' = [place EXCEPT ![op] = "rows"]
          /\ \A x \in Ops \ {op} : plan'[x] = plan[x]
    BY <1>7 DEF CatalogRows
  <2>2. /\ \A j \in Invocations : pc'[j] = "done" => pc[j] = "done" /\ runState'[j] = runState[j]
        /\ \A j \in Invocations : pc'[j] \in PreparePhases => pc[j] \in PreparePhases
        /\ cur' = cur
    BY <1>7 DEF CatalogRows, Caught, Raised, NoteRun
  <2>3. \A j \in Invocations : pc[j] \in PreparePhases => cur[j] \in Ops \ {op}
    BY <2>1 DEF ProtocolInvariant, PhaseInvariant
  <2> QED
    BY <2>1, <2>2, <2>3, RunsGoOn
<1>8. ASSUME \/ \E r \in Readers : EnterRead(r) \/ Read(r) \/ ExitRead(r)
             \/ \E op \in Ops : Damage(op) \/ Repair(op)
             \/ UNCHANGED vars
     PROVE  RunInvariant'
  <2>1. UNCHANGED <<place, plan, pc, cur, runState>>
    BY <1>8 DEF EnterRead, Read, ExitRead, Damage, Repair, vars
  <2> QED
    BY <2>1, RunsGoOn
<1> QED
  BY <1>1, <1>2, <1>3, <1>4, <1>5, <1>6, <1>7, <1>8 DEF Next, Prepare, Apply, Recover, Fail

(* A run whose row neither asks for a recovery nor tells of one left nothing behind. *)
THEOREM SummariesTellOfPending == Spec => []SummaryTellsOfPending
<1>1. Init => RunInvariant
  BY DEF Init, RunInvariant, SummaryTellsOfPending, PreparePhases
<1>2. TypeOK /\ ProtocolInvariant /\ RunInvariant /\ [Next]_vars => RunInvariant'
  BY RunStep
<1>3. RunInvariant => SummaryTellsOfPending
  BY DEF RunInvariant
<1> QED
  BY <1>1, <1>2, <1>3, InvariantHolds, PTL DEF Spec

-----------------------------------------------------------------------------
(* The abstract variables, apart from what a reader sees, are changed by the
   two actions that commit. *)
LEMMA CommitSteps ==
    ASSUME [Next]_vars
    PROVE  \/ UNCHANGED <<revision, applied, cover, stale, view>>
           \/ \E i \in Invocations :
                \/ CommitCatalog(i)
                \/ \E t \in Tables, start \in Starts : CatalogRows(i, t, start)
           \/ \E r \in Readers : Read(r) \/ ExitRead(r)
<1> USE DEF lockVars, stateVars, catalogVars, memoryVars
<1>1. ASSUME NEW i \in Invocations,
            \/ AcquireWrite(i) \/ EndStage(i) \/ FinishRun(i) \/ RecoverAgain(i)
            \/ \E f \in Files, start \in Starts : BeginPublish(i, f, start)
            \/ WriteRedo(i) \/ WriteManifest(i) \/ MoveToPending(i)
     PROVE  UNCHANGED <<revision, applied, cover, stale, view>>
  BY <1>1 DEF AcquireWrite, EndStage, FinishRun, RecoverAgain, BeginPublish, WriteRedo,
              WriteManifest, MoveToPending
<1>2. ASSUME NEW i \in Invocations,
            \/ Validate(i) \/ ReplaceTarget(i) \/ MarkReplaced(i) \/ MarkApplied(i)
            \/ ReleaseRedo(i)
            \/ Archive(i) \/ PublishDone(i)
            \/ \E op \in Ops : AbortPreparation(i, op) \/ TakePending(i, op)
            \/ ReconcileRun(i) \/ RecoveryDone(i)
     PROVE  UNCHANGED <<revision, applied, cover, stale, view>>
  BY <1>2 DEF Validate, ReplaceTarget, MarkReplaced, MarkApplied, ReleaseRedo, Archive, PublishDone,
              AbortPreparation, TakePending, ReconcileRun, RecoveryDone
<1>3. ASSUME NEW i \in Invocations,
            PublishFails(i) \/ RecoveryFails(i) \/ JobFails(i) \/ Crash(i)
     PROVE  UNCHANGED <<revision, applied, cover, stale, view>>
  BY <1>3 DEF PublishFails, RecoveryFails, JobFails, Crash
<1>4. ASSUME \/ \E r \in Readers : EnterRead(r)
            \/ \E op \in Ops : Damage(op) \/ Repair(op)
     PROVE  UNCHANGED <<revision, applied, cover, stale, view>>
  BY <1>4 DEF EnterRead, Damage, Repair
<1>5. CASE UNCHANGED vars
  BY <1>5 DEF vars
<1> QED
  BY <1>1, <1>2, <1>3, <1>4, <1>5 DEF Next, Prepare, Apply, Recover, Fail

(* The plan of an operation that took effect never changes again. *)
LEMMA PlanIsKept ==
    ASSUME TypeOK, ProtocolInvariant, [Next]_vars
    PROVE  \A op \in applied : plan'[op] = plan[op]
<1>0. \A op \in applied : op \in Ops /\ place[op] # "none"
  BY DEF ProtocolInvariant, PlanInvariant, TypeOK
<1> USE DEF TypeOK, diskVars, stateVars
<1>1. ASSUME NEW i \in Invocations,
            \/ \E f \in Files, start \in Starts : BeginPublish(i, f, start)
            \/ \E t \in Tables, start \in Starts : CatalogRows(i, t, start)
     PROVE  \A op \in applied : plan'[op] = plan[op]
  BY <1>0, <1>1 DEF BeginPublish, CatalogRows
<1>2. ASSUME NEW i \in Invocations,
            \/ WriteRedo(i) \/ WriteManifest(i) \/ MoveToPending(i)
            \/ ReplaceTarget(i) \/ MarkReplaced(i) \/ CommitCatalog(i)
            \/ MarkApplied(i) \/ ReleaseRedo(i) \/ Archive(i) \/ PublishFails(i)
            \/ \E op \in Ops : AbortPreparation(i, op)
     PROVE  UNCHANGED plan
  BY <1>2 DEF WriteRedo, WriteManifest, MoveToPending, ReplaceTarget, MarkReplaced,
              CommitCatalog, MarkApplied, ReleaseRedo, Archive, PublishFails,
              AbortPreparation
<1>3. ASSUME NEW op \in Ops, Damage(op) \/ Repair(op) PROVE UNCHANGED plan
  BY <1>3 DEF Damage, Repair
<1> QED
  BY <1>1, <1>2, <1>3, DiskSteps

(* The abstract set of what took effect. *)
Effects == {[op |-> op, start |-> plan[op].start] : op \in applied}

LEMMA CommitRefines ==
    ASSUME TypeOK, ProtocolInvariant, NEW i \in Invocations, CommitCatalog(i)
    PROVE  Promised!Commit(cur[i], plan[cur[i]].object, plan[cur[i]].start)
<1>1. /\ cur[i] \in Ops /\ cur[i] \notin applied
      /\ plan[cur[i]].object \in Files
  BY DEF CommitCatalog, ProtocolInvariant, PhaseInvariant, PlanInvariant, ApplyPhases
<1>2. /\ applied' = applied \cup {cur[i]}
      /\ plan' = plan
  BY DEF CommitCatalog, Record, stateVars
<1>3. Effects' = Effects \cup {[op |-> cur[i], start |-> plan[cur[i]].start]}
  BY <1>2 DEF Effects
<1>4. \A c \in Effects : c.op # cur[i]
  BY <1>1 DEF Effects
<1> QED
  BY <1>1, <1>3, <1>4
  DEF CommitCatalog, Record, StaleFrom, Days, Promised!Commit, TypeOK, Effects

LEMMA RowsRefine ==
    ASSUME TypeOK, ProtocolInvariant, NEW i \in Invocations, NEW t \in Tables,
           NEW start \in Starts, CatalogRows(i, t, start)
    PROVE  \E op \in Ops : Promised!Commit(op, t, start)
<1>1. PICK op \in Ops :
        /\ place[op] = "none"
        /\ Record(op, [object |-> t, input |-> revision[t], base |-> NoOp,
                       start |-> start, run |-> i])
        /\ plan' = [plan EXCEPT ![op] = [object |-> t, input |-> revision[t],
                                         base |-> NoOp, start |-> start, run |-> i]]
  BY DEF CatalogRows
<1>2. op \notin applied /\ t \notin Files
  BY <1>1 DEF ProtocolInvariant, PlanInvariant
<1>3. UNCHANGED <<cover, view>> /\ stale' = stale \cup StaleFrom(start)
  BY DEF CatalogRows
<1>4. /\ applied' = applied \cup {op}
      /\ plan'[op].start = start
      /\ \A o \in applied : plan'[o] = plan[o]
  BY <1>1, <1>2 DEF Record, TypeOK
<1>5. Effects' = Effects \cup {[op |-> op, start |-> start]}
  BY <1>4 DEF Effects
<1>6. \A c \in Effects : c.op # op
  BY <1>2 DEF Effects
<1> QED
  BY <1>1, <1>2, <1>3, <1>5, <1>6
  DEF Record, StaleFrom, Days, Promised!Commit, TypeOK, Effects

LEMMA ReadRefines ==
    ASSUME TypeOK, ProtocolInvariant, NEW r \in Readers, Read(r)
    PROVE  Promised!Read(r)
<1>1. ASSUME NEW f \in Files PROVE target[f] = cover[f]
  BY DEF Read, ProtocolInvariant, LockInvariant, RedoUntilCommitted, Pending
<1>2. target = cover
  BY <1>1 DEF TypeOK
<1> QED
  BY <1>2 DEF Read, catalogVars, stateVars, Promised!Read

(* The protocol implements atomic commits: whatever fails, crashes or is
   recovered, readers and consumers of the catalog see the pool change one whole
   operation at a time, with its revision and the days it makes stale. *)
THEOREM Refinement == Spec => ImplementsAtomicPool
<1>1. Init => Promised!Init
  BY DEF Init, Promised!Init, Objects
<1>2. TypeOK /\ ProtocolInvariant /\ [Next]_vars => [Promised!Next]_(Promised!poolVars)
  <2> SUFFICES ASSUME TypeOK, ProtocolInvariant, [Next]_vars
               PROVE  [Promised!Next]_(Promised!poolVars)
    OBVIOUS
  <2>0. UNCHANGED applied => UNCHANGED Effects
    BY PlanIsKept DEF Effects
  <2>1. CASE UNCHANGED <<revision, applied, cover, stale, view>>
    BY <2>0, <2>1 DEF Promised!poolVars, Effects
  <2>2. ASSUME NEW i \in Invocations, CommitCatalog(i) PROVE Promised!Next
    <3>1. /\ cur[i] \in Ops /\ plan[cur[i]].object \in Files \cup Tables
          /\ plan[cur[i]].start \in 1..(MaxDay + 1)
      BY <2>2 DEF CommitCatalog, ProtocolInvariant, PhaseInvariant, PlanInvariant,
                  ApplyPhases, Plans, Starts
    <3>2. PICK op \in Ops, o \in Files \cup Tables, start \in 1..(MaxDay + 1) :
            op = cur[i] /\ o = plan[cur[i]].object /\ start = plan[cur[i]].start
      BY <3>1
    <3>3. Promised!Commit(op, o, start)
      BY <2>2, <3>2, CommitRefines DEF Promised!Commit
    <3> QED
      BY <3>3 DEF Promised!Next
  <2>3. ASSUME NEW i \in Invocations, NEW t \in Tables, NEW start \in Starts,
              CatalogRows(i, t, start)
       PROVE  Promised!Next
    BY <2>3, RowsRefine DEF Promised!Next, Starts
  <2>4. ASSUME NEW r \in Readers, Read(r) PROVE Promised!Next
    BY <2>4, ReadRefines DEF Promised!Next
  <2>5. ASSUME NEW r \in Readers, ExitRead(r) PROVE Promised!Next
    BY <2>0, <2>5 DEF ExitRead, catalogVars, Effects, Promised!Leave, Promised!Next
  <2> QED
    BY <2>1, <2>2, <2>3, <2>4, <2>5, CommitSteps
<1> QED
  BY <1>1, <1>2, InvariantHolds, PTL DEF Spec, ImplementsAtomicPool, Promised!Spec

(* A damaged preparation is neither committed nor moved until it is repaired. *)
THEOREM DamageIsNeverCommitted == Spec => DamagedIsKept
<1> DEFINE Kept == \A op \in Ops : ~intact[op] =>
        (op \in applied' <=> op \in applied) /\ place'[op] = place[op]
<1>1. TypeOK /\ ProtocolInvariant /\ [Next]_vars => [Kept]_vars
  <2> SUFFICES ASSUME TypeOK, ProtocolInvariant, [Next]_vars PROVE Kept
    OBVIOUS
  <2> USE DEF TypeOK, ProtocolInvariant, PlanInvariant, PhaseInvariant
  <2> USE DEF lockVars, stateVars, catalogVars, PreparePhases, ApplyPhases
  <2>1. ASSUME NEW i \in Invocations,
              \/ \E f \in Files, start \in Starts : BeginPublish(i, f, start)
              \/ \E t \in Tables, start \in Starts : CatalogRows(i, t, start)
       PROVE  Kept
    BY <2>1 DEF BeginPublish, CatalogRows, Record
  <2>2. ASSUME NEW i \in Invocations, CommitCatalog(i) PROVE Kept
    BY <2>2 DEF CommitCatalog, Record
  <2>3. ASSUME NEW i \in Invocations, Archive(i) PROVE Kept
    BY <2>3 DEF Archive
  <2>4. ASSUME NEW i \in Invocations,
              \/ MoveToPending(i) \/ WriteRedo(i) \/ WriteManifest(i) \/ ReplaceTarget(i)
              \/ MarkReplaced(i) \/ MarkApplied(i) \/ ReleaseRedo(i) \/ PublishFails(i)
              \/ \E op \in Ops : AbortPreparation(i, op)
       PROVE  Kept
    BY <2>4 DEF MoveToPending, WriteRedo, WriteManifest, ReplaceTarget, MarkReplaced,
                MarkApplied, ReleaseRedo, PublishFails, AbortPreparation
  <2>5. ASSUME NEW op \in Ops, Damage(op) \/ Repair(op) PROVE Kept
    BY <2>5 DEF Damage, Repair
  <2>6. CASE UNCHANGED diskVars
    BY <2>6 DEF diskVars
  <2> QED
    BY <2>1, <2>2, <2>3, <2>4, <2>5, <2>6, DiskSteps
<1> QED
  BY <1>1, InvariantHolds, PTL DEF Spec, DamagedIsKept
=============================================================================
