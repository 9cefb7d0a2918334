-------------------------- MODULE PublicationProofs --------------------------
(***************************************************************************)
(* Proofs about Publication, for any processes, readers, row values and    *)
(* any number of publications, failures and recoveries.                    *)
(***************************************************************************)
EXTENDS Publication, TLAPS

(* The files partition the cells, and a reader pins all of them. *)
LEMMA FileCells ==
    /\ \A n \in 1..3 : CellsOf[FileAt[n]] \subseteq Cells
    /\ \A n \in 1..3 : CellsOf[PinAt[n]] \subseteq Cells
    /\ \A c \in Cells : \E n \in 1..3 : c \in CellsOf[PinAt[n]]
<1>1. /\ FileAt[1] = "main" /\ FileAt[2] = "features" /\ FileAt[3] = "adjustments"
      /\ PinAt[1] = "main" /\ PinAt[2] = "adjustments" /\ PinAt[3] = "features"
  BY DEF FileAt, PinAt
<1>2. /\ CellsOf["main"] = MainCells
      /\ CellsOf["features"] = FeatureCells
      /\ CellsOf["adjustments"] = AdjustmentCells
  BY DEF CellsOf
<1>3. \A n \in 1..3 : n = 1 \/ n = 2 \/ n = 3
  OBVIOUS
<1>4. 1 \in 1..3 /\ 2 \in 1..3 /\ 3 \in 1..3
  OBVIOUS
<1> QED
  BY <1>1, <1>2, <1>3, <1>4 DEF Cells

(* Where the cells that the protocol reads by name belong. *)
LEMMA NamedCells ==
    /\ {"stock_raw", "feature_raw", "feature_factor", "stock_factors"} \subseteq Cells
    /\ RowCells \subseteq Cells /\ RawCells \subseteq RowCells
    /\ FactorCells \subseteq RowCells
    /\ {"stock_raw", "feature_raw", "feature_factor", "stock_factors"} \cap RowCells = {}
  BY DEF Cells, MainCells, FeatureCells, AdjustmentCells, RowCells, RawCells, FactorCells

(* What is published is a content. *)
LEMMA EffectiveType == TypeOK => Effective \in Contents
  BY DEF TypeOK, Effective, Contents

(* Without an intent the files are what is published. *)
LEMMA EffectiveIsDisk == TypeOK /\ intent = NoIntent => Effective = disk
  BY DEF TypeOK, Effective, Contents

(* What is published is never older than itself, nor than what came before. *)
LEMMA FollowsItself == \A c \in Contents : Promised!Follows(c, c)
  BY NamedCells DEF Contents, Promised!Follows

LEMMA FollowsTransitive ==
    ASSUME NEW a \in Contents, NEW b \in Contents, NEW c \in Contents,
           Promised!Follows(a, b), Promised!Follows(b, c)
    PROVE  Promised!Follows(a, c)
<1>1. /\ a["stock_raw"] \in Nat /\ b["stock_raw"] \in Nat /\ c["stock_raw"] \in Nat
      /\ a["stock_factors"] \in Nat /\ b["stock_factors"] \in Nat
      /\ c["stock_factors"] \in Nat
  BY NamedCells DEF Contents
<1>2. ASSUME NEW x \in RawCells, c[x] # a[x]
      PROVE  c["stock_raw"] > a["stock_raw"]
  BY <1>1, <1>2 DEF Promised!Follows
<1>3. ASSUME NEW x \in FactorCells, c[x] # a[x]
      PROVE  c["stock_factors"] > a["stock_factors"]
  BY <1>1, <1>3 DEF Promised!Follows
<1> QED
  BY <1>1, <1>2, <1>3 DEF Promised!Follows
-----------------------------------------------------------------------------
(* Types. *)
LEMMA InitType == Init => TypeOK
  BY DEF Init, TypeOK, Phases, Operations, Contents

LEMMA RevisionType ==
    TypeOK => RawRevision \in Nat /\ FactorRevision \in Nat
<1> SUFFICES ASSUME TypeOK PROVE RawRevision \in Nat /\ FactorRevision \in Nat
  OBVIOUS
<1>1. \A c \in Cells : disk[c] \in Nat /\ work[c] \in Nat
  BY DEF TypeOK, Contents
<1>2. Bump(RawCells) \in {0, 1} /\ Bump(FactorCells) \in {0, 1}
  BY DEF Bump
<1> QED
  BY <1>1, <1>2, NamedCells DEF RawRevision, FactorRevision

LEMMA TypeStep == TypeOK /\ PublicationInvariant /\ [Next]_vars => TypeOK'
<1> SUFFICES ASSUME TypeOK, PublicationInvariant, [Next]_vars PROVE TypeOK'
  OBVIOUS
<1> USE DEF TypeOK, Phases, WritePhases, CommitPhases, RecoverPhases, holderVars, readerVars
<1>1. ASSUME NEW p \in Procs, NEW o \in Operations, BeginGuard(p, o) PROVE TypeOK'
  BY <1>1 DEF BeginGuard
<1>2. ASSUME NEW p \in Procs, Execute(p) PROVE TypeOK'
  <2>1. PICK rows \in [RowCells -> Values], moved \in BOOLEAN :
          work' = [c \in Cells |->
                     IF c \in RowCells THEN rows[c]
                     ELSE IF c = "stock_raw" /\ moved THEN work[c] + 1 ELSE work[c]]
    BY <1>2 DEF Execute
  <2>2. ASSUME NEW c \in Cells
        PROVE  (IF c \in RowCells THEN rows[c]
                ELSE IF c = "stock_raw" /\ moved THEN work[c] + 1 ELSE work[c]) \in Nat
    <3>1. work[c] \in Nat /\ work[c] + 1 \in Nat
      BY DEF Contents
    <3>2. c \in RowCells => rows[c] \in Nat
      BY ConstantsAssumption
    <3> QED
      BY <3>1, <3>2
  <2>3. work' \in Contents
    BY <2>1, <2>2 DEF Contents
  <2> QED
    BY <2>3, <1>2 DEF Execute
<1>3. ASSUME NEW p \in Procs, Derive(p) PROVE TypeOK'
  <2>1. work' \in Contents
    BY <1>3, RevisionType DEF Derive, Contents
  <2> QED
    BY <2>1, <1>3 DEF Derive
<1>4. ASSUME NEW p \in Procs, PrepareIntent(p) PROVE TypeOK'
  <2>1. DOMAIN intent' \subseteq Cells /\ \A c \in DOMAIN intent' : intent'[c] \in Nat
    BY <1>4 DEF PrepareIntent, Changed, Contents
  <2> QED
    BY <2>1, <1>4 DEF PrepareIntent
<1>5. ASSUME NEW p \in Procs, CommitFile(p) PROVE TypeOK'
  <2>1. disk' \in Contents /\ next' \in 1..4
    BY <1>5 DEF CommitFile, Contents
  <2> QED
    BY <2>1, <1>5 DEF CommitFile
<1>6. ASSUME NEW p \in Procs, RecoverFile(p) PROVE TypeOK'
  <2>1. disk' \in Contents /\ next' \in 1..4
    BY <1>6 DEF RecoverFile, Contents, PublicationInvariant, LockInvariant
  <2> QED
    BY <2>1, <1>6 DEF RecoverFile
<1>7. ASSUME NEW p \in Procs,
            CommitUnchanged(p) \/ CommitFeatures(p) \/ Finish(p) \/ Refuse(p) \/ Stop(p)
      PROVE  TypeOK'
  BY <1>7 DEF CommitUnchanged, CommitFeatures, Finish, Refuse, Stop, Release, Operations
<1>8. ASSUME NEW p \in Procs, Verify(p) \/ RemoveIntent(p) \/ Recover(p) PROVE TypeOK'
  BY <1>8 DEF Verify, RemoveIntent, Recover
<1>9. ASSUME NEW r \in Readers, EnterRead(r) \/ OpenSnapshot(r) \/ CloseSnapshot(r)
      PROVE  TypeOK'
  BY <1>9 DEF EnterRead, OpenSnapshot, CloseSnapshot, Contents
<1>10. ASSUME NEW r \in Readers, Pin(r) PROVE TypeOK'
  <2>1. snapshot[r] \in Contents
    BY <1>10 DEF Pin, PublicationInvariant, SnapshotInvariant
  <2>2. snapshot' \in [Readers -> Contents \cup {NoSnapshot}]
    BY <2>1, <1>10 DEF Pin, Contents
  <2> QED
    BY <2>2, <1>10 DEF Pin
<1>11. CASE UNCHANGED vars
  BY <1>11 DEF vars
<1> QED
  BY <1>1, <1>2, <1>3, <1>4, <1>5, <1>6, <1>7, <1>8, <1>9, <1>10, <1>11
  DEF Next, Step, ReadStep
-----------------------------------------------------------------------------
(* A file that commits, or is rolled forward, moves towards what is published. *)
LEMMA FilesKeepContent ==
    ASSUME TypeOK, PublicationInvariant, NEW p \in Procs, CommitFile(p) \/ RecoverFile(p)
    PROVE  UNCHANGED Effective
<1> USE DEF TypeOK, PublicationInvariant
<1>1. CASE CommitFile(p)
  <2>1. work = Effective
    BY <1>1 DEF CommitFile, WorkInvariant
  <2>2. \A c \in Cells : ~(intent # NoIntent /\ c \in DOMAIN intent) =>
            work[c] = disk[c]
    BY <2>1 DEF Effective
  <2>3. \A c \in Cells : ~(intent # NoIntent /\ c \in DOMAIN intent) =>
            disk'[c] = disk[c]
    BY <1>1, <2>2 DEF CommitFile
  <2> QED
    BY <1>1, <2>3 DEF CommitFile, Effective
<1>2. CASE RecoverFile(p)
  <2>1. intent # NoIntent
    BY <1>2 DEF RecoverFile, LockInvariant
  <2>2. \A c \in Cells : c \notin DOMAIN intent => disk'[c] = disk[c]
    BY <1>2 DEF RecoverFile
  <2> QED
    BY <1>2, <2>1, <2>2 DEF RecoverFile, Effective
<1> QED
  BY <1>1, <1>2

(* From the durable intent on, what is published is the work of the writer. *)
LEMMA IntentIsWork ==
    ASSUME TypeOK, PublicationInvariant, NEW p \in Procs, PrepareIntent(p)
    PROVE  intent' # NoIntent /\ Effective' = work
<1> USE DEF TypeOK
<1>1. intent' # NoIntent
  BY AbsenceAssumption DEF PrepareIntent, Changed, Contents
<1>2. Effective' = work
  BY <1>1 DEF PrepareIntent, Effective, Changed, Contents
<1> QED
  BY <1>1, <1>2

(* What is published changes in two steps only: when an intent becomes durable,
   and when an operation on one file commits. *)
LEMMA ContentStep ==
    ASSUME TypeOK, PublicationInvariant, [Next]_vars
    PROVE  \/ UNCHANGED Effective
           \/ /\ readLocks = {} /\ UNCHANGED readerVars
              /\ Coherent(Effective') /\ Promised!Follows(Effective, Effective')
<1> USE DEF TypeOK, PublicationInvariant, holderVars, readerVars
<1>1. ASSUME UNCHANGED <<disk, intent>> PROVE UNCHANGED Effective
  BY <1>1 DEF Effective
<1>2. ASSUME NEW p \in Procs, PrepareIntent(p)
      PROVE  /\ Coherent(Effective') /\ Promised!Follows(Effective, Effective')
             /\ UNCHANGED readerVars /\ readLocks = {}
  <2>1. intent = NoIntent /\ holder # NoOne
    BY <1>2, ConstantsAssumption DEF PrepareIntent, Published
  <2>3. Effective' = work
    BY <1>2, IntentIsWork
  <2>4. Effective = disk
    BY <2>1, EffectiveIsDisk
  <2> QED
    BY <1>2, <2>1, <2>3, <2>4 DEF PrepareIntent, WorkInvariant, LockInvariant
<1>3. ASSUME NEW p \in Procs, CommitFeatures(p)
      PROVE  /\ Coherent(Effective') /\ Promised!Follows(Effective, Effective')
             /\ UNCHANGED readerVars /\ readLocks = {}
  <2>1. intent = NoIntent /\ holder # NoOne
    BY <1>3, ConstantsAssumption DEF CommitFeatures, LockInvariant, WritePhases
  <2>2. Effective = disk /\ Effective' = work
    BY <1>3, <2>1 DEF CommitFeatures, Effective, Contents
  <2>3. \A c \in Cells \ {"stock_daily_features"} : work[c] = disk[c]
    BY <1>3 DEF CommitFeatures, OneFile, Changed
  <2>4. Coherent(work)
    BY <2>2, <2>3, NamedCells DEF Coherent, RecoverableCommit, RowCells
  <2>5. Promised!Follows(disk, work)
    BY <2>3, NamedCells DEF Promised!Follows, Contents, RowCells, RawCells, FactorCells
  <2> QED
    BY <1>3, <2>1, <2>2, <2>4, <2>5 DEF CommitFeatures, LockInvariant
<1>4. ASSUME NEW p \in Procs, CommitFile(p) \/ RecoverFile(p) PROVE UNCHANGED Effective
  BY <1>4, FilesKeepContent
<1>5. ASSUME NEW p \in Procs, RemoveIntent(p) PROVE UNCHANGED Effective
  <2>1. disk = Effective
    BY <1>5 DEF RemoveIntent, WorkInvariant
  <2> QED
    BY <1>5, <2>1 DEF RemoveIntent, Effective, Contents
<1>6. ASSUME NEW p \in Procs,
            \/ \E o \in Operations : BeginGuard(p, o)
            \/ Execute(p) \/ Derive(p) \/ CommitUnchanged(p) \/ Verify(p) \/ Finish(p)
            \/ Recover(p) \/ Refuse(p) \/ Stop(p)
      PROVE  UNCHANGED <<disk, intent>>
  BY <1>6 DEF BeginGuard, Execute, Derive, CommitUnchanged, Verify, Finish, Recover,
              Refuse, Stop
<1>7. ASSUME NEW r \in Readers, EnterRead(r) \/ ReadStep(r)
      PROVE  UNCHANGED <<disk, intent>>
  BY <1>7 DEF EnterRead, ReadStep, Pin, OpenSnapshot, CloseSnapshot
<1>8. CASE UNCHANGED vars
  BY <1>1, <1>8 DEF vars
<1> QED
  BY <1>1, <1>2, <1>3, <1>4, <1>5, <1>6, <1>7, <1>8 DEF Next, Step
-----------------------------------------------------------------------------
(* The lock excludes readers and second writers, and the phase says whether an
   intent is on disk. *)
LEMMA LockStep == TypeOK /\ PublicationInvariant /\ [Next]_vars => LockInvariant'
<1> SUFFICES ASSUME TypeOK, PublicationInvariant, [Next]_vars PROVE LockInvariant'
  OBVIOUS
<1> USE ConstantsAssumption
<1> USE DEF PublicationInvariant, LockInvariant, WritePhases, holderVars, readerVars,
            Published, Free
<1>1. ASSUME NEW p \in Procs,
            \/ \E o \in Operations : BeginGuard(p, o)
            \/ Execute(p) \/ Derive(p) \/ CommitFile(p) \/ Verify(p)
            \/ RemoveIntent(p) \/ Recover(p) \/ RecoverFile(p)
      PROVE  LockInvariant'
  BY <1>1 DEF BeginGuard, Execute, Derive, CommitFile, Verify, RemoveIntent, Recover,
              RecoverFile
<1>2. ASSUME NEW p \in Procs, PrepareIntent(p) PROVE LockInvariant'
  BY <1>2, IntentIsWork DEF PrepareIntent
<1>3. ASSUME NEW p \in Procs,
            CommitUnchanged(p) \/ CommitFeatures(p) \/ Finish(p) \/ Refuse(p) \/ Stop(p)
      PROVE  LockInvariant'
  BY <1>3 DEF CommitUnchanged, CommitFeatures, Finish, Refuse, Stop, Release
<1>4. ASSUME NEW r \in Readers, EnterRead(r) \/ ReadStep(r) PROVE LockInvariant'
  BY <1>4 DEF EnterRead, ReadStep, Pin, OpenSnapshot, CloseSnapshot
<1>5. CASE UNCHANGED vars
  BY <1>5 DEF vars
<1> QED
  BY <1>1, <1>2, <1>3, <1>4, <1>5 DEF Next, Step
-----------------------------------------------------------------------------
(* The revisions that a commit derives identify its rows. *)
LEMMA DeriveFollows ==
    ASSUME TypeOK, PublicationInvariant, NEW p \in Procs, Derive(p)
    PROVE  Coherent(work') /\ Promised!Follows(disk, work')
<1> USE DEF TypeOK, PublicationInvariant
<1>1. /\ \A c \in Cells : disk[c] \in Nat /\ work[c] \in Nat
      /\ work["stock_factors"] = disk["stock_factors"]
      /\ work["feature_raw"] = disk["feature_raw"]
      /\ work["feature_factor"] = disk["feature_factor"]
      /\ work["stock_raw"] # disk["stock_raw"] => Business # {}
  BY DEF Derive, WorkInvariant, Contents
<1>2. Coherent(disk)
  <2>1. intent = NoIntent
    BY DEF Derive, LockInvariant, WritePhases
  <2> QED
    BY <2>1, EffectiveIsDisk DEF RecoverableCommit
<1>3. \A c \in RowCells : work[c] # disk[c] => c \in Business
  BY NamedCells DEF Business, Changed
<1>4. CASE Business = {}
  <2>1. work' = work
    BY <1>4 DEF Derive
  <2>2. Coherent(work)
    BY <1>1, <1>2, <1>4 DEF Coherent
  <2>3. Promised!Follows(disk, work)
    BY <1>1, <1>3, <1>4, NamedCells DEF Promised!Follows
  <2> QED
    BY <2>1, <2>2, <2>3
<1>5. CASE Business # {}
  <2>1. work' = [work EXCEPT !["stock_raw"] = RawRevision,
                             !["stock_factors"] = FactorRevision,
                             !["feature_raw"] = RawRevision,
                             !["feature_factor"] = FactorRevision]
    BY <1>5 DEF Derive
  <2>2. /\ work'["stock_raw"] = RawRevision /\ work'["feature_raw"] = RawRevision
        /\ work'["stock_factors"] = FactorRevision
        /\ work'["feature_factor"] = FactorRevision
        /\ \A c \in RowCells : work'[c] = work[c]
    BY <2>1, NamedCells DEF Contents
  <2>3. /\ RawRevision >= disk["stock_raw"] + Bump(RawCells)
        /\ FactorRevision = disk["stock_factors"] + Bump(FactorCells)
    BY <1>1, NamedCells DEF RawRevision, FactorRevision, Bump
  <2>4. Bump(RawCells) \in {0, 1} /\ Bump(FactorCells) \in {0, 1}
    BY DEF Bump
  <2>5. /\ \A c \in RawCells : work[c] # disk[c] => Bump(RawCells) = 1
        /\ \A c \in FactorCells : work[c] # disk[c] => Bump(FactorCells) = 1
    BY <1>3, NamedCells DEF Bump
  <2>6. RawRevision \in Nat /\ FactorRevision \in Nat
    BY RevisionType
  <2>7. /\ RawRevision >= disk["stock_raw"] /\ FactorRevision >= disk["stock_factors"]
    BY <1>1, <2>3, <2>4, <2>6, NamedCells
  <2>8. ASSUME NEW c \in RawCells, work'[c] # disk[c]
        PROVE  RawRevision > disk["stock_raw"]
    BY <1>1, <2>2, <2>3, <2>5, <2>6, <2>8, NamedCells
  <2>9. ASSUME NEW c \in FactorCells, work'[c] # disk[c]
        PROVE  FactorRevision > disk["stock_factors"]
    BY <1>1, <2>2, <2>3, <2>5, <2>6, <2>9, NamedCells
  <2> QED
    BY <2>2, <2>7, <2>8, <2>9 DEF Coherent, Promised!Follows
<1> QED
  BY <1>4, <1>5

LEMMA WorkStep == TypeOK /\ PublicationInvariant /\ [Next]_vars => WorkInvariant'
<1> SUFFICES ASSUME TypeOK, PublicationInvariant, [Next]_vars PROVE WorkInvariant'
  OBVIOUS
<1> USE DEF TypeOK, PublicationInvariant, WorkInvariant, holderVars, readerVars
<1>1. ASSUME NEW p \in Procs, NEW o \in Operations, BeginGuard(p, o)
      PROVE  WorkInvariant'
  BY <1>1 DEF BeginGuard
<1>2. ASSUME NEW p \in Procs, Execute(p) PROVE WorkInvariant'
  <2>1. PICK rows \in [RowCells -> Values], moved \in BOOLEAN :
          /\ moved => op = "publish" /\ \E c \in RowCells : rows[c] # disk[c]
          /\ work' = [c \in Cells |->
                IF c \in RowCells THEN rows[c]
                ELSE IF c = "stock_raw" /\ moved THEN work[c] + 1 ELSE work[c]]
    BY <1>2 DEF Execute
  <2>2. work = disk /\ disk' = disk /\ phase' = "executed"
    BY <1>2 DEF Execute
  <2>3. \A c \in {"stock_factors", "feature_raw", "feature_factor"} : work'[c] = disk[c]
    BY <2>1, <2>2, NamedCells
  <2>4. work'["stock_raw"] = IF moved THEN disk["stock_raw"] + 1 ELSE disk["stock_raw"]
    BY <2>1, <2>2, NamedCells
  <2>5. moved => Business' # {}
    BY <2>1, <2>2, NamedCells DEF Business, Changed
  <2>6. disk["stock_raw"] \in Nat
    BY NamedCells DEF Contents
  <2> QED
    BY <2>2, <2>3, <2>4, <2>5, <2>6
<1>3. ASSUME NEW p \in Procs, Derive(p) PROVE WorkInvariant'
  BY <1>3, DeriveFollows DEF Derive
<1>4. ASSUME NEW p \in Procs, PrepareIntent(p) PROVE WorkInvariant'
  BY <1>4, IntentIsWork DEF PrepareIntent
<1>5. ASSUME NEW p \in Procs, CommitFile(p) PROVE WorkInvariant'
  BY <1>5, FilesKeepContent DEF CommitFile
<1>6. ASSUME NEW p \in Procs, Verify(p) PROVE WorkInvariant'
  <2>1. disk = Effective
    BY <1>6 DEF Verify, Effective, Contents
  <2> QED
    BY <1>6, <2>1 DEF Verify, Effective
<1>7. ASSUME NEW p \in Procs,
            \/ CommitUnchanged(p) \/ CommitFeatures(p) \/ RemoveIntent(p)
            \/ Finish(p) \/ Recover(p) \/ RecoverFile(p) \/ Refuse(p) \/ Stop(p)
      PROVE  WorkInvariant'
  BY <1>7 DEF CommitUnchanged, CommitFeatures, RemoveIntent, Finish, Recover,
              RecoverFile, Refuse, Stop, Release
<1>8. ASSUME NEW r \in Readers, EnterRead(r) \/ ReadStep(r) PROVE WorkInvariant'
  BY <1>8 DEF EnterRead, ReadStep, Pin, OpenSnapshot, CloseSnapshot, Business, Changed,
              Effective
<1>9. CASE UNCHANGED vars
  BY <1>9 DEF vars, Business, Changed, Effective
<1> QED
  BY <1>1, <1>2, <1>3, <1>4, <1>5, <1>6, <1>7, <1>8, <1>9 DEF Next, Step
-----------------------------------------------------------------------------
(* The files that are committed or recovered hold what is published. *)
LEMMA RecoverableStep ==
    TypeOK /\ PublicationInvariant /\ [Next]_vars => RecoverableCommit'
<1> SUFFICES ASSUME TypeOK, PublicationInvariant, [Next]_vars PROVE RecoverableCommit'
  OBVIOUS
<1> USE DEF TypeOK, PublicationInvariant, RecoverableCommit, holderVars, readerVars
<1>1. Coherent(Effective')
  BY ContentStep
<1> DEFINE Held == phase \in {"committing", "recovering"} =>
                     \A n \in 1..(next - 1) : \A c \in CellsOf[FileAt[n]] :
                         disk[c] = Effective[c]
<1>2. ASSUME NEW p \in Procs, CommitFile(p) \/ RecoverFile(p) PROVE Held'
  <2>1. UNCHANGED Effective
    BY <1>2, FilesKeepContent
  <2>2. next \in 1..3 /\ next' = next + 1 /\ phase \in {"committing", "recovering"}
    BY <1>2 DEF CommitFile, RecoverFile
  <2>3. \A c \in CellsOf[FileAt[next]] : disk'[c] = Effective[c]
    <3>1. CellsOf[FileAt[next]] \subseteq Cells
      BY <2>2, FileCells
    <3>2. CASE CommitFile(p)
      BY <3>1, <3>2 DEF CommitFile, WorkInvariant
    <3>3. CASE RecoverFile(p)
      BY <3>1, <3>3 DEF RecoverFile, Effective, LockInvariant
    <3> QED
      BY <1>2, <3>2, <3>3
  <2>4. \A c \in Cells : disk[c] = Effective[c] => disk'[c] = Effective[c]
    <3>1. \A c \in Cells : c \notin CellsOf[FileAt[next]] => disk'[c] = disk[c]
      BY <1>2 DEF CommitFile, RecoverFile
    <3> QED
      BY <3>1, <2>3
  <2>5. ASSUME NEW n \in 1..(next' - 1), NEW c \in CellsOf[FileAt[n]]
        PROVE  disk'[c] = Effective[c]
    <3>1. n = next \/ n \in 1..(next - 1)
      BY <2>2
    <3>2. n \in 1..3
      BY <2>2
    <3> QED
      BY <2>2, <2>3, <2>4, <3>1, <3>2, FileCells
  <2> QED
    BY <2>1, <2>5
<1>3. ASSUME NEW p \in Procs, PrepareIntent(p) \/ Recover(p) PROVE Held'
  <2>1. next' = 1
    BY <1>3 DEF PrepareIntent, Recover
  <2> QED
    BY <2>1
<1>4. ASSUME NEW p \in Procs,
            \/ \E o \in Operations : BeginGuard(p, o)
            \/ Execute(p) \/ Derive(p) \/ CommitUnchanged(p) \/ CommitFeatures(p)
            \/ Verify(p) \/ RemoveIntent(p) \/ Finish(p) \/ Refuse(p) \/ Stop(p)
      PROVE  Held'
  <2>1. phase' \notin {"committing", "recovering"}
    BY <1>4 DEF BeginGuard, Execute, Derive, CommitUnchanged, CommitFeatures, Verify,
                RemoveIntent, Finish, Refuse, Stop, Release
  <2> QED
    BY <2>1
<1>5. ASSUME NEW r \in Readers, EnterRead(r) \/ ReadStep(r) PROVE Held'
  BY <1>5 DEF EnterRead, ReadStep, Pin, OpenSnapshot, CloseSnapshot, Effective
<1>6. CASE UNCHANGED vars
  BY <1>6 DEF vars, Effective
<1>7. Held'
  BY <1>2, <1>3, <1>4, <1>5, <1>6 DEF Next, Step
<1> QED
  BY <1>1, <1>7
-----------------------------------------------------------------------------
(* A process acts when no reader holds the lock, and touches no reader; a
   reader touches neither the files nor the intent. *)
LEMMA WhoActs ==
    ASSUME TypeOK, PublicationInvariant, [Next]_vars
    PROVE  \/ readLocks = {} /\ UNCHANGED readerVars
           \/ /\ UNCHANGED <<disk, intent, Effective>>
              /\ UNCHANGED readerVars \/ \E r \in Readers : EnterRead(r) \/ ReadStep(r)
<1> USE ConstantsAssumption DEF PublicationInvariant, LockInvariant, readerVars, holderVars
<1>1. ASSUME NEW p \in Procs, Step(p) \/ Stop(p)
      PROVE  readLocks = {} /\ UNCHANGED readerVars
  <2>1. holder = p
    BY <1>1 DEF Step, Stop, Execute, Derive, CommitUnchanged, PrepareIntent, CommitFile,
                CommitFeatures, Verify, RemoveIntent, Finish, RecoverFile, Refuse
  <2>2. UNCHANGED readerVars
    BY <1>1 DEF Step, Stop, Execute, Derive, CommitUnchanged, PrepareIntent, CommitFile,
                CommitFeatures, Verify, RemoveIntent, Finish, RecoverFile, Refuse
  <2> QED
    BY <2>1, <2>2
<1>2. ASSUME NEW p \in Procs, Recover(p) \/ \E o \in Operations : BeginGuard(p, o)
      PROVE  readLocks = {} /\ UNCHANGED readerVars
  BY <1>2 DEF Recover, BeginGuard, Free
<1>3. ASSUME NEW r \in Readers, EnterRead(r) \/ ReadStep(r)
      PROVE  UNCHANGED <<disk, intent, Effective>>
  BY <1>3 DEF EnterRead, ReadStep, Pin, OpenSnapshot, CloseSnapshot, Effective
<1>4. CASE UNCHANGED vars
  BY <1>4 DEF vars, Effective
<1> QED
  BY <1>1, <1>2, <1>3, <1>4 DEF Next

LEMMA SnapshotStep ==
    TypeOK /\ PublicationInvariant /\ [Next]_vars => SnapshotInvariant'
<1> SUFFICES ASSUME TypeOK, PublicationInvariant, [Next]_vars PROVE SnapshotInvariant'
  OBVIOUS
<1> USE DEF PublicationInvariant, SnapshotInvariant, OpenReaders, Published
<1>0. TypeOK'
  BY TypeStep
<1>1. CASE readLocks = {} /\ UNCHANGED readerVars
  <2>1. Effective' \in Contents /\ Effective \in Contents
    BY <1>0, EffectiveType DEF TypeOK, Effective, Contents
  <2>2. UNCHANGED Effective \/ Promised!Follows(Effective, Effective')
    BY ContentStep
  <2>3. ASSUME NEW r \in OpenReaders PROVE Promised!Follows(snapshot[r], Effective')
    <3>1. snapshot[r] \in Contents /\ Promised!Follows(snapshot[r], Effective)
      BY <2>3 DEF TypeOK
    <3> QED
      BY <2>1, <2>2, <3>1, FollowsTransitive
  <2> QED
    BY <1>1, <2>3 DEF readerVars
<1>2. CASE UNCHANGED <<disk, intent, Effective>> /\ UNCHANGED readerVars
  BY <1>2 DEF readerVars
<1>3. ASSUME UNCHANGED <<disk, intent, Effective>>, NEW r \in Readers, EnterRead(r)
      PROVE  SnapshotInvariant'
  <2>1. [c \in Cells |-> 0] # NoSnapshot
    BY AbsenceAssumption DEF Contents
  <2>2. /\ pinning' = [pinning EXCEPT ![r] = 1] /\ readLocks' = readLocks \cup {r}
        /\ snapshot' = [snapshot EXCEPT ![r] = [c \in Cells |-> 0]]
        /\ intent = NoIntent
    BY <1>3 DEF EnterRead
  <2> QED
    BY <1>3, <2>1, <2>2 DEF TypeOK
<1>4. ASSUME UNCHANGED <<disk, intent, Effective>>, NEW r \in Readers, Pin(r)
      PROVE  SnapshotInvariant'
  <2> DEFINE pinned == [c \in Cells |-> IF c \in CellsOf[PinAt[pinning[r]]]
                                        THEN disk[c] ELSE snapshot[r][c]]
  <2>1. /\ pinning[r] \in 1..3 /\ r \in readLocks /\ readLocks' = readLocks
        /\ snapshot'[r] = pinned /\ pinning'[r] = pinning[r] + 1
        /\ \A s \in Readers \ {r} : snapshot'[s] = snapshot[s] /\ pinning'[s] = pinning[s]
    BY <1>4 DEF Pin, TypeOK
  <2>2. pinned \in Contents
    BY <2>1 DEF TypeOK, Contents
  <2>3. pinned # NoSnapshot
    BY <2>2, AbsenceAssumption
  <2>4. ASSUME NEW n \in 1..(pinning'[r] - 1), NEW c \in CellsOf[PinAt[n]]
        PROVE  pinned[c] = disk[c]
    <3>1. n = pinning[r] \/ n \in 1..(pinning[r] - 1)
      BY <2>1
    <3>2. n \in 1..3
      BY <2>1
    <3>3. c \in Cells
      BY <3>2, FileCells
    <3> QED
      BY <2>1, <3>1, <3>3
  <2> QED
    BY <1>4, <2>1, <2>3, <2>4
<1>5. ASSUME UNCHANGED <<disk, intent, Effective>>, NEW r \in Readers, OpenSnapshot(r)
      PROVE  SnapshotInvariant'
  <2>1. snapshot[r] = disk /\ Effective = disk
    <3>1. r \in readLocks /\ pinning[r] = 4 /\ intent = NoIntent
      BY <1>5 DEF OpenSnapshot
    <3>2. \A n \in 1..3 : \A c \in CellsOf[PinAt[n]] : snapshot[r][c] = disk[c]
      BY <3>1
    <3>3. \A c \in Cells : snapshot[r][c] = disk[c]
      BY <3>2, FileCells
    <3> QED
      BY <3>1, <3>3, EffectiveIsDisk DEF TypeOK, Contents
  <2>2. Promised!Follows(snapshot[r], Effective)
    BY <2>1, FollowsItself DEF TypeOK
  <2> QED
    BY <1>5, <2>2 DEF OpenSnapshot
<1>6. ASSUME UNCHANGED <<disk, intent, Effective>>, NEW r \in Readers, CloseSnapshot(r)
      PROVE  SnapshotInvariant'
  BY <1>6 DEF CloseSnapshot, TypeOK
<1> QED
  BY <1>1, <1>2, <1>3, <1>4, <1>5, <1>6, WhoActs DEF ReadStep
-----------------------------------------------------------------------------
LEMMA InitInvariant == Init => PublicationInvariant
<1> SUFFICES ASSUME Init PROVE PublicationInvariant
  OBVIOUS
<1>1. Effective = disk
  BY InitType, EffectiveIsDisk DEF Init
<1>2. LockInvariant /\ WorkInvariant
  BY DEF Init, LockInvariant, WorkInvariant, WritePhases
<1>3. RecoverableCommit
  BY <1>1, NamedCells DEF Init, RecoverableCommit, Coherent
<1>4. SnapshotInvariant
  BY DEF Init, SnapshotInvariant, OpenReaders
<1> QED
  BY <1>2, <1>3, <1>4 DEF PublicationInvariant

(* Every reachable state is typed and satisfies the inductive invariant: the
   lock, the intent, the open transaction, the files and the pinned snapshots
   agree. *)
THEOREM InvariantHolds == Spec => [](TypeOK /\ PublicationInvariant)
<1>1. TypeOK /\ PublicationInvariant /\ [Next]_vars => (TypeOK /\ PublicationInvariant)'
  BY TypeStep, LockStep, WorkStep, RecoverableStep, SnapshotStep DEF PublicationInvariant
<1> QED
  BY <1>1, InitType, InitInvariant, PTL DEF Spec

(* Every variable keeps its type. *)
THEOREM TypeCorrect == Spec => []TypeOK
  BY InvariantHolds, PTL

(* A failed or crashed publication never leaves incoherent stores without the
   intent that repairs them. *)
THEOREM NeverStuck == Spec => []NeverWedged
<1>1. TypeOK /\ PublicationInvariant => NeverWedged
  BY EffectiveIsDisk DEF PublicationInvariant, RecoverableCommit, NeverWedged, Published
<1> QED
  BY <1>1, InvariantHolds, PTL

(* What is published is coherent at every point of a commit or of a recovery,
   and the files done so far hold it. *)
THEOREM CommitIsRecoverable == Spec => []RecoverableCommit
<1>1. TypeOK /\ PublicationInvariant => RecoverableCommit
  BY DEF PublicationInvariant
<1> QED
  BY <1>1, InvariantHolds, PTL

(* A revision identifies its rows, for a reader that kept them across any number
   of later publications. *)
THEOREM RevisionIdentifiesRows == Spec => []SameRevisionSameRows
<1>1. TypeOK /\ PublicationInvariant => SameRevisionSameRows
  <2> SUFFICES ASSUME TypeOK, PublicationInvariant, NEW r \in OpenReaders
               PROVE  /\ snapshot[r]["stock_raw"] = Effective["stock_raw"] =>
                            \A c \in RawCells : snapshot[r][c] = Effective[c]
                      /\ snapshot[r]["stock_factors"] = Effective["stock_factors"] =>
                            \A c \in FactorCells : snapshot[r][c] = Effective[c]
    BY DEF SameRevisionSameRows
  <2>1. snapshot[r] \in Contents /\ Promised!Follows(snapshot[r], Effective)
    BY DEF OpenReaders, TypeOK, PublicationInvariant, SnapshotInvariant
  <2>2. Effective["stock_raw"] \in Nat /\ Effective["stock_factors"] \in Nat
    BY EffectiveType, NamedCells DEF Contents
  <2> QED
    BY <2>1, <2>2 DEF Promised!Follows
<1> QED
  BY <1>1, InvariantHolds, PTL
-----------------------------------------------------------------------------
(* What a reader may use: nothing before it has let its lock go. *)
Usable == [r \in Readers |-> IF r \in readLocks THEN NoSnapshot ELSE snapshot[r]]

LEMMA OpenRefines ==
    ASSUME TypeOK, PublicationInvariant, NEW r \in Readers, OpenSnapshot(r)
    PROVE  Promised!Open(r)
<1>1. r \in readLocks /\ pinning[r] = 4 /\ intent = NoIntent
  BY DEF OpenSnapshot, PublicationInvariant, SnapshotInvariant, Published
<1>2. \A c \in Cells : snapshot[r][c] = disk[c]
  <2>1. \A n \in 1..3 : \A c \in CellsOf[PinAt[n]] : snapshot[r][c] = disk[c]
    BY <1>1 DEF PublicationInvariant, SnapshotInvariant
  <2> QED
    BY <2>1, FileCells
<1>3. snapshot[r] # NoSnapshot
  BY <1>1 DEF PublicationInvariant, SnapshotInvariant
<1>4. snapshot[r] = Effective
  BY <1>1, <1>2, <1>3, EffectiveIsDisk DEF TypeOK, Contents
<1>5. UNCHANGED Effective
  BY DEF OpenSnapshot, Effective
<1>6. Usable[r] = NoSnapshot /\ Usable' = [Usable EXCEPT ![r] = Effective]
  BY <1>1, <1>4 DEF OpenSnapshot, Usable
<1> QED
  BY <1>5, <1>6 DEF Promised!Open, Usable

LEMMA CloseRefines ==
    ASSUME NEW r \in Readers, TypeOK, CloseSnapshot(r)
    PROVE  Promised!Close(r)
<1>1. UNCHANGED Effective
  BY DEF CloseSnapshot, Effective
<1>2. Usable' = [Usable EXCEPT ![r] = NoSnapshot]
  BY DEF CloseSnapshot, Usable, TypeOK
<1> QED
  BY <1>1, <1>2 DEF Promised!Close, Usable

(* The three stores implement one pool: whatever fails, crashes or is recovered,
   readers see whole publications, in order, and never a part of one. *)
THEOREM Refinement == Spec => ImplementsPublishedPool
<1>1. Init => Promised!Init
  <2> SUFFICES ASSUME Init PROVE Promised!Init
    OBVIOUS
  <2>1. TypeOK /\ Effective \in Contents /\ Coherent(Effective)
    BY InitType, InitInvariant, EffectiveType DEF PublicationInvariant, RecoverableCommit
  <2> QED
    BY <2>1 DEF Init, Promised!Init, Promised!Contents, Contents, Promised!Coherent,
                Coherent
<1>2. TypeOK /\ PublicationInvariant /\ [Next]_vars => [Promised!Next]_(Promised!poolVars)
  <2> SUFFICES ASSUME TypeOK, PublicationInvariant, [Next]_vars
               PROVE  [Promised!Next]_(Promised!poolVars)
    OBVIOUS
  <2>1. CASE readLocks = {} /\ UNCHANGED readerVars
    <3>1. UNCHANGED Usable
      BY <2>1 DEF readerVars, Usable
    <3>2. CASE UNCHANGED Effective
      BY <3>1, <3>2 DEF Promised!poolVars, Usable
    <3>3. CASE Coherent(Effective') /\ Promised!Follows(Effective, Effective')
      <4>1. Effective' \in Contents
        BY TypeStep, EffectiveType DEF TypeOK, Effective, Contents
      <4> QED
        BY <3>1, <3>3, <4>1 DEF Promised!Next, Promised!Publish, Promised!Contents,
           Contents, Promised!Coherent, Coherent, Usable
    <3> QED
      BY <3>2, <3>3, ContentStep
  <2>2. CASE UNCHANGED <<disk, intent, Effective>> /\ UNCHANGED readerVars
    BY <2>2 DEF readerVars, Promised!poolVars
  <2>3. ASSUME UNCHANGED Effective, NEW r \in Readers, EnterRead(r) \/ Pin(r)
        PROVE  UNCHANGED Promised!poolVars
    <3>1. UNCHANGED Usable
      BY <2>3 DEF EnterRead, Pin, Usable, TypeOK
    <3> QED
      BY <2>3, <3>1 DEF Promised!poolVars, Usable
  <2>4. ASSUME NEW r \in Readers, OpenSnapshot(r) \/ CloseSnapshot(r)
        PROVE  Promised!Next
    BY <2>4, OpenRefines, CloseRefines DEF Promised!Next
  <2> QED
    BY <2>1, <2>2, <2>3, <2>4, WhoActs DEF ReadStep
<1> QED
  BY <1>1, <1>2, InvariantHolds, PTL DEF Spec, ImplementsPublishedPool, Promised!Spec
=============================================================================
