----------------------------- MODULE Publication -----------------------------
(***************************************************************************)
(* The publication protocol of the three canonical SQLite stores:          *)
(* src/aspool/sqlite_canonical.py (the writing connection),                *)
(* sqlite_publication.py (the durable intent and its recovery) and         *)
(* sqlite_stock_store.py (the pinned snapshot of a reader).                *)
(*                                                                         *)
(* A writer works in one transaction over three WAL files, which SQLite    *)
(* commits one file after the other.  So that a crash in between can be    *)
(* repaired, commit() first writes the changed rows durably to             *)
(* pending-publication.json and removes it when all files hold them;       *)
(* recover_publication() rolls such an intent forward.  A reader pins a    *)
(* snapshot of each file under the shared pool lock, then lets the lock    *)
(* go.  An operation that changes features.sqlite only commits without an  *)
(* intent.                                                                 *)
(*                                                                         *)
(* A cell is all the rows of the tables that the protocol treats alike.    *)
(* Its value stands for those rows with their updated_at.  The revisions   *)
(* in the state tables are cells of their own.                             *)
(***************************************************************************)
EXTENDS Naturals, FiniteSets

CONSTANTS
    Procs,        \* processes that write or recover
    Faulty,       \* those that may raise or exit between two steps
    Readers,      \* stock_connection(read_only=True) contexts
    Values,       \* the values of a row cell
    MaxRevision,  \* bound: no writer begins at this revision
    NoOne, NoIntent, NoSnapshot

ASSUME ConstantsAssumption ==
    /\ Faulty \subseteq Procs
    /\ Values \subseteq Nat
    /\ MaxRevision \in Nat
    /\ NoOne \notin Procs

(* FILES, in the order of ATTACH: SQLite and the recovery commit in it. *)
FileAt == [n \in 1..3 |-> IF n = 1 THEN "main"
                          ELSE IF n = 2 THEN "features" ELSE "adjustments"]

MainCells       == {"daily_bars", "stock_raw"}
FeatureCells    == {"stock_daily_features", "feature_raw", "feature_factor"}
AdjustmentCells == {"stock_factor_anchors", "stock_adjustment_factors",
                    "stock_factors"}
CellsOf == [f \in {"main", "features", "adjustments"} |->
               IF f = "main" THEN MainCells
               ELSE IF f = "features" THEN FeatureCells ELSE AdjustmentCells]
Cells    == MainCells \cup FeatureCells \cup AdjustmentCells
RowCells == {"daily_bars", "stock_daily_features", "stock_factor_anchors",
             "stock_adjustment_factors"}
RawCells    == {"daily_bars", "stock_factor_anchors"}
FactorCells == {"stock_adjustment_factors"}

(* daily_update, board_update, factor_bootstrap, six_dimension_init and
   qfq_audit publish; summary_repair and summary_recompute publish summaries
   only; six_dimension_extend, st_default_repair and daily_state_normalize
   commit one file. *)
Operations == {"publish", "summary", "single_file"}

WritePhases   == {"open", "executed", "derived"}
CommitPhases  == {"committing", "verified", "removed"}
RecoverPhases == {"recovering"}
Phases == {"idle"} \cup WritePhases \cup CommitPhases \cup RecoverPhases

VARIABLES
    holder,     \* the process that holds LOCK_EX on the pool, or NoOne
    readLocks,  \* the readers that hold LOCK_SH
    disk,       \* the committed content of the three files
    intent,     \* pending-publication.json: new values of the changed cells
    phase,      \* where the holder is in its transaction or recovery
    op,         \* the canonical operation of the holder
    work,       \* the content its open transaction sees
    next,       \* the next file to commit, an index into FileAt
    snapshot,   \* the cells a reader has pinned, or NoSnapshot
    pinning     \* the next file a reader pins, 4 when it holds all three

holderVars == <<holder, phase, op, work, next>>
readerVars == <<readLocks, snapshot, pinning>>
vars == <<holderVars, readerVars, disk, intent>>

Contents == [Cells -> Nat]

ASSUME AbsenceAssumption ==
    /\ NoSnapshot \notin Contents
    /\ \A changed \in SUBSET Cells : NoIntent \notin [changed -> Nat]

TypeOK ==
    /\ holder \in Procs \cup {NoOne}
    /\ readLocks \subseteq Readers
    /\ disk \in Contents
    /\ intent # NoIntent => DOMAIN intent \subseteq Cells
                         /\ \A c \in DOMAIN intent : intent[c] \in Nat
    /\ phase \in Phases
    /\ op \in Operations
    /\ work \in Contents
    /\ next \in 1..4
    /\ snapshot \in [Readers -> Contents \cup {NoSnapshot}]
    /\ pinning \in [Readers -> 1..4]

(* The pool after init: three empty coherent stores of layout 3. *)
Init ==
    /\ holder = NoOne
    /\ readLocks = {}
    /\ disk = [c \in Cells |-> 0]
    /\ intent = NoIntent
    /\ phase = "idle"
    /\ op = "publish"
    /\ work = disk
    /\ next = 1
    /\ snapshot = [r \in Readers |-> NoSnapshot]
    /\ pinning = [r \in Readers |-> 1]

-----------------------------------------------------------------------------
(* The lock and what is decided under it. *)

Free == holder = NoOne /\ readLocks = {}

(* assert_coherent(): the features were derived from the current revisions. *)
Coherent(c) ==
    /\ c["feature_raw"] = c["stock_raw"]
    /\ c["feature_factor"] = c["stock_factors"]

(* assert_published(), of the intent. *)
Published == intent = NoIntent

(* The lock is let go and the transaction, if one is open, is gone. *)
Release ==
    /\ holder' = NoOne
    /\ phase' = "idle"
    /\ op' = "publish"
    /\ work' = disk'
    /\ next' = 1

(* _changed_rows(): what the transaction changes, by value. *)
Changed == {c \in Cells : work[c] # disk[c]}

(* _coherent_states() looks at the rows that are not state. *)
Business == Changed \cap RowCells

Bump(cells) == IF Business \cap cells = {} THEN 0 ELSE 1

(* The revision a publication ends with: a calculator may have moved it. *)
RawRevision ==
    LET baseline == disk["stock_raw"] + Bump(RawCells)
    IN  IF work["stock_raw"] > baseline THEN work["stock_raw"] ELSE baseline

(* Fault: the revision moves the wrong way. *)
FactorRevisionBackwards == work["stock_factors"] - Bump(FactorCells)

FactorRevision == work["stock_factors"] + Bump(FactorCells)

(* The tables that summary maintenance may change, and those that a historical extension
   of one file may.  They are different tables of the same file, features.sqlite: one
   cell here, because no property tells them apart. *)
InScope == op = "summary" => Business \subseteq {"stock_daily_features"}

(* Fault: an operation on one file is not held to it. *)
OneFileUnchecked == TRUE

OneFile == Changed \subseteq {"stock_daily_features"}

-----------------------------------------------------------------------------
(* The writing connection. *)

(* BEGIN of a canonical operation: _begin_guard() takes the pool lock and
   refuses an unfinished publication and incoherent stores. *)
BeginGuard(p, o) ==
    /\ Free
    /\ Published
    /\ Coherent(disk)
    /\ disk["stock_raw"] < MaxRevision
    /\ disk["stock_factors"] < MaxRevision
    /\ holder' = p
    /\ phase' = "open"
    /\ op' = o
    /\ work' = disk
    /\ UNCHANGED <<next, disk, intent, readerVars>>

(* The statements of a calculator.  apply_daily_changes() moves the raw
   revision itself when it changed any row. *)
Execute(p) ==
    /\ holder = p
    /\ phase = "open"
    /\ \E rows \in [RowCells -> Values], moved \in BOOLEAN :
          /\ moved => op = "publish" /\ \E c \in RowCells : rows[c] # disk[c]
          /\ work' = [c \in Cells |->
                IF c \in RowCells THEN rows[c]
                ELSE IF c = "stock_raw" /\ moved THEN work[c] + 1 ELSE work[c]]
    /\ phase' = "executed"
    /\ UNCHANGED <<holder, op, next, disk, intent, readerVars>>

(* Fault: the features keep the factor revision they had. *)
DeriveForgetsFactors(p) ==
    /\ holder = p
    /\ phase = "executed"
    /\ op # "single_file"
    /\ InScope
    /\ work' = IF Business = {} THEN work
               ELSE [work EXCEPT !["stock_raw"] = RawRevision,
                                 !["stock_factors"] = FactorRevision,
                                 !["feature_raw"] = RawRevision]
    /\ phase' = "derived"
    /\ UNCHANGED <<holder, op, next, disk, intent, readerVars>>

(* commit() starts: refresh_factor_lineage() changes rows that are changed
   already, _coherent_states() moves the revisions with the rows. *)
Derive(p) ==
    /\ holder = p
    /\ phase = "executed"
    /\ op # "single_file"
    /\ InScope
    /\ work' = IF Business = {} THEN work
               ELSE [work EXCEPT !["stock_raw"] = RawRevision,
                                 !["stock_factors"] = FactorRevision,
                                 !["feature_raw"] = RawRevision,
                                 !["feature_factor"] = FactorRevision]
    /\ phase' = "derived"
    /\ UNCHANGED <<holder, op, next, disk, intent, readerVars>>

(* Nothing changed: a plain commit, without an intent. *)
CommitUnchanged(p) ==
    /\ holder = p
    /\ phase = "derived"
    /\ Changed = {}
    /\ UNCHANGED <<disk, intent, readerVars>>
    /\ Release

(* Fault: the intent holds the rows and leaves the state tables out. *)
PrepareIntentOfRows(p) ==
    /\ holder = p
    /\ phase = "derived"
    /\ Changed # {}
    /\ Published
    /\ intent' = [c \in Business |-> work[c]]
    /\ phase' = "committing"
    /\ next' = 1
    /\ UNCHANGED <<holder, op, work, disk, readerVars>>

(* prepare_intent(): from here on the publication will take effect. *)
PrepareIntent(p) ==
    /\ holder = p
    /\ phase = "derived"
    /\ Changed # {}
    /\ Published
    /\ intent' = [c \in Changed |-> work[c]]
    /\ phase' = "committing"
    /\ next' = 1
    /\ UNCHANGED <<holder, op, work, disk, readerVars>>

(* SQLite commits the next WAL file of the transaction. *)
CommitFile(p) ==
    /\ holder = p
    /\ phase = "committing"
    /\ next \in 1..3
    /\ disk' = [c \in Cells |-> IF c \in CellsOf[FileAt[next]]
                                THEN work[c] ELSE disk[c]]
    /\ next' = next + 1
    /\ UNCHANGED <<holder, phase, op, work, intent, readerVars>>

(* commit() of an operation on features.sqlite alone: one WAL file, no intent. *)
CommitFeatures(p) ==
    /\ holder = p
    /\ phase = "executed"
    /\ op = "single_file"
    /\ OneFile
    /\ disk' = work
    /\ Release
    /\ UNCHANGED <<intent, readerVars>>

(* complete_intent(), first half: verify_intent() compares every row. *)
Verify(p) ==
    /\ holder = p
    /\ phase \in {"committing", "recovering"}
    /\ next = 4
    /\ \A c \in DOMAIN intent : disk[c] = intent[c]
    /\ phase' = "verified"
    /\ UNCHANGED <<holder, op, work, next, disk, intent, readerVars>>

(* Fault: the intent is verified and stays. *)
RemoveIntentForgotten(p) ==
    /\ holder = p
    /\ phase = "verified"
    /\ phase' = "removed"
    /\ UNCHANGED <<holder, op, work, next, intent, disk, readerVars>>

(* complete_intent(), second half: durable_remove() of the intent. *)
RemoveIntent(p) ==
    /\ holder = p
    /\ phase = "verified"
    /\ intent' = NoIntent
    /\ phase' = "removed"
    /\ UNCHANGED <<holder, op, work, next, disk, readerVars>>

Finish(p) ==
    /\ holder = p
    /\ phase = "removed"
    /\ UNCHANGED <<disk, intent, readerVars>>
    /\ Release

(* recover_publication(): an intent is found under the write lock. *)
Recover(p) ==
    /\ Free
    /\ ~Published
    /\ holder' = p
    /\ phase' = "recovering"
    /\ next' = 1
    /\ UNCHANGED <<op, work, disk, intent, readerVars>>

(* The rows of the intent in the next file, in a transaction of that file. *)
RecoverFile(p) ==
    /\ holder = p
    /\ phase = "recovering"
    /\ next \in 1..3
    /\ disk' = [c \in Cells |->
                  IF c \in DOMAIN intent \cap CellsOf[FileAt[next]]
                  THEN intent[c] ELSE disk[c]]
    /\ next' = next + 1
    /\ UNCHANGED <<holder, phase, op, work, intent, readerVars>>

(* WRITE_SCOPE_REQUIRED: the changes are not those of the operation. *)
Refuse(p) ==
    /\ holder = p
    /\ phase = "executed"
    /\ IF op = "single_file" THEN ~OneFile ELSE ~InScope
    /\ UNCHANGED <<disk, intent, readerVars>>
    /\ Release

(* An exception, or the process exits: the open transaction is rolled back and
   the lock is let go; files committed so far and the intent stay. *)
Stop(p) ==
    /\ p \in Faulty
    /\ holder = p
    /\ UNCHANGED <<disk, intent, readerVars>>
    /\ Release

-----------------------------------------------------------------------------
(* A read-only stock_connection(). *)

(* assert_coherent() reads main, adjustments, features: each first read pins
   the snapshot of its file. *)
PinAt == [n \in 1..3 |-> IF n = 1 THEN "main"
                         ELSE IF n = 2 THEN "adjustments" ELSE "features"]

(* Fault: the publication is checked before the lock is taken only, so an
   intent may have been left behind since. *)
EnterReadUnchecked(r) ==
    /\ holder = NoOne
    /\ snapshot[r] = NoSnapshot
    /\ readLocks' = readLocks \cup {r}
    /\ snapshot' = [snapshot EXCEPT ![r] = [c \in Cells |-> 0]]
    /\ pinning' = [pinning EXCEPT ![r] = 1]
    /\ UNCHANGED <<holderVars, disk, intent>>

(* The shared lock, and assert_published() once more under it. *)
EnterRead(r) ==
    /\ holder = NoOne
    /\ snapshot[r] = NoSnapshot
    /\ Published
    /\ readLocks' = readLocks \cup {r}
    /\ snapshot' = [snapshot EXCEPT ![r] = [c \in Cells |-> 0]]
    /\ pinning' = [pinning EXCEPT ![r] = 1]
    /\ UNCHANGED <<holderVars, disk, intent>>

Pin(r) ==
    /\ r \in readLocks
    /\ pinning[r] \in 1..3
    /\ snapshot' = [snapshot EXCEPT ![r] =
          [c \in Cells |-> IF c \in CellsOf[PinAt[pinning[r]]]
                           THEN disk[c] ELSE snapshot[r][c]]]
    /\ pinning' = [pinning EXCEPT ![r] = @ + 1]
    /\ UNCHANGED <<holderVars, readLocks, disk, intent>>

(* Coherent: the reader lets the lock go and keeps the pinned snapshots. *)
OpenSnapshot(r) ==
    /\ r \in readLocks
    /\ pinning[r] = 4
    /\ Coherent(snapshot[r])
    /\ readLocks' = readLocks \ {r}
    /\ UNCHANGED <<holderVars, snapshot, pinning, disk, intent>>

(* The context ends: normally, with DERIVED_NOT_READY, or with the process. *)
CloseSnapshot(r) ==
    /\ snapshot[r] # NoSnapshot
    /\ readLocks' = readLocks \ {r}
    /\ snapshot' = [snapshot EXCEPT ![r] = NoSnapshot]
    /\ pinning' = [pinning EXCEPT ![r] = 1]
    /\ UNCHANGED <<holderVars, disk, intent>>

-----------------------------------------------------------------------------
Step(p) ==
    \/ Execute(p) \/ Derive(p) \/ CommitUnchanged(p) \/ PrepareIntent(p)
    \/ CommitFile(p) \/ CommitFeatures(p) \/ Verify(p) \/ RemoveIntent(p)
    \/ Finish(p) \/ RecoverFile(p) \/ Refuse(p)

ReadStep(r) == Pin(r) \/ OpenSnapshot(r) \/ CloseSnapshot(r)

Next ==
    \/ \E p \in Procs :
          \/ \E o \in Operations : BeginGuard(p, o)
          \/ Recover(p)
          \/ Step(p)
          \/ Stop(p)
    \/ \E r \in Readers : EnterRead(r) \/ ReadStep(r)

Spec == Init /\ [][Next]_vars

(* What is begun under a lock ends, with success or not; readers let their
   locks go; and recovery is called again until it succeeds. *)
FairSpec ==
    /\ Spec
    /\ \A p \in Procs : WF_vars(Step(p) \/ Stop(p))
    /\ \A p \in Procs \ Faulty : SF_vars(Recover(p))
    /\ \A r \in Readers : WF_vars(ReadStep(r))

-----------------------------------------------------------------------------
(* Properties. *)

(* The content of the pool once the intent, if there is one, is rolled
   forward: what the pool publishes, whatever its files hold at the moment. *)
Effective ==
    [c \in Cells |-> IF intent # NoIntent /\ c \in DOMAIN intent
                     THEN intent[c] ELSE disk[c]]

OpenReaders == {r \in Readers \ readLocks : snapshot[r] # NoSnapshot}

(* A refused publication leaves no trace: when no intent is pending and no
   process works, the stores are coherent.  Every reader and every writer
   refuses incoherent stores, and nothing but an intent repairs them. *)
NeverWedged == Published /\ holder = NoOne => Coherent(disk)

(* The files differ from what is published only in cells of the intent: a
   crash at any point of a commit or of a recovery can be rolled forward, and
   outside a commit of one file no file runs ahead of the intent. *)
RecoverableCommit ==
    /\ Coherent(Effective)
    /\ phase \in {"committing", "recovering"} =>
          \A n \in 1..(next - 1) : \A c \in CellsOf[FileAt[n]] :
              disk[c] = Effective[c]

(* Rows a consumer has read under a revision are still the rows of that
   revision: raw bars and anchors under the raw revision, factors under the
   factor revision.  A result keyed by revision is never served for changed
   rows, after any number of crashes and recoveries. *)
SameRevisionSameRows ==
    \A r \in OpenReaders :
        /\ snapshot[r]["stock_raw"] = Effective["stock_raw"] =>
              \A c \in RawCells : snapshot[r][c] = Effective[c]
        /\ snapshot[r]["stock_factors"] = Effective["stock_factors"] =>
              \A c \in FactorCells : snapshot[r][c] = Effective[c]

(* The three stores with their intent implement one pool that changes by whole
   publications, whose snapshots are whole. *)
Promised == INSTANCE PublishedPool WITH
    content  <- Effective,
    snapshot <- [r \in Readers |-> IF r \in readLocks THEN NoSnapshot
                                   ELSE snapshot[r]]

ImplementsPublishedPool == Promised!Spec

(* The inductive invariant behind these: who holds the lock, *)
LockInvariant ==
    /\ holder = NoOne <=> phase = "idle"
    /\ holder # NoOne => readLocks = {}
    /\ phase \in {"committing", "verified", "recovering"} => intent # NoIntent
    /\ phase \in WritePhases \cup {"removed"} => intent = NoIntent

(* how far the transaction is from the files, *)
WorkInvariant ==
    /\ phase = "open" => work = disk
    /\ phase = "executed" =>
          /\ \A c \in {"stock_factors", "feature_raw", "feature_factor"} :
                work[c] = disk[c]
          /\ work["stock_raw"] \in {disk["stock_raw"], disk["stock_raw"] + 1}
          /\ work["stock_raw"] # disk["stock_raw"] => Business # {}
    /\ phase = "derived" => Coherent(work) /\ Promised!Follows(disk, work)
    /\ phase = "committing" => work = Effective
    /\ phase = "verified" => disk = Effective

(* and what a reader has pinned: the files as they are while it holds its lock,
   and afterwards an ancestor of what is published. *)
SnapshotInvariant ==
    \A r \in Readers :
        /\ r \in readLocks =>
              /\ Published
              /\ snapshot[r] # NoSnapshot
              /\ \A n \in 1..(pinning[r] - 1) : \A c \in CellsOf[PinAt[n]] :
                    snapshot[r][c] = disk[c]
        /\ r \in OpenReaders => Promised!Follows(snapshot[r], Effective)

PublicationInvariant ==
    LockInvariant /\ WorkInvariant /\ RecoverableCommit /\ SnapshotInvariant

(* An interrupted publication is completed. *)
PublicationEnds == intent # NoIntent ~> intent = NoIntent
=============================================================================
