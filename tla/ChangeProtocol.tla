--------------------------- MODULE ChangeProtocol ---------------------------
(***************************************************************************)
(* The daily-domain commit and recovery protocol of                        *)
(* src/aspool/change_protocol.py, under the pool lock of pool.py.          *)
(*                                                                         *)
(* A maintenance invocation changes one object at a time.  A file object   *)
(* is prepared in change-state/preparing, moved to change-state/pending,   *)
(* hard-linked over its target, recorded in the DuckDB catalog in one      *)
(* transaction, and archived in change-state/applied.  A catalog object is *)
(* changed and recorded in one transaction.  An invocation may raise or    *)
(* its process may exit between any two of those steps; the next           *)
(* invocation that takes the write lock rolls the pending operations       *)
(* forward before it does anything else.                                   *)
(*                                                                         *)
(* Every action is one durable step (a rename, a link, a transaction), so  *)
(* a crash can fall between any two of them.  The files of one prepared    *)
(* operation other than new.parquet are one flag, intact: the digests that *)
(* _apply checks.  Durability of a completed step is assumed (fsync).      *)
(***************************************************************************)
EXTENDS Integers, FiniteSets

CONSTANTS
    Invocations,  \* the outermost calls of maintenance entries; also run_ids
    Faulty,       \* the invocations that may raise, crash or be killed
    Readers,      \* public readers of the pool
    Files,        \* the object_keys that are Parquet targets
    Tables,       \* the object_keys that are catalog fact tables
    Ops,          \* the operation_ids (uuid4, so in no known order)
    MaxDay,       \* the published trading days are 1..MaxDay
    MayDamage,    \* whether a pending preparation can be damaged on disk
    NoOp, NoOne, NoView

ASSUME ConstantsAssumption ==
    /\ Faulty \subseteq Invocations
    /\ Files \cap Tables = {}
    /\ MaxDay \in Nat
    /\ MayDamage \in BOOLEAN
    /\ NoOp \notin Ops
    /\ NoOne \notin Invocations

Objects == Files \cup Tables
Days    == 1..MaxDay
Starts  == 1..(MaxDay + 1)   \* MaxDay + 1: a change that invalidates no day

Places == {"none", "preparing", "pending", "applied", "unprepared", "rows"}
ManifestStates ==
    {"absent", "prepared", "file_replaced", "applied", "recovery_required"}
RunStates == {"none", "running", "completed", "partial_failure", "failed",
              "recovery_required", "recovered"}
Outcomes  == {"completed", "partial_failure", "failed"}

PreparePhases == {"preparing", "redo", "manifest"}
ApplyPhases   == {"validate", "replace", "replaced", "commit", "mark",
                  "release", "archive", "archived"}
Locked        == {"recover", "ready"} \cup PreparePhases \cup ApplyPhases
Phases        == {"outside", "finishing", "done", "dead"} \cup Locked

Plans == [object : Objects, input : Nat, base : Ops \cup {NoOp},
          start : Starts, run : Invocations]
NoPlan == [object |-> NoOp]
Views  == [content : [Files -> Ops \cup {NoOp}], revision : [Objects -> Nat]]

VARIABLES
    writeLock,   \* the invocation that holds LOCK_EX on the pool, or NoOne
    readLocks,   \* the readers that hold LOCK_SH
    place,       \* where the directory of an operation is
    plan,        \* the fixed part of its manifest
    manifest,    \* the state field of its manifest
    redo,        \* whether its new.parquet exists
    intact,      \* whether its manifest, evidence and redo pass their digests
    target,      \* the operation whose new.parquet a target file is
    revision,    \* catalog: business_revisions
    applied,     \* catalog: business_changes
    cover,       \* catalog: the coverage row, named by the operation it is of
    total,       \* catalog: maintenance_totals.applied_operations
    runState,    \* catalog: maintenance_runs.state
    stale,       \* catalog: daily_limit_staleness
    pc, cur, recovering, outcome,   \* the memory of an invocation
    view         \* what a reader has read since it took its lock

lockVars    == <<writeLock, readLocks>>
stateVars   == <<place, plan, manifest, redo, intact>>
catalogVars == <<revision, applied, cover, total, stale>>
memoryVars  == <<pc, cur, recovering, outcome>>
vars == <<lockVars, stateVars, target, catalogVars, runState, memoryVars, view>>

TypeOK ==
    /\ writeLock \in Invocations \cup {NoOne}
    /\ readLocks \subseteq Readers
    /\ place \in [Ops -> Places]
    /\ plan \in [Ops -> Plans \cup {NoPlan}]
    /\ manifest \in [Ops -> ManifestStates]
    /\ redo \in [Ops -> BOOLEAN]
    /\ intact \in [Ops -> BOOLEAN]
    /\ target \in [Files -> Ops \cup {NoOp}]
    /\ revision \in [Objects -> Nat]
    /\ applied \subseteq Ops
    /\ cover \in [Files -> Ops \cup {NoOp}]
    /\ total \in [Invocations -> Nat]
    /\ runState \in [Invocations -> RunStates]
    /\ stale \subseteq Days
    /\ pc \in [Invocations -> Phases]
    /\ cur \in [Invocations -> Ops \cup {NoOp}]
    /\ recovering \in [Invocations -> BOOLEAN]
    /\ outcome \in [Invocations -> Outcomes]
    /\ view \in [Readers -> Views \cup {NoView}]

Init ==
    /\ writeLock = NoOne
    /\ readLocks = {}
    /\ place = [op \in Ops |-> "none"]
    /\ plan = [op \in Ops |-> NoPlan]
    /\ manifest = [op \in Ops |-> "absent"]
    /\ redo = [op \in Ops |-> FALSE]
    /\ intact = [op \in Ops |-> TRUE]
    /\ target = [f \in Files |-> NoOp]
    /\ revision = [o \in Objects |-> 0]
    /\ applied = {}
    /\ cover = [f \in Files |-> NoOp]
    /\ total = [i \in Invocations |-> 0]
    /\ runState = [i \in Invocations |-> "none"]
    /\ stale = {}
    /\ pc = [i \in Invocations |-> "outside"]
    /\ cur = [i \in Invocations |-> NoOp]
    /\ recovering = [i \in Invocations |-> FALSE]
    /\ outcome = [i \in Invocations |-> "completed"]
    /\ view = [r \in Readers |-> NoView]

-----------------------------------------------------------------------------
(* Faulty variants of a definition stand before it; the mutation runs put them
   in its place and must then find a property violated. *)

(* Fault: the reader looks for unfinished work in the wrong directory. *)
PendingUnseen == \E op \in Ops : place[op] = "preparing"

(* pending(): some operation waits to be rolled forward. *)
Pending == \E op \in Ops : place[op] = "pending"

(* _initialize(): the first catalog access of a run records it as running. *)
NoteRun(i) == [runState EXCEPT ![i] = IF @ = "none" THEN "running" ELSE @]

(* _stale(): the published days from the first changed day on. *)
StaleFrom(start) == {d \in Days : d >= start}

(* Fault: the output revision is computed backwards. *)
RecordBackwards(op, p) ==
    /\ revision[p.object] = p.input
    /\ revision' = [revision EXCEPT ![p.object] = p.input - 1]
    /\ applied' = applied \cup {op}
    /\ total' = [total EXCEPT ![p.run] = @ + 1]

(* Fault: INSERT OR REPLACE instead of adding to the totals of the run. *)
RecordReplacingTotals(op, p) ==
    /\ revision[p.object] = p.input
    /\ revision' = [revision EXCEPT ![p.object] = p.input + 1]
    /\ applied' = applied \cup {op}
    /\ total' = [total EXCEPT ![p.run] = 1]

(* _record() of an operation of plan p, in the caller's transaction. *)
Record(op, p) ==
    /\ revision[p.object] = p.input
    /\ revision' = [revision EXCEPT ![p.object] = p.input + 1]
    /\ applied' = applied \cup {op}
    /\ total' = [total EXCEPT ![p.run] = @ + 1]

Goto(i, phase) == pc' = [pc EXCEPT ![i] = phase]

-----------------------------------------------------------------------------
(* The pool lock, and the stages of an invocation that hold it. *)

(* pool_lock(write=True) of a @writer stage, followed by recover(). *)
AcquireWrite(i) ==
    /\ pc[i] = "outside"
    /\ writeLock = NoOne /\ readLocks = {}
    /\ writeLock' = i
    /\ Goto(i, "recover")
    /\ UNCHANGED <<readLocks, stateVars, target, catalogVars, runState,
                   cur, recovering, outcome, view>>

(* The stage returns; the invocation goes on without the lock. *)
EndStage(i) ==
    /\ pc[i] = "ready"
    /\ writeLock' = NoOne
    /\ Goto(i, "outside")
    /\ UNCHANGED <<readLocks, stateVars, target, catalogVars, runState,
                   cur, recovering, outcome, view>>

(* Fault: the summary is what the invocation remembers. *)
FinishRunBlindly(i) ==
    /\ pc[i] \in {"outside", "finishing"}
    /\ writeLock = NoOne /\ readLocks = {}
    /\ runState' = [runState EXCEPT ![i] = outcome[i]]
    /\ Goto(i, "done")
    /\ UNCHANGED <<lockVars, stateVars, target, catalogVars,
                   cur, recovering, outcome, view>>

(* maintenance_context takes the lock again to write the final summary.  It
   replaces whatever the row says, and never recovers. *)
FinishRun(i) ==
    /\ pc[i] \in {"outside", "finishing"}
    /\ writeLock = NoOne /\ readLocks = {}
    /\ runState' = [runState EXCEPT ![i] =
                      IF Pending THEN "recovery_required" ELSE outcome[i]]
    /\ Goto(i, "done")
    /\ UNCHANGED <<lockVars, stateVars, target, catalogVars,
                   cur, recovering, outcome, view>>

(* The process exits: the kernel drops its lock, its memory is gone. *)
Crash(i) ==
    /\ i \in Faulty
    /\ pc[i] \notin {"done", "dead"}
    /\ writeLock' = IF writeLock = i THEN NoOne ELSE writeLock
    /\ Goto(i, "dead")
    /\ cur' = [cur EXCEPT ![i] = NoOp]
    /\ recovering' = [recovering EXCEPT ![i] = FALSE]
    /\ UNCHANGED <<readLocks, stateVars, target, catalogVars, runState,
                   outcome, view>>

(* A public read: a shared lock and assert_readable(), then files and catalog. *)
EnterRead(r) ==
    /\ r \notin readLocks
    /\ writeLock = NoOne
    /\ ~Pending
    /\ readLocks' = readLocks \cup {r}
    /\ UNCHANGED <<writeLock, stateVars, target, catalogVars, runState,
                   memoryVars, view>>

Read(r) ==
    /\ r \in readLocks
    /\ view' = [view EXCEPT ![r] = [content |-> target, revision |-> revision]]
    /\ UNCHANGED <<lockVars, stateVars, target, catalogVars, runState, memoryVars>>

ExitRead(r) ==
    /\ r \in readLocks
    /\ readLocks' = readLocks \ {r}
    /\ view' = [view EXCEPT ![r] = NoView]
    /\ UNCHANGED <<writeLock, stateVars, target, catalogVars, runState, memoryVars>>

-----------------------------------------------------------------------------
(* publish_file(): preparation. *)

(* Fault: a caller reads and publishes without recovering first. *)
UnclaimedIgnored(f) == f \in Files

(* publish_file() itself does not look.  merge_daily() and most other callers
   recover before they read the rows they change; the loop over symbols of
   enrichment._publish() goes on after a failure without that, so that several
   operations of one run may wait, but each on a file of its own. *)
Unclaimed(f) == \A op \in Ops : place[op] = "pending" => plan[op].object # f

BeginPublish(i, f, start) ==
    /\ pc[i] = "ready"
    /\ Unclaimed(f)
    /\ \E op \in Ops :
        /\ place[op] = "none"
        /\ place' = [place EXCEPT ![op] = "preparing"]
        /\ plan' = [plan EXCEPT ![op] =
                      [object |-> f, input |-> revision[f], base |-> target[f],
                       start |-> start, run |-> i]]
        /\ cur' = [cur EXCEPT ![i] = op]
    /\ runState' = NoteRun(i)
    /\ Goto(i, "preparing")
    /\ UNCHANGED <<lockVars, manifest, redo, intact, target, catalogVars,
                   recovering, outcome, view>>

WriteRedo(i) ==
    /\ pc[i] = "preparing"
    /\ redo' = [redo EXCEPT ![cur[i]] = TRUE]
    /\ Goto(i, "redo")
    /\ UNCHANGED <<lockVars, place, plan, manifest, intact, target, catalogVars,
                   runState, cur, recovering, outcome, view>>

WriteManifest(i) ==
    /\ pc[i] = "redo"
    /\ manifest' = [manifest EXCEPT ![cur[i]] = "prepared"]
    /\ Goto(i, "manifest")
    /\ UNCHANGED <<lockVars, place, plan, redo, intact, target, catalogVars,
                   runState, cur, recovering, outcome, view>>

MoveToPending(i) ==
    /\ pc[i] = "manifest"
    /\ place' = [place EXCEPT ![cur[i]] = "pending"]
    /\ Goto(i, "validate")
    /\ UNCHANGED <<lockVars, plan, manifest, redo, intact, target, catalogVars,
                   runState, cur, recovering, outcome, view>>

-----------------------------------------------------------------------------
(* _apply(), run by publish_file() or by recover(). *)

(* Fault: the digests of the preparation are not compared. *)
AcceptableUnchecked(op) ==
    \/ /\ op \in applied
       /\ revision[plan[op].object] = plan[op].input + 1
    \/ /\ op \notin applied
       /\ revision[plan[op].object] = plan[op].input

(* The checks before anything is touched. *)
Acceptable(op) ==
    /\ intact[op]
    /\ \/ /\ op \in applied
          /\ revision[plan[op].object] = plan[op].input + 1
          /\ target[plan[op].object] = op
       \/ /\ op \notin applied
          /\ revision[plan[op].object] = plan[op].input
          /\ redo[op]

Validate(i) ==
    /\ pc[i] = "validate"
    /\ Acceptable(cur[i])
    /\ runState' = NoteRun(i)
    /\ Goto(i, IF cur[i] \in applied THEN "mark" ELSE "replace")
    /\ UNCHANGED <<lockVars, stateVars, target, catalogVars, cur, recovering,
                   outcome, view>>

(* Fault: the redo file is renamed over its target instead of linked. *)
RenameOverTarget(i) ==
    /\ pc[i] = "replace"
    /\ target' = [target EXCEPT ![plan[cur[i]].object] = cur[i]]
    /\ redo' = [redo EXCEPT ![cur[i]] = FALSE]
    /\ Goto(i, "replaced")
    /\ UNCHANGED <<lockVars, place, plan, manifest, intact, catalogVars, runState,
                   cur, recovering, outcome, view>>

(* The hard link replaces the target; recovery skips that when the target is
   the new object already, which leaves the same file. *)
ReplaceTarget(i) ==
    /\ pc[i] = "replace"
    /\ target' = [target EXCEPT ![plan[cur[i]].object] = cur[i]]
    /\ Goto(i, "replaced")
    /\ UNCHANGED <<lockVars, stateVars, catalogVars, runState, cur, recovering,
                   outcome, view>>

MarkReplaced(i) ==
    /\ pc[i] = "replaced"
    /\ manifest' = [manifest EXCEPT ![cur[i]] = "file_replaced"]
    /\ Goto(i, "commit")
    /\ UNCHANGED <<lockVars, place, plan, redo, intact, target, catalogVars,
                   runState, cur, recovering, outcome, view>>

(* Fault: the stale marks are left to a later transaction. *)
CommitWithoutStale(i) ==
    LET op == cur[i] IN
    /\ pc[i] = "commit"
    /\ cover' = [cover EXCEPT ![plan[op].object] = op]
    /\ Record(op, plan[op])
    /\ Goto(i, "mark")
    /\ UNCHANGED <<lockVars, stateVars, target, stale, runState, cur, recovering,
                   outcome, view>>

(* One DuckDB transaction: coverage, stale marks, revision, change, totals. *)
CommitCatalog(i) ==
    LET op == cur[i] IN
    /\ pc[i] = "commit"
    /\ cover' = [cover EXCEPT ![plan[op].object] = op]
    /\ stale' = stale \cup StaleFrom(plan[op].start)
    /\ Record(op, plan[op])
    /\ Goto(i, "mark")
    /\ UNCHANGED <<lockVars, stateVars, target, runState, cur, recovering,
                   outcome, view>>

MarkApplied(i) ==
    /\ pc[i] = "mark"
    /\ manifest' = [manifest EXCEPT ![cur[i]] = "applied"]
    /\ Goto(i, "release")
    /\ UNCHANGED <<lockVars, place, plan, redo, intact, target, catalogVars,
                   runState, cur, recovering, outcome, view>>

ReleaseRedo(i) ==
    /\ pc[i] = "release"
    /\ redo' = [redo EXCEPT ![cur[i]] = FALSE]
    /\ Goto(i, "archive")
    /\ UNCHANGED <<lockVars, place, plan, manifest, intact, target, catalogVars,
                   runState, cur, recovering, outcome, view>>

(* Fault: the directory stays in pending. *)
ArchiveForgotten(i) ==
    /\ pc[i] = "archive"
    /\ Goto(i, "archived")
    /\ UNCHANGED <<lockVars, stateVars, target, catalogVars, runState, cur,
                   recovering, outcome, view>>

Archive(i) ==
    /\ pc[i] = "archive"
    /\ place' = [place EXCEPT ![cur[i]] = "applied"]
    /\ Goto(i, "archived")
    /\ UNCHANGED <<lockVars, plan, manifest, redo, intact, target, catalogVars,
                   runState, cur, recovering, outcome, view>>

(* publish_file() returns; the caller goes on under the same lock. *)
PublishDone(i) ==
    /\ pc[i] = "archived" /\ ~recovering[i]
    /\ cur' = [cur EXCEPT ![i] = NoOp]
    /\ Goto(i, "ready")
    /\ UNCHANGED <<lockVars, stateVars, target, catalogVars, runState,
                   recovering, outcome, view>>

-----------------------------------------------------------------------------
(* Failing: an exception of publish_file() or recover() reaches a loop over
   jobs, which notes it and goes on, or leaves the invocation. *)

(* The loop over jobs goes on under the lock. *)
Caught(i, phase) ==
    /\ Goto(i, phase)
    /\ outcome' = [outcome EXCEPT ![i] = "partial_failure"]
    /\ UNCHANGED writeLock

(* The exception leaves the stage and the invocation: the lock is released. *)
Raised(i) ==
    /\ Goto(i, "finishing")
    /\ outcome' = [outcome EXCEPT ![i] = "failed"]
    /\ writeLock' = NoOne

Rejected(i) == pc[i] = "validate" /\ ~Acceptable(cur[i])

(* The handler of publish_file() writes recovery_required into the manifest of
   a failed _apply(), if it can; what failed earlier stays in preparing. *)
PublishFails(i) ==
    /\ pc[i] \in PreparePhases \cup ApplyPhases
    /\ ~recovering[i]
    /\ i \in Faulty \/ Rejected(i)
    /\ \/ UNCHANGED manifest
       \/ /\ place[cur[i]] = "pending"
          /\ manifest' = [manifest EXCEPT ![cur[i]] = "recovery_required"]
    /\ cur' = [cur EXCEPT ![i] = NoOp]
    /\ Caught(i, "ready") \/ Raised(i)
    /\ UNCHANGED <<readLocks, place, plan, redo, intact, target, catalogVars,
                   runState, recovering, view>>

(* recover() raises, before or inside an operation. The next job of a loop
   calls it again. *)
RecoveryFails(i) ==
    /\ pc[i] \in {"recover"} \cup ApplyPhases
    /\ pc[i] # "recover" => recovering[i]
    /\ i \in Faulty \/ Rejected(i)
    /\ runState' \in {runState, NoteRun(i)}
    /\ cur' = [cur EXCEPT ![i] = NoOp]
    /\ recovering' = [recovering EXCEPT ![i] = FALSE]
    /\ Caught(i, "recover") \/ Raised(i)
    /\ UNCHANGED <<readLocks, stateVars, target, catalogVars, view>>

(* A job fails before it changes anything, or its transaction rolls back. *)
JobFails(i) ==
    /\ pc[i] = "ready" /\ i \in Faulty
    /\ runState' \in {runState, NoteRun(i)}
    /\ Caught(i, "ready") \/ Raised(i)
    /\ UNCHANGED <<readLocks, stateVars, target, catalogVars, cur, recovering,
                   view>>

-----------------------------------------------------------------------------
(* recover(). *)

(* A merge recovers again before it reads the files it will change. *)
RecoverAgain(i) ==
    /\ pc[i] = "ready"
    /\ Goto(i, "recover")
    /\ UNCHANGED <<lockVars, stateVars, target, catalogVars, runState, cur,
                   recovering, outcome, view>>

(* Fault: recovery sets pending operations aside as well. *)
AbortAnything(i, op) ==
    /\ pc[i] = "recover"
    /\ place[op] \in {"preparing", "pending"}
    /\ redo' = [redo EXCEPT ![op] = FALSE]
    /\ place' = [place EXCEPT ![op] = "unprepared"]
    /\ UNCHANGED <<lockVars, plan, manifest, intact, target, catalogVars,
                   runState, memoryVars, view>>

(* A preparation that never became pending is set aside without its redo. *)
AbortPreparation(i, op) ==
    /\ pc[i] = "recover"
    /\ place[op] = "preparing"
    /\ redo' = [redo EXCEPT ![op] = FALSE]
    /\ place' = [place EXCEPT ![op] = "unprepared"]
    /\ UNCHANGED <<lockVars, plan, manifest, intact, target, catalogVars,
                   runState, memoryVars, view>>

NothingPreparing == \A op \in Ops : place[op] # "preparing"

TakePending(i, op) ==
    /\ pc[i] = "recover"
    /\ NothingPreparing
    /\ place[op] = "pending"
    /\ cur' = [cur EXCEPT ![i] = op]
    /\ recovering' = [recovering EXCEPT ![i] = TRUE]
    /\ Goto(i, "validate")
    /\ UNCHANGED <<lockVars, stateVars, target, catalogVars, runState, outcome,
                   view>>

(* _reconcile_recovered_run(), after the operation is archived. *)
ReconcileRun(i) ==
    /\ pc[i] = "archived" /\ recovering[i]
    /\ runState' = [runState EXCEPT ![plan[cur[i]].run] = "recovered"]
    /\ cur' = [cur EXCEPT ![i] = NoOp]
    /\ recovering' = [recovering EXCEPT ![i] = FALSE]
    /\ Goto(i, "recover")
    /\ UNCHANGED <<lockVars, stateVars, target, catalogVars, outcome, view>>

RecoveryDone(i) ==
    /\ pc[i] = "recover"
    /\ NothingPreparing /\ ~Pending
    /\ Goto(i, "ready")
    /\ UNCHANGED <<lockVars, stateVars, target, catalogVars, runState, cur,
                   recovering, outcome, view>>

-----------------------------------------------------------------------------
(* catalog_rows(): merged rows, evidence, stale marks and record in one
   transaction; observe() after it may still raise. *)
CatalogRows(i, t, start) ==
    /\ pc[i] = "ready"
    /\ \E op \in Ops :
        LET change == [object |-> t, input |-> revision[t], base |-> NoOp,
                       start |-> start, run |-> i]
        IN  /\ place[op] = "none"
            /\ place' = [place EXCEPT ![op] = "rows"]
            /\ plan' = [plan EXCEPT ![op] = change]
            /\ Record(op, change)
    /\ stale' = stale \cup StaleFrom(start)
    /\ runState' = NoteRun(i)
    /\ \/ UNCHANGED <<pc, outcome, writeLock>>
       \/ i \in Faulty /\ (Caught(i, "ready") \/ Raised(i))
    /\ UNCHANGED <<readLocks, manifest, redo, intact, target, cover, cur,
                   recovering, view>>

(* The disk loses or corrupts part of a pending preparation while nobody works
   on it; an operator puts the trusted file back. *)
Damage(op) ==
    /\ MayDamage /\ writeLock = NoOne
    /\ place[op] = "pending" /\ intact[op]
    /\ intact' = [intact EXCEPT ![op] = FALSE]
    /\ UNCHANGED <<lockVars, place, plan, manifest, redo, target, catalogVars,
                   runState, memoryVars, view>>

Repair(op) ==
    /\ writeLock = NoOne
    /\ ~intact[op]
    /\ intact' = [intact EXCEPT ![op] = TRUE]
    /\ UNCHANGED <<lockVars, place, plan, manifest, redo, target, catalogVars,
                   runState, memoryVars, view>>

-----------------------------------------------------------------------------
Prepare(i) ==
    \/ \E f \in Files, start \in Starts : BeginPublish(i, f, start)
    \/ WriteRedo(i) \/ WriteManifest(i) \/ MoveToPending(i)

Apply(i) ==
    \/ Validate(i) \/ ReplaceTarget(i) \/ MarkReplaced(i) \/ CommitCatalog(i)
    \/ MarkApplied(i) \/ ReleaseRedo(i) \/ Archive(i) \/ PublishDone(i)

Recover(i) ==
    \/ \E op \in Ops : AbortPreparation(i, op) \/ TakePending(i, op)
    \/ ReconcileRun(i) \/ RecoveryDone(i)

Fail(i) == PublishFails(i) \/ RecoveryFails(i) \/ JobFails(i) \/ Crash(i)

Next ==
    \/ \E i \in Invocations :
        \/ AcquireWrite(i) \/ EndStage(i) \/ FinishRun(i) \/ RecoverAgain(i)
        \/ Prepare(i) \/ Apply(i) \/ Recover(i) \/ Fail(i)
        \/ \E t \in Tables, start \in Starts : CatalogRows(i, t, start)
    \/ \E r \in Readers : EnterRead(r) \/ Read(r) \/ ExitRead(r)
    \/ \E op \in Ops : Damage(op) \/ Repair(op)

Spec == Init /\ [][Next]_vars

(* An invocation that does not fail keeps executing: once it is inside recover()
   or _apply() nothing it waits for is held by another (it has the lock). *)
FairSpec ==
    /\ Spec
    /\ \A i \in Invocations \ Faulty : WF_vars(Apply(i)) /\ WF_vars(Recover(i))

-----------------------------------------------------------------------------
(* A public read never mixes a file of one generation with a catalog of
   another: what a reader has read is the committed content of every file and
   the revisions that go with it, and stays so until it lets its lock go, while
   a crash may have left a target replaced and its catalog record missing. *)
ReadersSeeCommitted ==
    \A r \in Readers : view[r] # NoView =>
        view[r] = [content |-> cover, revision |-> revision]

(* A target may run ahead of the catalog only while the operation it belongs to
   waits in change-state/pending with its redo file: whatever happens next, the
   missing half of the commit can still be made. *)
RedoUntilCommitted ==
    \A f \in Files : target[f] # cover[f] =>
        /\ target[f] \in Ops \ applied
        /\ place[target[f]] = "pending"
        /\ plan[target[f]].object = f
        /\ redo[target[f]]

(* An undamaged pending operation always passes the checks of _apply(), at every
   crash point and whatever was committed since: no legal history refuses its
   own recovery and blocks the pool ("Logical revision changed before recovery",
   "Applied target differs", "Recovery object missing"). *)
PendingRecoverable ==
    \A op \in Ops : place[op] = "pending" /\ intact[op] => Acceptable(op)

(* No update is lost and none is applied twice: the committed operations of a
   file form one chain, each made from the content its predecessor left, and the
   revision of every object counts the operations committed to it. *)
RevisionChain ==
    /\ \A o \in Objects :
        revision[o] = Cardinality({op \in applied : plan[op].object = o})
    /\ \A op \in applied : LET p == plan[op] IN p.object \in Files =>
        IF p.input = 0 THEN p.base = NoOp
        ELSE p.base \in applied /\ plan[p.base].object = p.object
                                /\ plan[p.base].input = p.input - 1

(* maintenance_totals: a run is credited with each of its committed operations
   once, whoever commits it and however often it is recovered. *)
CountedOnce ==
    \A i \in Invocations :
        total[i] = Cardinality({op \in applied : plan[op].run = i})

(* A run whose summary neither asks for a recovery nor tells of one has left no
   operation behind, although others may have worked between its last stage and
   its summary, and their recoveries may have written to its row before. *)
SummaryTellsOfPending ==
    \A i \in Invocations :
        pc[i] = "done" /\ runState[i] \notin {"recovery_required", "recovered"} =>
            \A op \in Ops : place[op] = "pending" => plan[op].run # i

(* A preparation that was aborted, and one still in preparing, never reached a
   target or the catalog; an archived one was committed and left no redo behind;
   and no manifest says "applied" of an operation the catalog does not have. *)
PlaceTellsTheTruth ==
    \A op \in Ops :
        /\ place[op] \in {"preparing", "unprepared"} =>
             op \notin applied /\ \A f \in Files : op \notin {target[f], cover[f]}
        /\ place[op] = "applied" => op \in applied /\ ~redo[op]
        /\ manifest[op] = "applied" => op \in applied

(* A damaged preparation is never committed: while the trusted file is missing,
   no step adds the operation to the catalog or moves it. *)
DamagedIsKept ==
    [][\A op \in Ops : ~intact[op] =>
        (op \in applied' <=> op \in applied) /\ place'[op] = place[op]]_vars

(* Recovery ends: an invocation that does not fail and finds pending operations
   under its lock archives them all, so that the pool can be read again, unless
   it meets a damaged preparation. *)
RecoveryEnds ==
    \A i \in Invocations \ Faulty :
        pc[i] = "recover" ~> ~Pending \/ \E op \in Ops : ~intact[op]

-----------------------------------------------------------------------------
(* The inductive invariant behind the safety properties, in named parts. *)

(* The flock: one writer or some readers, and the writer is the invocation that
   is inside a locked phase.  Readers were let in with nothing pending. *)
LockInvariant ==
    /\ \A i \in Invocations : pc[i] \in Locked <=> writeLock = i
    /\ readLocks # {} => writeLock = NoOne /\ ~Pending
    /\ \A r \in Readers : view[r] # NoView => r \in readLocks

(* A directory of change-state belongs to a planned change of a file. *)
PlanInvariant ==
    /\ \A op \in Ops : place[op] # "none" => plan[op] \in Plans
    /\ \A op \in Ops : place[op] \in {"preparing", "pending", "applied"}
                         => plan[op].object \in Files
    /\ \A op \in Ops : place[op] = "rows" => plan[op].object \in Tables
    /\ \A op \in Ops : ~intact[op] => place[op] = "pending"
    /\ \A op \in applied : place[op] \in {"pending", "applied", "rows"}

(* What an invocation in the middle of an operation relies on. *)
PhaseInvariant ==
    \A i \in Invocations : LET op == cur[i] IN
        /\ pc[i] \in PreparePhases =>
             /\ op \in Ops /\ place[op] = "preparing"
             /\ plan[op].input = revision[plan[op].object]
             /\ plan[op].base = target[plan[op].object]
             /\ Unclaimed(plan[op].object)
        /\ pc[i] \in {"redo", "manifest"} => redo[op]
        /\ pc[i] \in ApplyPhases \ {"archived"} => op \in Ops /\ place[op] = "pending"
        /\ pc[i] \in ApplyPhases \ {"validate", "archived"} => intact[op]
        /\ pc[i] \in {"replace", "replaced", "commit"} => op \notin applied
        /\ pc[i] \in {"replaced", "commit"} => target[plan[op].object] = op
        /\ pc[i] \in {"mark", "release", "archive"} => op \in applied
        /\ pc[i] = "archive" => ~redo[op]
        /\ pc[i] = "archived" => op \in Ops /\ place[op] = "applied"

(* The two halves of a commit: a pending operation is wholly committed or can
   still be, and at most one waits for each file. *)
PendingInvariant ==
    /\ \A op \in Ops : place[op] = "pending" =>
        LET p == plan[op] IN
        \/ op \in applied /\ revision[p.object] = p.input + 1 /\ target[p.object] = op
        \/ op \notin applied /\ revision[p.object] = p.input /\ redo[op]
    /\ \A op1, op2 \in Ops :
        /\ place[op1] = "pending" /\ place[op2] = "pending"
        /\ plan[op1].object = plan[op2].object
        => op1 = op2

(* Files and coverage name operations that reached them. *)
TargetInvariant ==
    /\ \A f \in Files : target[f] # NoOp =>
        target[f] \in Ops /\ place[target[f]] \in {"pending", "applied"}
                         /\ plan[target[f]].object = f
    /\ \A f \in Files : cover[f] # NoOp => cover[f] \in applied

ProtocolInvariant ==
    /\ LockInvariant
    /\ PlanInvariant
    /\ PhaseInvariant
    /\ PendingInvariant
    /\ TargetInvariant
    /\ ReadersSeeCommitted
    /\ RedoUntilCommitted
    /\ PlaceTellsTheTruth

-----------------------------------------------------------------------------
(* What the protocol promises: every change is one atomic step, and a read sees
   the state between two of them. *)
Promised == INSTANCE AtomicPool WITH
    content <- cover, version <- revision,
    committed <- {[op |-> op, start |-> plan[op].start] : op \in applied}

ImplementsAtomicPool == Promised!Spec
=============================================================================
