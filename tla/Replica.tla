------------------------------- MODULE Replica -------------------------------
(***************************************************************************)
(* The application of a logical delta to a receiving pool:                 *)
(* src/aspool/base_delta.py, with the gate of pool_lock() in pool.py.      *)
(*                                                                         *)
(* apply_delta() checks every row of the package against the pool, makes   *)
(* an intent (pending-replica.json) durable, commits one data set after    *)
(* the other, each in its own database, records after each what it         *)
(* changed, recomputes the derived stock data if a data set that they      *)
(* depend on has changed, verifies all rows and removes the intent.        *)
(* recover starts again from the intent.                                   *)
(*                                                                         *)
(* A cell is the rows that one data set changes in one transaction; its    *)
(* value stands for them.  The publication of the stock data, atomic by    *)
(* module Publication and rolled forward before a recovery reads, is one   *)
(* step.                                                                   *)
(***************************************************************************)
EXTENDS Naturals, Sequences, SequencesExt, FiniteSets

CONSTANTS
    Procs,       \* processes that apply or recover a package
    Faulty,      \* those that may raise or exit between two steps
    Writers,     \* processes with an ordinary write of the pool
    Readers,     \* public readers
    Cells,       \* the cells of this instance
    Selections,  \* the sets of cells whose data sets an export names together
    Contents,    \* what each cell can hold
    Sources,     \* the contents a source can have when it exports
    NoOne, NoIntent, NoView

AllCells == {"board-snapshot-sets", "board-snapshots", "board-source-state",
             "event-coverage-1", "event-coverage-2", "index-bars", "securities",
             "stock"}

Boards == {"board-snapshot-sets", "board-snapshots", "board-source-state"}

(* Snapshot contents never change under their identity. *)
Immutable == {"board-snapshot-sets", "board-snapshots"}

(* The cells of a snapshot hold 1 if the pool has it and 0 if not; source state 1
   selects it, any other value a snapshot of the receiver's own. *)
Values == UNION {Contents[c] : c \in Cells}
Images == {image \in [Cells -> Values] : \A c \in Cells : image[c] \in Contents[c]}

ASSUME ConstantsAssumption ==
    /\ Faulty \subseteq Procs
    /\ Cells \subseteq AllCells
    /\ Selections \subseteq SUBSET Cells \ {{}}
    /\ \A s \in Selections : "board-source-state" \in s => Boards \subseteq s
    /\ \A c \in Cells : {0, 1} \subseteq Contents[c]
    /\ \A c \in Cells \cap Immutable : Contents[c] = {0, 1}
    /\ Sources \subseteq Images
    /\ NoOne \notin Procs

(* Fault: the data sets in the order of their names, the last first. *)
OrderByName == <<"securities", "index-bars", "event-coverage", "board-source-state",
                 "board-snapshots", "board-snapshot-sets">>

(* The standalone data sets, in the order in which they are applied. *)
Order == <<"board-snapshot-sets", "board-snapshots", "board-source-state",
           "event-coverage", "index-bars", "securities">>

DatasetOf == [c \in AllCells |-> IF c \in {"event-coverage-1", "event-coverage-2"}
                                 THEN "event-coverage" ELSE c]

Datasets == ToSet(Order) \cup {"stock"}

(* Data sets whose rows commit one by one. *)
RowByRow == {"event-coverage"}

(* Data sets whose changes force a recomputation, and all that it reads. *)
Forcing == {"board-source-state", "event-coverage", "securities"}
Inputs  == {c \in Cells : DatasetOf[c] \in Forcing \cup {"stock"}}

(* Cells that are written under the lock without a second look at the gate:
   the index synchronisation and the directories write so. *)
Ungated == Cells \cap {"index-bars", "securities"}

(* Cells that others than packages write. *)
Maintained == Ungated \cup (Cells \cap {"board-source-state", "stock"})

Phases == {"idle", "begun", "datasets", "rows", "stock", "verify"}

VARIABLES
    base,       \* the base rows of the receiver
    derived,    \* the inputs of the last recomputation
    package,    \* the package file: cells with before and after images
    names,      \* the data sets that it names, those without a row among them
    intent,     \* pending-replica.json
    holder,     \* the process that holds LOCK_EX on the pool, or NoOne
    readLocks,  \* the readers that hold LOCK_SH
    waiting,    \* writers that passed the gate and wait for the lock
    phase, work, at, rows, count,   \* the memory of the holder
    view        \* what a reader has read since it took its lock

memoryVars == <<phase, work, at, rows, count>>
readerVars == <<readLocks, view>>
fileVars == <<package, names>>
vars == <<base, derived, fileVars, intent, holder, waiting, memoryVars, readerVars>>

Empty == [c \in {} |-> 0]

(* Packages of a set of cells, with their images, and intents with the data sets that
   the package names and those that are recorded as changed. *)
Packages(cells) == [cells -> [before : Values, after : Values]]
Works(cells) == [package : Packages(cells), names : SUBSET Datasets, results : SUBSET Datasets]

ASSUME AbsenceAssumption == \A cells \in SUBSET Cells : NoIntent \notin Works(cells)

IsPackage(p) == DOMAIN p \subseteq Cells /\ p \in Packages(DOMAIN p)
IsWork(w) == IsPackage(w.package) /\ w \in Works(DOMAIN w.package)

TypeOK ==
    /\ base \in Images
    /\ derived \in [Inputs -> Values]
    /\ IsPackage(package) /\ names \subseteq Datasets
    /\ intent # NoIntent => IsWork(intent)
    /\ holder \in Procs \cup {NoOne}
    /\ readLocks \subseteq Readers
    /\ waiting \subseteq Writers
    /\ phase \in Phases
    /\ IsWork(work)
    /\ phase = "idle" => holder = NoOne /\ at = 1 /\ rows = {}
    /\ at \in 1..(Len(Order) + 1)
    /\ rows \subseteq Cells
    /\ count \in BOOLEAN
    /\ view \in [Readers -> Images \cup {NoView}]

NoWork == [package |-> Empty, names |-> {}, results |-> {}]

Init ==
    /\ base = [c \in Cells |-> 0]
    /\ derived = [c \in Inputs |-> 0]
    /\ package = Empty /\ names = {}
    /\ intent = NoIntent
    /\ holder = NoOne
    /\ readLocks = {}
    /\ waiting = {}
    /\ phase = "idle" /\ work = NoWork /\ at = 1 /\ rows = {} /\ count = FALSE
    /\ view = [r \in Readers |-> NoView]

-----------------------------------------------------------------------------
Free == holder = NoOne /\ readLocks = {}

(* assert_replica_complete() outside a recovery. *)
Replicated == intent = NoIntent

(* Fault: the images of a row are not compared. *)
FitsAnything(p, c) == c \in DOMAIN p

(* _checked() of one row: it has its new value already, or the old one. *)
Fits(p, c) ==
    \/ base[c] = p[c].after
    \/ base[c] = p[c].before /\ (c \in Immutable => base[c] = 0)

Applicable(p) == \A c \in DOMAIN p : Fits(p, c)

(* The rows of a data set that _checked() returns. *)
Unapplied(p, d) == {c \in DOMAIN p : DatasetOf[c] = d /\ base[c] # p[c].after}

(* The standalone data sets that the package in hand names and that are left, by their
   positions. *)
Todo == {i \in at..Len(Order) : Order[i] \in work.names}

(* The memory of an attempt ends with it. *)
Forget == phase' = "idle" /\ work' = NoWork /\ at' = 1 /\ rows' = {} /\ count' = FALSE

InputsOf(b) == [c \in Inputs |-> b[c]]

-----------------------------------------------------------------------------
(* The source side. *)

(* export_delta(): the rows that differ, from a coherent source, under the names of all
   data sets asked for.  A row that the source lacks is no change. *)
Export ==
    /\ holder = NoOne /\ Replicated
    /\ \E s \in Selections, after \in Sources :
          /\ "board-source-state" \in s /\ after["board-source-state"] = 1 =>
                \A c \in Boards : after[c] = 1
          /\ package' = [c \in {c \in s : /\ after[c] # base[c]
                                          /\ c \in Immutable => after[c] = 1} |->
                            [before |-> base[c], after |-> after[c]]]
          /\ names' = {DatasetOf[c] : c \in s}
    /\ UNCHANGED <<base, derived, intent, holder, waiting, memoryVars, readerVars>>

-----------------------------------------------------------------------------
(* apply_delta(). *)

(* Fault: rows are checked data set by data set only, after the intent. *)
BeginUnchecked(p) ==
    /\ Free
    /\ Replicated
    /\ names # {}
    /\ holder' = p
    /\ work' = [package |-> package, names |-> names, results |-> {}]
    /\ phase' = "begun"
    /\ UNCHANGED <<base, derived, fileVars, intent, waiting, at, rows, count, readerVars>>

(* The lock, the gate under it, and the check of all rows. *)
Begin(p) ==
    /\ Free
    /\ Replicated
    /\ names # {}
    /\ Applicable(package)
    /\ holder' = p
    /\ work' = [package |-> package, names |-> names, results |-> {}]
    /\ phase' = "begun"
    /\ UNCHANGED <<base, derived, fileVars, intent, waiting, at, rows, count, readerVars>>

SaveIntent(p) ==
    /\ holder = p
    /\ phase = "begun"
    /\ intent' = work
    /\ phase' = "datasets"
    /\ UNCHANGED <<base, derived, fileVars, holder, waiting, work, at, rows, count,
                   readerVars>>

(* recover: the same checks, of the package in the intent; a conflict raises
   before anything changes. *)
Recover(p) ==
    /\ Free
    /\ ~Replicated
    /\ Applicable(intent.package)
    /\ holder' = p
    /\ work' = intent
    /\ phase' = "datasets"
    /\ UNCHANGED <<base, derived, fileVars, intent, waiting, at, rows, count, readerVars>>

(* _standalone() of the next data set: its rows are checked once more. *)
StartDataset(p) ==
    /\ holder = p
    /\ phase = "datasets"
    /\ at' \in Todo /\ \A i \in Todo : at' <= i
    /\ \A c \in DOMAIN work.package : DatasetOf[c] = Order[at'] => Fits(work.package, c)
    /\ rows' = Unapplied(work.package, Order[at'])
    /\ count' = (rows' # {})
    /\ phase' = "rows"
    /\ UNCHANGED <<base, derived, fileVars, intent, holder, waiting, work, readerVars>>

CommitRows(p) ==
    /\ holder = p
    /\ phase = "rows"
    /\ rows # {}
    /\ \E done \in SUBSET rows :
          /\ IF Order[at] \in RowByRow THEN Cardinality(done) = 1 ELSE done = rows
          /\ base' = [c \in Cells |-> IF c \in done THEN work.package[c].after
                                      ELSE base[c]]
          /\ rows' = rows \ done
    /\ UNCHANGED <<derived, fileVars, intent, holder, waiting, phase, work, at, count,
                   readerVars>>

(* intent["results"][name] = max(count, ...), and save(). *)
SaveResults(p) ==
    /\ holder = p
    /\ phase = "rows"
    /\ rows = {}
    /\ work' = [work EXCEPT !.results = IF count THEN @ \cup {Order[at]} ELSE @]
    /\ intent' = work'
    /\ at' = at + 1
    /\ phase' = "datasets"
    /\ UNCHANGED <<base, derived, fileVars, holder, waiting, rows, count, readerVars>>

(* Fault: what this attempt changed counts, and not what was recorded. *)
ForcedByAttempt == count /\ work.results \cap Forcing # {}

(* A recorded change of what the derived data depend on. *)
Forced == work.results \cap Forcing # {}

(* Neither a stock data set nor an input of them: on to the verification. *)
SkipStock(p) ==
    /\ holder = p
    /\ phase = "datasets"
    /\ Todo = {}
    /\ "stock" \notin work.names /\ ~Forced
    /\ phase' = "verify"
    /\ UNCHANGED <<base, derived, fileVars, intent, holder, waiting, work, at, rows, count,
                   readerVars>>

(* _stock_apply(): the rows with what follows from them, and all derived data if an
   input changed and the stock phase has not been recorded yet. *)
ApplyStock(p) ==
    /\ holder = p
    /\ phase = "datasets"
    /\ Todo = {}
    /\ "stock" \in work.names \/ Forced
    /\ LET changes == Unapplied(work.package, "stock")
       IN  /\ base' = [c \in Cells |-> IF c \in changes THEN work.package[c].after
                                       ELSE base[c]]
           /\ derived' = IF Forced /\ "stock" \notin work.results
                         THEN InputsOf(base')
                         ELSE [c \in Inputs |-> IF c \in changes THEN base'[c]
                                                ELSE derived[c]]
    /\ phase' = "stock"
    /\ UNCHANGED <<fileVars, intent, holder, waiting, work, at, rows, count, readerVars>>

SaveStock(p) ==
    /\ holder = p
    /\ phase = "stock"
    /\ work' = [work EXCEPT !.results = @ \cup {"stock"}]
    /\ intent' = work'
    /\ phase' = "verify"
    /\ UNCHANGED <<base, derived, fileVars, holder, waiting, at, rows, count, readerVars>>

(* Fault: the intent stays. *)
CompleteForgotten(p) ==
    /\ holder = p
    /\ phase = "verify"
    /\ holder' = NoOne
    /\ Forget
    /\ UNCHANGED <<base, derived, fileVars, intent, waiting, readerVars>>

(* All rows have their after image: the intent is removed. *)
Complete(p) ==
    /\ holder = p
    /\ phase = "verify"
    /\ \A c \in DOMAIN work.package : base[c] = work.package[c].after
    /\ intent' = NoIntent
    /\ holder' = NoOne
    /\ Forget
    /\ UNCHANGED <<base, derived, fileVars, waiting, readerVars>>

(* An exception or an exit: the lock and the memory go, the rest stays. *)
Stop(p) ==
    /\ p \in Faulty
    /\ holder = p
    /\ holder' = NoOne
    /\ Forget
    /\ UNCHANGED <<base, derived, fileVars, intent, waiting, readerVars>>

-----------------------------------------------------------------------------
(* The other users of the pool. *)

(* pool_lock(write=True) looks at the gate, then waits for the lock. *)
Arrive(w) ==
    /\ w \notin waiting
    /\ Replicated
    /\ waiting' = waiting \cup {w}
    /\ UNCHANGED <<base, derived, fileVars, intent, holder, memoryVars, readerVars>>

(* It has the lock, and writes: listing_metadata() and the other directories, and the
   consumer of the index synchronisation. *)
WriteRow(w) ==
    /\ w \in waiting
    /\ Free
    /\ \E c \in Ungated : \E v \in Contents[c] : base' = [base EXCEPT ![c] = v]
    /\ waiting' = waiting \ {w}
    /\ UNCHANGED <<derived, fileVars, intent, holder, memoryVars, readerVars>>

(* A canonical operation looks at the gate under the lock: a publication of stock
   rows with what is derived, or a new board snapshot of the pool's own. *)
Publish(w) ==
    /\ w \in waiting
    /\ Free
    /\ Replicated
    /\ \/ /\ "stock" \in Cells
          /\ \E v \in Contents["stock"] : base' = [base EXCEPT !["stock"] = v]
          /\ derived' = [derived EXCEPT !["stock"] = base'["stock"]]
       \/ /\ "board-source-state" \in Cells
          /\ \E v \in Contents["board-source-state"] \ {1} :
                base' = [base EXCEPT !["board-source-state"] = v]
          /\ UNCHANGED derived
    /\ waiting' = waiting \ {w}
    /\ UNCHANGED <<fileVars, intent, holder, memoryVars, readerVars>>

(* Fault: a reader looks at the gate before it waits for the lock only. *)
EnterReadEarly(r) ==
    /\ r \notin readLocks
    /\ holder = NoOne
    /\ readLocks' = readLocks \cup {r}
    /\ UNCHANGED <<base, derived, fileVars, intent, holder, waiting, memoryVars, view>>

(* pool_lock() of a reader: the gate again, under the shared lock. *)
EnterRead(r) ==
    /\ r \notin readLocks
    /\ holder = NoOne
    /\ Replicated
    /\ readLocks' = readLocks \cup {r}
    /\ UNCHANGED <<base, derived, fileVars, intent, holder, waiting, memoryVars, view>>

Read(r) ==
    /\ r \in readLocks
    /\ view' = [view EXCEPT ![r] = base]
    /\ UNCHANGED <<base, derived, fileVars, intent, holder, waiting, memoryVars, readLocks>>

ExitRead(r) ==
    /\ r \in readLocks
    /\ readLocks' = readLocks \ {r}
    /\ view' = [view EXCEPT ![r] = NoView]
    /\ UNCHANGED <<base, derived, fileVars, intent, holder, waiting, memoryVars>>

-----------------------------------------------------------------------------
Step(p) ==
    \/ SaveIntent(p) \/ StartDataset(p) \/ CommitRows(p) \/ SaveResults(p)
    \/ SkipStock(p) \/ ApplyStock(p) \/ SaveStock(p) \/ Complete(p)

Next ==
    \/ Export
    \/ \E p \in Procs : Begin(p) \/ Recover(p) \/ Step(p) \/ Stop(p)
    \/ \E w \in Writers : Arrive(w) \/ WriteRow(w) \/ Publish(w)
    \/ \E r \in Readers : EnterRead(r) \/ Read(r) \/ ExitRead(r)

Spec == Init /\ [][Next]_vars

(* What is begun under the lock ends; readers let it go; recover is called again
   until it succeeds. *)
FairSpec ==
    /\ Spec
    /\ \A p \in Procs : WF_vars(Step(p) \/ Stop(p))
    /\ \A p \in Procs \ Faulty : SF_vars(Recover(p))
    /\ \A r \in Readers : WF_vars(ExitRead(r))

-----------------------------------------------------------------------------
(* Properties. *)

(* The base rows once the intent, if there is one, has been completed. *)
Effective ==
    [c \in Cells |-> IF intent # NoIntent /\ c \in DOMAIN intent.package
                     THEN intent.package[c].after ELSE base[c]]

(* Packages take effect whole, on the rows they were made for only, and public
   readers see the pool before or after one. *)
Promised == INSTANCE ReplicatedPool WITH content <- Effective

ImplementsReplicatedPool == Promised!Spec

(* A crash between the data sets never leaves a source state that selects a
   snapshot the pool does not hold: the sets commit before what selects them. *)
SourceHasSnapshot ==
    Boards \subseteq Cells /\ base["board-source-state"] = 1 =>
        \A c \in Boards : base[c] = 1

(* An application, resumed or not, replaces a row only if the row is still the
   one the package was made for: what others wrote since is never overwritten. *)
ForeignRowsKept ==
    [][holder # NoOne =>
         \A c \in Cells : base'[c] # base[c] =>
             /\ c \in DOMAIN intent.package
             /\ base[c] = intent.package[c].before
             /\ base'[c] = intent.package[c].after]_vars

(* When the intent of a package that names no stock data set goes, the derived data
   have been computed from every row of a data set that was recorded as changed, in
   this attempt or an earlier one, wherever the attempts were interrupted and whatever
   was written in between.  (With a stock data set, even one without a row, it is not
   so: the stock phase of an attempt that recorded no change of an input counts for a
   later one that does.) *)
RecordedChangesAreDerived ==
    [][intent # NoIntent /\ intent' = NoIntent /\ "stock" \notin intent.names =>
         \A c \in DOMAIN intent.package \cap Inputs :
             DatasetOf[c] \in intent.results => derived[c] = base[c]]_vars

(* An interrupted application is completed, unless somebody wrote a row of the
   package that has neither of its images now. *)
ReplicaEnds == ~Replicated ~> Replicated \/ ~Applicable(intent.package)

(* "目录/日历/板块来源变化也触发相关股票计算": when no application is pending,
   the derived data are those of their inputs. *)
DerivedFollowsInputs == Replicated => derived = InputsOf(base)
=============================================================================
