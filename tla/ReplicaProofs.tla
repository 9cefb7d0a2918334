---------------------------- MODULE ReplicaProofs ----------------------------
(***************************************************************************)
(* Proofs about Replica, for any processes, writers, readers, cells,       *)
(* contents and packages: a source state never selects a snapshot that is  *)
(* not there, nothing that others wrote is overwritten, what was recorded  *)
(* as changed is derived from, and packages take effect whole.             *)
(***************************************************************************)
EXTENDS Replica, TLAPS

Busy == {"datasets", "rows", "stock", "verify"}

(* A package for a pool with the rows b: an immutable row is only ever added, and a
   source state that selects a snapshot comes with its rows, or the pool has them. *)
Installable(p, b) ==
    /\ \A c \in DOMAIN p : p[c].after \in Contents[c]
    /\ \A c \in DOMAIN p \cap Immutable : p[c].after = 1
    /\ "board-source-state" \in DOMAIN p /\ p["board-source-state"].after = 1 =>
          \A c \in Immutable : c \in Cells /\ (c \in DOMAIN p \/ b[c] = 1)

(* TypeOK, in three parts. *)
DataTypes ==
    /\ base \in Images
    /\ derived \in [Inputs -> Values]
    /\ view \in [Readers -> Images \cup {NoView}]
WorkTypes ==
    /\ IsPackage(package) /\ names \subseteq Datasets
    /\ intent # NoIntent => IsWork(intent)
    /\ IsWork(work)
ControlTypes ==
    /\ holder \in Procs \cup {NoOne}
    /\ readLocks \subseteq Readers /\ waiting \subseteq Writers
    /\ phase \in Phases
    /\ phase = "idle" => holder = NoOne /\ at = 1 /\ rows = {}
    /\ at \in 1..(Len(Order) + 1)
    /\ rows \subseteq Cells /\ count \in BOOLEAN

(* What the holder of the lock, its memory, the intent and the package have in common. *)
HolderInvariant ==
    /\ readLocks # {} => holder = NoOne /\ Replicated
    /\ phase = "idle" <=> holder = NoOne
    /\ phase \in {"idle", "begun"} => at = 1
    /\ Installable(package, base)
    /\ \A c \in DOMAIN package : DatasetOf[c] \in names
    /\ ~Replicated => intent.package = package /\ intent.names = names
    /\ holder # NoOne => work.package = package /\ work.names = names
    /\ phase = "begun" => Replicated /\ work.results = {}
    /\ phase \in Busy => ~Replicated /\ intent = work

(* The rows of the data sets before the position n have their new values. *)
WrittenTo(n) ==
    \A c \in DOMAIN work.package, i \in 1..Len(Order) :
        i < n /\ DatasetOf[c] = Order[i] => base[c] = work.package[c].after

(* What the holder has checked, and what it has written. *)
RowsInvariant ==
    /\ holder # NoOne => Applicable(work.package)
    /\ phase \in Busy => WrittenTo(at)
    /\ phase \in {"stock", "verify"} => WrittenTo(Len(Order) + 1)
    /\ phase = "rows" => at <= Len(Order) /\ rows = Unapplied(work.package, Order[at])

(* Once the stock phase of a package that names no stock data set is behind, the derived
   data are those of the package. *)
DerivedInvariant ==
    /\ "stock" \notin names
       /\ (phase = "stock" \/ (~Replicated /\ "stock" \in intent.results)) =>
          \A c \in DOMAIN package \cap Inputs : derived[c] = package[c].after
    /\ phase = "verify" /\ Forced => "stock" \in work.results

ReplicaInvariant ==
    /\ DataTypes /\ WorkTypes /\ ControlTypes
    /\ HolderInvariant /\ RowsInvariant /\ DerivedInvariant
    /\ SourceHasSnapshot

-----------------------------------------------------------------------------
(* Names and positions of the data sets. *)

LEMMA Positions ==
    /\ Len(Order) = 6
    /\ Order[1] = "board-snapshot-sets" /\ Order[2] = "board-snapshots"
    /\ Order[3] = "board-source-state" /\ Order[4] = "event-coverage"
    /\ Order[5] = "index-bars" /\ Order[6] = "securities"
  BY DEF Order

LEMMA Names ==
    /\ Cells \subseteq AllCells
    /\ \A c \in AllCells : DatasetOf[c] = "stock" <=> c = "stock"
    /\ \A c \in AllCells \ {"stock"} : \E i \in 1..Len(Order) : DatasetOf[c] = Order[i]
    /\ \A i \in 1..Len(Order) : Order[i] # "stock"
    /\ \A c \in Boards : DatasetOf[c] = c
    /\ \A c \in AllCells : DatasetOf[c] = "board-source-state" => c = "board-source-state"
  BY ConstantsAssumption, Positions DEF AllCells, DatasetOf, Boards

LEMMA WorkIsThere == ASSUME NEW w, IsWork(w) PROVE w # NoIntent
  BY AbsenceAssumption DEF IsWork, IsPackage

LEMMA NoWorkIsWork == IsWork(NoWork)
  BY DEF IsWork, IsPackage, NoWork, Packages, Works, Empty

LEMMA FirstWork ==
    ASSUME NEW p, IsPackage(p), NEW n \in SUBSET Datasets
    PROVE  IsWork([package |-> p, names |-> n, results |-> {}])
  BY DEF IsWork, IsPackage, Works

LEMMA MoreWork ==
    ASSUME NEW w, IsWork(w), NEW d \in Datasets
    PROVE  LET n == [w EXCEPT !.results = @ \cup {d}]
           IN  /\ IsWork(n) /\ n.package = w.package /\ n.names = w.names
               /\ n.results = w.results \cup {d}
  BY DEF IsWork, Works

LEMMA InOrder ==
    /\ \A i \in 1..Len(Order) : Order[i] \in Datasets
    /\ "stock" \in Datasets
  BY Positions DEF Datasets, ToSet, Order

LEMMA NamesOfCells == \A c \in Cells : DatasetOf[c] \in Datasets
  BY Names, InOrder

LEMMA AnImage ==
    ASSUME NEW n, n = [c \in Cells |-> n[c]], \A c \in Cells : n[c] \in Contents[c]
    PROVE  n \in Images
  BY DEF Images, Values

LEMMA Kinds ==
    /\ Boards = Immutable \cup {"board-source-state"}
    /\ "board-source-state" \notin Immutable /\ "stock" \notin Boards
    /\ Ungated \cap Boards = {} /\ Ungated \subseteq Cells /\ Inputs \subseteq Cells
  BY DEF Boards, Immutable, Ungated, Inputs

LEMMA StaysInstallable ==
    ASSUME NEW p, NEW b, NEW n, Installable(p, b),
           \A c \in Cells \cap Immutable : b[c] = 1 => n[c] = 1
    PROVE  Installable(p, n)
  BY DEF Installable

LEMMA InitHolds == Init => ReplicaInvariant
<1> SUFFICES ASSUME Init PROVE ReplicaInvariant
  OBVIOUS
<1> USE ConstantsAssumption, Positions DEF Init
<1>1. DataTypes
  BY DEF DataTypes, Images, Values, Inputs
<1>2. WorkTypes
  BY DEF WorkTypes, IsPackage, IsWork, NoWork, Packages, Works, Empty
<1>3. ControlTypes
  <2>1. 1 \in 1..(Len(Order) + 1)
    BY Positions
  <2> QED
    BY <2>1 DEF ControlTypes, Phases
<1>4. HolderInvariant
  BY DEF HolderInvariant, Installable, Empty, Replicated, Busy
<1>5. RowsInvariant /\ DerivedInvariant
  BY DEF Replicated, RowsInvariant, DerivedInvariant, Empty, Busy
<1>6. SourceHasSnapshot
  BY DEF SourceHasSnapshot, Boards
<1> QED
  BY <1>1, <1>2, <1>3, <1>4, <1>5, <1>6 DEF ReplicaInvariant

-----------------------------------------------------------------------------
(* The steps. *)

LEMMA ExportKeeps ==
    ASSUME ReplicaInvariant, Export
    PROVE  ReplicaInvariant'
<1> USE Positions DEF ReplicaInvariant, Export, fileVars, memoryVars, readerVars
<1>0. PICK s \in Selections, after \in Sources :
        /\ "board-source-state" \in s /\ after["board-source-state"] = 1 =>
              \A c \in Boards : after[c] = 1
        /\ package' = [c \in {c \in s : /\ after[c] # base[c]
                                        /\ c \in Immutable => after[c] = 1} |->
                           [before |-> base[c], after |-> after[c]]]
        /\ names' = {DatasetOf[c] : c \in s}
  OBVIOUS
<1>01. s \subseteq Cells /\ after \in Images
  BY ConstantsAssumption
<1>02. \A c \in s : after[c] \in Values /\ base[c] \in Values /\ after[c] \in Contents[c]
  BY <1>01 DEF DataTypes, Images
<1>03. IsPackage(package')
  BY <1>0, <1>01, <1>02 DEF IsPackage, Packages
<1>04. Installable(package', base)
  <2>1. "board-source-state" \in s => Immutable \subseteq s /\ Immutable \subseteq Boards
    BY ConstantsAssumption DEF Immutable, Boards
  <2> QED
    BY <1>0, <1>01, <1>02, <2>1 DEF Installable
<1>1. DataTypes'
  BY DEF DataTypes
<1>2. WorkTypes'
  <2>1. names' \subseteq Datasets
    BY <1>0, <1>01, NamesOfCells
  <2> QED
    BY <1>03, <2>1 DEF WorkTypes, Replicated
<1>3. ControlTypes'
  BY DEF ControlTypes, Phases
<1>4. HolderInvariant'
  <2>1. \A c \in DOMAIN package' : DatasetOf[c] \in names'
    BY <1>0
  <2> QED
    BY <1>04, <2>1 DEF ControlTypes, HolderInvariant, Busy, Replicated
<1>5. RowsInvariant'
  BY DEF DataTypes, ControlTypes, HolderInvariant, RowsInvariant, Busy, Replicated,
     WrittenTo, Applicable, Fits, Unapplied
<1>6. DerivedInvariant'
  BY DEF WorkTypes, HolderInvariant, DerivedInvariant, Busy, Replicated, Forced
<1>7. SourceHasSnapshot'
  BY DEF SourceHasSnapshot
<1> QED
  BY <1>1, <1>2, <1>3, <1>4, <1>5, <1>6, <1>7

LEMMA BeginKeeps ==
    ASSUME ReplicaInvariant, NEW p \in Procs, Begin(p)
    PROVE  ReplicaInvariant'
<1> USE Positions DEF ReplicaInvariant, Begin, Free, Replicated, fileVars, readerVars
<1>1. DataTypes'
  BY DEF DataTypes
<1>2. WorkTypes'
  BY FirstWork DEF WorkTypes
<1>3. ControlTypes'
  BY DEF ControlTypes, Phases
<1>4. HolderInvariant'
  <2>1. work'.package = package /\ work'.results = {} /\ holder' # NoOne /\ phase' = "begun"
    BY ConstantsAssumption
  <2> QED
    BY <2>1 DEF ControlTypes, HolderInvariant, Busy
<1>5. RowsInvariant'
  BY DEF DataTypes, ControlTypes, HolderInvariant, RowsInvariant, Busy, Replicated,
     WrittenTo, Applicable, Fits, Unapplied
<1>6. DerivedInvariant'
  BY DEF WorkTypes, HolderInvariant, DerivedInvariant, Busy, Replicated, Forced
<1>7. SourceHasSnapshot'
  BY DEF SourceHasSnapshot
<1> QED
  BY <1>1, <1>2, <1>3, <1>4, <1>5, <1>6, <1>7

LEMMA SaveIntentKeeps ==
    ASSUME ReplicaInvariant, NEW p \in Procs, SaveIntent(p)
    PROVE  ReplicaInvariant'
<1> USE Positions DEF ReplicaInvariant, SaveIntent, fileVars, readerVars
<1>1. DataTypes'
  BY DEF DataTypes
<1>2. WorkTypes'
  BY DEF WorkTypes
<1>3. ControlTypes'
  BY DEF ControlTypes, Phases
<1>4. HolderInvariant'
  <2>1. work # NoIntent
    BY WorkIsThere DEF WorkTypes
  <2> QED
    BY <2>1, ConstantsAssumption DEF ControlTypes, HolderInvariant, Busy, Replicated
<1>5. RowsInvariant'
  BY DEF DataTypes, ControlTypes, HolderInvariant, RowsInvariant, Busy, Replicated,
     WrittenTo, Applicable, Fits, Unapplied
<1>6. DerivedInvariant'
  BY DEF WorkTypes, HolderInvariant, DerivedInvariant, Busy, Replicated, Forced
<1>7. SourceHasSnapshot'
  BY DEF SourceHasSnapshot
<1> QED
  BY <1>1, <1>2, <1>3, <1>4, <1>5, <1>6, <1>7

LEMMA RecoverKeeps ==
    ASSUME ReplicaInvariant, NEW p \in Procs, Recover(p)
    PROVE  ReplicaInvariant'
<1> USE Positions DEF ReplicaInvariant, Recover, Free, fileVars, readerVars
<1>1. DataTypes'
  BY DEF DataTypes
<1>2. WorkTypes'
  BY DEF WorkTypes, Replicated
<1>3. ControlTypes'
  BY DEF ControlTypes, Phases
<1>4. HolderInvariant'
  BY ConstantsAssumption DEF ControlTypes, HolderInvariant, Busy, Replicated
<1>5. RowsInvariant'
  BY DEF DataTypes, ControlTypes, HolderInvariant, RowsInvariant, Busy, Replicated,
     WrittenTo, Applicable, Fits, Unapplied
<1>6. DerivedInvariant'
  BY DEF WorkTypes, HolderInvariant, DerivedInvariant, Busy, Replicated, Forced
<1>7. SourceHasSnapshot'
  BY DEF SourceHasSnapshot
<1> QED
  BY <1>1, <1>2, <1>3, <1>4, <1>5, <1>6, <1>7

LEMMA StartDatasetKeeps ==
    ASSUME ReplicaInvariant, NEW p \in Procs, StartDataset(p)
    PROVE  ReplicaInvariant'
<1> USE Positions DEF ReplicaInvariant, StartDataset, Todo, fileVars, readerVars
<1>1. DataTypes'
  BY DEF DataTypes
<1>2. WorkTypes'
  BY DEF WorkTypes
<1>3. ControlTypes'
  <2>1. at' \in 1..(Len(Order) + 1)
    BY DEF ControlTypes
  <2>2. rows' \subseteq Cells
    BY DEF WorkTypes, IsWork, IsPackage, Unapplied
  <2> QED
    BY <2>1, <2>2 DEF ControlTypes, Phases
<1>4. HolderInvariant'
  BY DEF WorkTypes, ControlTypes, HolderInvariant, Busy, Replicated, Phases
<1>5. RowsInvariant'
  BY DEF DataTypes, ControlTypes, HolderInvariant, RowsInvariant, Busy, Replicated,
     WrittenTo, Applicable, Fits, Unapplied
<1>6. DerivedInvariant'
  BY DEF WorkTypes, HolderInvariant, DerivedInvariant, Busy, Replicated, Forced
<1>7. SourceHasSnapshot'
  BY DEF SourceHasSnapshot
<1> QED
  BY <1>1, <1>2, <1>3, <1>4, <1>5, <1>6, <1>7

LEMMA CommitRowsKeeps ==
    ASSUME ReplicaInvariant, NEW p \in Procs, CommitRows(p)
    PROVE  ReplicaInvariant'
<1> USE Positions DEF ReplicaInvariant, CommitRows, fileVars, readerVars
<1>0. PICK done \in SUBSET rows :
        /\ base' = [c \in Cells |-> IF c \in done THEN work.package[c].after ELSE base[c]]
        /\ rows' = rows \ done
  OBVIOUS
<1>01. /\ at \in 1..Len(Order) /\ rows = Unapplied(work.package, Order[at])
       /\ work.package = package /\ Installable(package, base) /\ IsPackage(package)
  BY ConstantsAssumption DEF HolderInvariant, RowsInvariant, ControlTypes, WorkTypes
<1>02. \A c \in done : /\ c \in DOMAIN package \cap Cells /\ DatasetOf[c] = Order[at]
                       /\ package[c].after \in Contents[c]
                       /\ base'[c] = package[c].after
  BY <1>0, <1>01 DEF Unapplied, IsPackage, Installable
<1>03. \A c \in Cells \ done : base'[c] = base[c]
  BY <1>0
<1>04. \A c \in Cells \cap Immutable : base[c] = 1 => base'[c] = 1
  BY <1>01, <1>02, <1>03 DEF Installable
<1>1. DataTypes'
  <2>1. \A c \in Cells : base'[c] \in Contents[c]
    BY <1>02, <1>03 DEF DataTypes, Images
  <2>2. base' \in Images
    BY <1>0, <2>1, AnImage
  <2> QED
    BY <2>2 DEF DataTypes
<1>2. WorkTypes'
  BY DEF WorkTypes
<1>3. ControlTypes'
  BY DEF ControlTypes, Phases
<1>4. HolderInvariant'
  <2>1. Installable(package, base')
    BY <1>01, <1>04, StaysInstallable
  <2> QED
    BY <2>1 DEF HolderInvariant, Replicated
<1>5. RowsInvariant'
  <2>1. Applicable(package) /\ WrittenTo(at)
    BY <1>01, ConstantsAssumption DEF RowsInvariant, HolderInvariant, Busy
  <2>2. DOMAIN package \subseteq Cells
    BY <1>01 DEF IsPackage
  <2>3. Applicable(work.package)'
    BY <1>01, <1>02, <1>03, <2>1, <2>2 DEF Applicable, Fits
  <2>4. WrittenTo(at)'
    BY <1>01, <1>02, <1>03, <2>1, <2>2 DEF WrittenTo
  <2>5. rows' = Unapplied(work.package, Order[at])'
    BY <1>0, <1>01, <1>02, <1>03, <2>2 DEF Unapplied
  <2> QED
    BY <1>01, <2>3, <2>4, <2>5 DEF RowsInvariant
<1>6. DerivedInvariant'
  BY DEF WorkTypes, HolderInvariant, DerivedInvariant, Busy, Replicated, Forced
<1>7. SourceHasSnapshot'
  <2> SUFFICES ASSUME Boards \subseteq Cells, base'["board-source-state"] = 1,
                      NEW c \in Immutable
               PROVE  base'[c] = 1
    BY Kinds DEF SourceHasSnapshot
  <2>1. CASE base["board-source-state"] = 1
    BY <1>04, <2>1, Kinds DEF SourceHasSnapshot
  <2>2. CASE "board-source-state" \in done /\ c \in DOMAIN package
    <3>1. Order[at] = "board-source-state" /\ package["board-source-state"].after = 1
      BY <1>02, <2>2, Names, Kinds
    <3>2. \E i \in 1..Len(Order) : i < at /\ DatasetOf[c] = Order[i]
      BY <1>01, <3>1, Names, Kinds DEF Immutable
    <3>3. base[c] = 1
      BY <1>01, <2>2, <3>2 DEF RowsInvariant, WrittenTo, Busy, Installable
    <3> QED
      BY <1>04, <3>3, Kinds
  <2>3. CASE "board-source-state" \in done /\ c \notin DOMAIN package
    BY <1>01, <1>02, <1>04, <2>3, Kinds DEF Installable
  <2> QED
    BY <1>03, <2>1, <2>2, <2>3, Kinds
<1> QED
  BY <1>1, <1>2, <1>3, <1>4, <1>5, <1>6, <1>7

LEMMA SaveResultsKeeps ==
    ASSUME ReplicaInvariant, NEW p \in Procs, SaveResults(p)
    PROVE  ReplicaInvariant'
<1> USE Positions DEF ReplicaInvariant, SaveResults, fileVars, readerVars
<1>1. DataTypes'
  BY DEF DataTypes
<1>2. WorkTypes'
  <2>1. Order[at] \in Datasets
    BY InOrder DEF RowsInvariant, ControlTypes
  <2>2. CASE count
    BY <2>1, <2>2, MoreWork DEF WorkTypes
  <2>3. CASE ~count
    <3>1. work' = work
      BY <2>3 DEF WorkTypes, IsWork, Works
    <3> QED
      BY <3>1 DEF WorkTypes
  <2> QED
    BY <2>2, <2>3
<1>3. ControlTypes'
  <2>1. at + 1 \in 1..(Len(Order) + 1)
    BY DEF RowsInvariant, ControlTypes
  <2> QED
    BY <2>1 DEF ControlTypes, Phases
<1>4. HolderInvariant'
  <2>1. work'.package = work.package /\ work'.names = work.names
    BY DEF WorkTypes, IsWork, Works
  <2>2. work' # NoIntent
    BY <1>2, WorkIsThere DEF WorkTypes
  <2>3. /\ intent' = work' /\ phase' = "datasets" /\ holder # NoOne
        /\ UNCHANGED <<holder, base, package, names, readLocks>>
    BY ConstantsAssumption
  <2> HIDE DEF SaveResults
  <2> QED
    BY <2>1, <2>2, <2>3 DEF HolderInvariant, Busy, Replicated
<1>5. RowsInvariant'
  BY DEF DataTypes, ControlTypes, HolderInvariant, RowsInvariant, Busy, Replicated,
     WrittenTo, Applicable, Fits, Unapplied
<1>6. DerivedInvariant'
  <2>1. /\ work'.package = work.package
        /\ "stock" \in work'.results => "stock" \in work.results
    BY Names DEF WorkTypes, ControlTypes, RowsInvariant, IsWork, Works
  <2> QED
    BY <2>1 DEF HolderInvariant, DerivedInvariant, Busy, Replicated
<1>7. SourceHasSnapshot'
  BY DEF SourceHasSnapshot
<1> QED
  BY <1>1, <1>2, <1>3, <1>4, <1>5, <1>6, <1>7

LEMMA SkipStockKeeps ==
    ASSUME ReplicaInvariant, NEW p \in Procs, SkipStock(p)
    PROVE  ReplicaInvariant'
<1> USE Positions DEF ReplicaInvariant, SkipStock, Todo, fileVars, readerVars
<1>1. DataTypes'
  BY DEF DataTypes
<1>2. WorkTypes'
  BY DEF WorkTypes
<1>3. ControlTypes'
  BY DEF ControlTypes, Phases
<1>4. HolderInvariant'
  BY DEF WorkTypes, ControlTypes, HolderInvariant, Busy, Replicated, Phases
<1>5. RowsInvariant'
  BY DEF DataTypes, ControlTypes, HolderInvariant, RowsInvariant, Busy, Replicated,
     WrittenTo, Applicable, Fits, Unapplied
<1>6. DerivedInvariant'
  BY DEF WorkTypes, HolderInvariant, DerivedInvariant, Busy, Replicated, Forced
<1>7. SourceHasSnapshot'
  BY DEF SourceHasSnapshot
<1> QED
  BY <1>1, <1>2, <1>3, <1>4, <1>5, <1>6, <1>7

LEMMA ApplyStockKeeps ==
    ASSUME ReplicaInvariant, NEW p \in Procs, ApplyStock(p)
    PROVE  ReplicaInvariant'
<1> USE Positions DEF ReplicaInvariant, ApplyStock, Todo, fileVars, readerVars
<1>0. /\ work.package = package /\ Installable(package, base) /\ IsPackage(package)
      /\ work.names = names /\ \A c \in DOMAIN package : DatasetOf[c] \in names
      /\ intent = work
  BY ConstantsAssumption DEF HolderInvariant, WorkTypes, Busy
<1>01. \A c \in Unapplied(work.package, "stock") :
          c = "stock" /\ c \in Cells \cap DOMAIN package /\ package[c].after \in Contents[c]
  BY <1>0, Names DEF Unapplied, IsPackage, Installable
<1>02. \A c \in Cells \ {"stock"} : base'[c] = base[c]
  BY <1>01
<1>03. "stock" \in Cells => base'["stock"] \in {base["stock"], work.package["stock"].after}
  BY <1>01
<1>1. DataTypes'
  <2>1. \A c \in Cells : base'[c] \in Contents[c]
    BY <1>0, <1>01 DEF DataTypes, Images
  <2>2. base' \in Images
    BY <2>1, AnImage
  <2>3. \A c \in Inputs : base'[c] \in Values
    BY <2>2, Kinds DEF Images
  <2>4. derived' \in [Inputs -> Values]
    BY <2>3 DEF DataTypes, InputsOf
  <2> QED
    BY <2>2, <2>4 DEF DataTypes
<1>2. WorkTypes'
  BY DEF WorkTypes
<1>3. ControlTypes'
  BY DEF ControlTypes, Phases
<1>4. HolderInvariant'
  <2>1. Installable(package, base')
    BY <1>0, <1>02, Kinds, StaysInstallable
  <2> QED
    BY <2>1, <1>0 DEF HolderInvariant, Busy, Replicated
<1>5. RowsInvariant'
  <2>1. Applicable(package) /\ WrittenTo(at) /\ DOMAIN package \subseteq Cells
    BY <1>0, ConstantsAssumption DEF RowsInvariant, HolderInvariant, Busy, IsPackage
  <2>2. Applicable(work.package)'
    BY <1>0, <1>02, <1>03, <2>1 DEF Applicable, Fits
  <2>3. \A c \in DOMAIN work.package, i \in 1..Len(Order) : DatasetOf[c] = Order[i] => i < at
    BY <1>0 DEF ControlTypes
  <2>4. WrittenTo(Len(Order) + 1)' /\ WrittenTo(at)'
    BY <1>0, <1>02, <2>1, <2>3, Names DEF WrittenTo
  <2> QED
    BY <2>2, <2>4 DEF RowsInvariant
<1>6. DerivedInvariant'
  <2> SUFFICES ASSUME "stock" \notin names, NEW c \in DOMAIN package \cap Inputs
               PROVE  derived'[c] = package[c].after
    BY DEF DerivedInvariant
  <2>1. Unapplied(work.package, "stock") = {} /\ Forced
    BY <1>0, <1>01, Names
  <2>2. CASE "stock" \notin work.results
    <3>1. base'[c] = package[c].after
      BY <1>0, <1>5, Names DEF RowsInvariant, WrittenTo, IsPackage
    <3> QED
      BY <2>1, <2>2, <3>1 DEF InputsOf
  <2>3. CASE "stock" \in work.results
    BY <1>0, <2>1, <2>3 DEF DerivedInvariant, HolderInvariant, Busy
  <2> QED
    BY <2>2, <2>3
<1>7. SourceHasSnapshot'
  BY <1>02, Kinds DEF SourceHasSnapshot
<1> QED
  BY <1>1, <1>2, <1>3, <1>4, <1>5, <1>6, <1>7

LEMMA SaveStockKeeps ==
    ASSUME ReplicaInvariant, NEW p \in Procs, SaveStock(p)
    PROVE  ReplicaInvariant'
<1> USE Positions DEF ReplicaInvariant, SaveStock, fileVars, readerVars
<1>1. DataTypes'
  BY DEF DataTypes
<1>2. WorkTypes'
  BY MoreWork, InOrder DEF WorkTypes
<1>3. ControlTypes'
  BY DEF ControlTypes, Phases
<1>4. HolderInvariant'
  <2>1. work'.package = work.package /\ work'.names = work.names
    BY DEF WorkTypes, IsWork, Works
  <2>2. work' # NoIntent
    BY <1>2, WorkIsThere DEF WorkTypes
  <2> QED
    BY <2>1, <2>2, ConstantsAssumption DEF ControlTypes, HolderInvariant, Busy, Replicated
<1>5. RowsInvariant'
  BY DEF DataTypes, ControlTypes, HolderInvariant, RowsInvariant, Busy, Replicated,
     WrittenTo, Applicable, Fits, Unapplied
<1>6. DerivedInvariant'
  BY DEF WorkTypes, HolderInvariant, DerivedInvariant, Busy, Replicated, Forced
<1>7. SourceHasSnapshot'
  BY DEF SourceHasSnapshot
<1> QED
  BY <1>1, <1>2, <1>3, <1>4, <1>5, <1>6, <1>7

LEMMA CompleteKeeps ==
    ASSUME ReplicaInvariant, NEW p \in Procs, Complete(p)
    PROVE  ReplicaInvariant'
<1> USE Positions DEF ReplicaInvariant, Complete, Forget, fileVars, readerVars
<1>1. DataTypes'
  BY DEF DataTypes
<1>2. WorkTypes'
  BY NoWorkIsWork DEF WorkTypes
<1>3. ControlTypes'
  <2>1. 1 \in 1..(Len(Order) + 1)
    OBVIOUS
  <2> QED
    BY <2>1 DEF ControlTypes, Phases
<1>4. HolderInvariant'
  BY DEF WorkTypes, ControlTypes, HolderInvariant, Busy, Replicated, Phases
<1>5. RowsInvariant'
  BY DEF DataTypes, ControlTypes, HolderInvariant, RowsInvariant, Busy, Replicated,
     WrittenTo, Applicable, Fits, Unapplied
<1>6. DerivedInvariant'
  BY DEF WorkTypes, HolderInvariant, DerivedInvariant, Busy, Replicated, Forced
<1>7. SourceHasSnapshot'
  BY DEF SourceHasSnapshot
<1> QED
  BY <1>1, <1>2, <1>3, <1>4, <1>5, <1>6, <1>7

LEMMA StopKeeps ==
    ASSUME ReplicaInvariant, NEW p \in Procs, Stop(p)
    PROVE  ReplicaInvariant'
<1> USE Positions DEF ReplicaInvariant, Stop, Forget, fileVars, readerVars
<1>1. DataTypes'
  BY DEF DataTypes
<1>2. WorkTypes'
  BY NoWorkIsWork DEF WorkTypes
<1>3. ControlTypes'
  <2>1. 1 \in 1..(Len(Order) + 1)
    OBVIOUS
  <2> QED
    BY <2>1 DEF ControlTypes, Phases
<1>4. HolderInvariant'
  BY DEF WorkTypes, ControlTypes, HolderInvariant, Busy, Replicated, Phases
<1>5. RowsInvariant'
  BY DEF DataTypes, ControlTypes, HolderInvariant, RowsInvariant, Busy, Replicated,
     WrittenTo, Applicable, Fits, Unapplied
<1>6. DerivedInvariant'
  BY DEF WorkTypes, HolderInvariant, DerivedInvariant, Busy, Replicated, Forced
<1>7. SourceHasSnapshot'
  BY DEF SourceHasSnapshot
<1> QED
  BY <1>1, <1>2, <1>3, <1>4, <1>5, <1>6, <1>7

LEMMA ArriveKeeps ==
    ASSUME ReplicaInvariant, NEW w \in Writers, Arrive(w)
    PROVE  ReplicaInvariant'
<1> USE Positions DEF ReplicaInvariant, Arrive, fileVars, memoryVars, readerVars
<1>1. DataTypes'
  BY DEF DataTypes
<1>2. WorkTypes'
  BY DEF WorkTypes
<1>3. ControlTypes'
  BY DEF ControlTypes, Phases
<1>4. HolderInvariant'
  BY DEF WorkTypes, ControlTypes, HolderInvariant, Busy, Replicated, Phases
<1>5. RowsInvariant'
  BY DEF DataTypes, ControlTypes, HolderInvariant, RowsInvariant, Busy, Replicated,
     WrittenTo, Applicable, Fits, Unapplied
<1>6. DerivedInvariant'
  BY DEF WorkTypes, HolderInvariant, DerivedInvariant, Busy, Replicated, Forced
<1>7. SourceHasSnapshot'
  BY DEF SourceHasSnapshot
<1> QED
  BY <1>1, <1>2, <1>3, <1>4, <1>5, <1>6, <1>7

LEMMA WriteRowKeeps ==
    ASSUME ReplicaInvariant, NEW w \in Writers, WriteRow(w)
    PROVE  ReplicaInvariant'
<1> USE Positions DEF ReplicaInvariant, WriteRow, Free, Ungated, fileVars, memoryVars, readerVars
<1>00. PICK c \in Ungated : \E v \in Contents[c] : base' = [base EXCEPT ![c] = v]
  OBVIOUS
<1>0. PICK v \in Contents[c] : base' = [base EXCEPT ![c] = v]
  BY <1>00
<1>01. c \in Cells \ Boards /\ \A d \in Cells : base'[d] = IF d = c THEN v ELSE base[d]
  BY <1>0, Kinds DEF DataTypes, Images
<1>1. DataTypes'
  <2>1. base' \in Images
    BY <1>0, <1>01, AnImage DEF DataTypes, Images
  <2> QED
    BY <2>1 DEF DataTypes
<1>2. WorkTypes'
  BY DEF WorkTypes
<1>3. ControlTypes'
  BY DEF ControlTypes, Phases
<1>4. HolderInvariant'
  <2>1. \A d \in Cells \cap Immutable : base[d] = 1 => base'[d] = 1
    BY <1>01, Kinds
  <2>2. Installable(package, base')
    BY <2>1, StaysInstallable DEF HolderInvariant
  <2> QED
    BY <2>2 DEF HolderInvariant, Replicated
<1>5. RowsInvariant'
  BY DEF DataTypes, ControlTypes, HolderInvariant, RowsInvariant, Busy, Replicated,
     WrittenTo, Applicable, Fits, Unapplied
<1>6. DerivedInvariant'
  BY DEF WorkTypes, HolderInvariant, DerivedInvariant, Busy, Replicated, Forced
<1>7. SourceHasSnapshot'
  BY <1>01, Kinds DEF SourceHasSnapshot
<1> QED
  BY <1>1, <1>2, <1>3, <1>4, <1>5, <1>6, <1>7

LEMMA PublishKeeps ==
    ASSUME ReplicaInvariant, NEW w \in Writers, Publish(w)
    PROVE  ReplicaInvariant'
<1> USE Positions DEF ReplicaInvariant, Publish, Free, fileVars, memoryVars, readerVars
<1>00. PICK c \in {"stock", "board-source-state"} :
          \E v \in Contents[c] :
             /\ c \in Cells /\ base' = [base EXCEPT ![c] = v]
             /\ c = "board-source-state" => v # 1 /\ derived' = derived
             /\ c = "stock" => derived' = [derived EXCEPT !["stock"] = base'["stock"]]
  OBVIOUS
<1>0. PICK v \in Contents[c] :
        /\ c \in Cells /\ base' = [base EXCEPT ![c] = v]
        /\ c = "board-source-state" => v # 1 /\ derived' = derived
        /\ c = "stock" => derived' = [derived EXCEPT !["stock"] = base'["stock"]]
  BY <1>00
<1>01. \A d \in Cells : base'[d] = IF d = c THEN v ELSE base[d]
  BY <1>0 DEF DataTypes, Images
<1>1. DataTypes'
  <2>1. base' \in Images
    BY <1>0, <1>01, AnImage DEF DataTypes, Images
  <2>2. \A d \in Cells : base'[d] \in Values
    BY <2>1 DEF Images
  <2>3. derived' \in [Inputs -> Values]
    BY <1>0, <2>2 DEF DataTypes
  <2> QED
    BY <2>1, <2>3 DEF DataTypes
<1>2. WorkTypes'
  BY DEF WorkTypes
<1>3. ControlTypes'
  BY DEF ControlTypes, Phases
<1>4. HolderInvariant'
  <2>1. \A d \in Cells \cap Immutable : base[d] = 1 => base'[d] = 1
    BY <1>0, <1>01, Kinds
  <2>2. Installable(package, base')
    BY <2>1, StaysInstallable DEF HolderInvariant
  <2> QED
    BY <2>2 DEF HolderInvariant, Replicated
<1>5. RowsInvariant'
  BY DEF DataTypes, ControlTypes, HolderInvariant, RowsInvariant, Busy, Replicated,
     WrittenTo, Applicable, Fits, Unapplied
<1>6. DerivedInvariant'
  BY DEF WorkTypes, HolderInvariant, DerivedInvariant, Busy, Replicated, Forced
<1>7. SourceHasSnapshot'
  BY <1>0, <1>01, Kinds DEF SourceHasSnapshot
<1> QED
  BY <1>1, <1>2, <1>3, <1>4, <1>5, <1>6, <1>7

LEMMA EnterReadKeeps ==
    ASSUME ReplicaInvariant, NEW r \in Readers, EnterRead(r)
    PROVE  ReplicaInvariant'
<1> USE Positions DEF ReplicaInvariant, EnterRead, fileVars, memoryVars
<1>1. DataTypes'
  BY DEF DataTypes
<1>2. WorkTypes'
  BY DEF WorkTypes
<1>3. ControlTypes'
  BY DEF ControlTypes, Phases
<1>4. HolderInvariant'
  BY DEF WorkTypes, ControlTypes, HolderInvariant, Busy, Replicated, Phases
<1>5. RowsInvariant'
  BY DEF DataTypes, ControlTypes, HolderInvariant, RowsInvariant, Busy, Replicated,
     WrittenTo, Applicable, Fits, Unapplied
<1>6. DerivedInvariant'
  BY DEF WorkTypes, HolderInvariant, DerivedInvariant, Busy, Replicated, Forced
<1>7. SourceHasSnapshot'
  BY DEF SourceHasSnapshot
<1> QED
  BY <1>1, <1>2, <1>3, <1>4, <1>5, <1>6, <1>7

LEMMA ReadKeeps ==
    ASSUME ReplicaInvariant, NEW r \in Readers, Read(r)
    PROVE  ReplicaInvariant'
<1> USE Positions DEF ReplicaInvariant, Read, fileVars, memoryVars
<1>1. DataTypes'
  BY DEF DataTypes
<1>2. WorkTypes'
  BY DEF WorkTypes
<1>3. ControlTypes'
  BY DEF ControlTypes, Phases
<1>4. HolderInvariant'
  BY DEF WorkTypes, ControlTypes, HolderInvariant, Busy, Replicated, Phases
<1>5. RowsInvariant'
  BY DEF DataTypes, ControlTypes, HolderInvariant, RowsInvariant, Busy, Replicated,
     WrittenTo, Applicable, Fits, Unapplied
<1>6. DerivedInvariant'
  BY DEF WorkTypes, HolderInvariant, DerivedInvariant, Busy, Replicated, Forced
<1>7. SourceHasSnapshot'
  BY DEF SourceHasSnapshot
<1> QED
  BY <1>1, <1>2, <1>3, <1>4, <1>5, <1>6, <1>7

LEMMA ExitReadKeeps ==
    ASSUME ReplicaInvariant, NEW r \in Readers, ExitRead(r)
    PROVE  ReplicaInvariant'
<1> USE Positions DEF ReplicaInvariant, ExitRead, fileVars, memoryVars
<1>1. DataTypes'
  BY DEF DataTypes
<1>2. WorkTypes'
  BY DEF WorkTypes
<1>3. ControlTypes'
  BY DEF ControlTypes, Phases
<1>4. HolderInvariant'
  BY DEF WorkTypes, ControlTypes, HolderInvariant, Busy, Replicated, Phases
<1>5. RowsInvariant'
  BY DEF DataTypes, ControlTypes, HolderInvariant, RowsInvariant, Busy, Replicated,
     WrittenTo, Applicable, Fits, Unapplied
<1>6. DerivedInvariant'
  BY DEF WorkTypes, HolderInvariant, DerivedInvariant, Busy, Replicated, Forced
<1>7. SourceHasSnapshot'
  BY DEF SourceHasSnapshot
<1> QED
  BY <1>1, <1>2, <1>3, <1>4, <1>5, <1>6, <1>7

LEMMA StepHolds == ReplicaInvariant /\ [Next]_vars => ReplicaInvariant'
<1> SUFFICES ASSUME ReplicaInvariant, [Next]_vars PROVE ReplicaInvariant'
  OBVIOUS
<1>1. CASE Export
  BY <1>1, ExportKeeps
<1>2. ASSUME NEW p \in Procs, Begin(p) \/ Recover(p) \/ Step(p) \/ Stop(p)
      PROVE  ReplicaInvariant'
  BY <1>2, BeginKeeps, RecoverKeeps, StopKeeps, SaveIntentKeeps, StartDatasetKeeps,
     CommitRowsKeeps, SaveResultsKeeps, SkipStockKeeps, ApplyStockKeeps, SaveStockKeeps,
     CompleteKeeps DEF Step
<1>3. ASSUME NEW w \in Writers, Arrive(w) \/ WriteRow(w) \/ Publish(w)
      PROVE  ReplicaInvariant'
  BY <1>3, ArriveKeeps, WriteRowKeeps, PublishKeeps
<1>4. ASSUME NEW r \in Readers, EnterRead(r) \/ Read(r) \/ ExitRead(r)
      PROVE  ReplicaInvariant'
  BY <1>4, EnterReadKeeps, ReadKeeps, ExitReadKeeps
<1>5. CASE UNCHANGED vars
  BY <1>5 DEF vars, fileVars, memoryVars, readerVars, ReplicaInvariant, DataTypes, WorkTypes,
     ControlTypes, HolderInvariant, RowsInvariant, WrittenTo, Applicable, Fits, Unapplied,
     DerivedInvariant, SourceHasSnapshot, Replicated, Forced
<1> QED
  BY <1>1, <1>2, <1>3, <1>4, <1>5 DEF Next

(* The inductive invariant of the application and its recovery. *)
THEOREM InvariantHolds == Spec => []ReplicaInvariant
<1> QED
  BY InitHolds, StepHolds, PTL DEF Spec

(* All variables stay within their types. *)
THEOREM TypeCorrect == Spec => []TypeOK
<1>1. ReplicaInvariant => TypeOK
  BY DEF ReplicaInvariant, DataTypes, WorkTypes, ControlTypes, TypeOK
<1> QED
  BY <1>1, InvariantHolds, PTL

(* However an application is interrupted, a source state never selects a snapshot that
   the pool does not hold. *)
THEOREM SnapshotsPrecedeSources == Spec => []SourceHasSnapshot
<1>1. ReplicaInvariant => SourceHasSnapshot
  BY DEF ReplicaInvariant
<1> QED
  BY <1>1, InvariantHolds, PTL

(* No row that others wrote since the package was made is overwritten, in the first
   attempt or in a later one. *)
THEOREM ForeignRowsStay == Spec => ForeignRowsKept
<1> DEFINE Kept ==
      holder # NoOne =>
         \A c \in Cells : base'[c] # base[c] =>
             /\ c \in DOMAIN intent.package
             /\ base[c] = intent.package[c].before
             /\ base'[c] = intent.package[c].after
<1>1. ReplicaInvariant /\ [Next]_vars => [Kept]_vars
  <2> SUFFICES ASSUME ReplicaInvariant, Next, holder # NoOne,
                      NEW c \in Cells, base'[c] # base[c]
               PROVE  /\ c \in DOMAIN intent.package
                      /\ base[c] = intent.package[c].before
                      /\ base'[c] = intent.package[c].after
    BY DEF vars
  <2>1. PICK p \in Procs : CommitRows(p) \/ ApplyStock(p)
    BY DEF Next, Export, Begin, Recover, Stop, Step, SaveIntent, StartDataset, SaveResults,
       SkipStock, SaveStock, Complete, Arrive, WriteRow, Publish, EnterRead, Read, ExitRead,
       Free
  <2>2. intent = work /\ Applicable(work.package)
    BY <2>1 DEF ReplicaInvariant, HolderInvariant, RowsInvariant, CommitRows, ApplyStock, Busy
  <2>3. c \in DOMAIN work.package /\ base[c] # work.package[c].after
    BY <2>1 DEF ReplicaInvariant, RowsInvariant, CommitRows, ApplyStock, Unapplied
  <2>4. base'[c] = work.package[c].after
    BY <2>1, <2>3 DEF CommitRows, ApplyStock
  <2> QED
    BY <2>2, <2>3, <2>4 DEF Applicable, Fits
<1> QED
  BY <1>1, InvariantHolds, PTL DEF Spec, ForeignRowsKept

(* When an intent that names no stock data set goes, the derived data have been computed
   from all rows that any attempt has recorded as changed. *)
THEOREM RecordedChangesCount == Spec => RecordedChangesAreDerived
<1> DEFINE Derived ==
      intent # NoIntent /\ intent' = NoIntent /\ "stock" \notin intent.names =>
         \A c \in DOMAIN intent.package \cap Inputs :
             DatasetOf[c] \in intent.results => derived[c] = base[c]
<1>1. ReplicaInvariant /\ [Next]_vars => [Derived]_vars
  <2> SUFFICES ASSUME ReplicaInvariant, Next, intent # NoIntent, intent' = NoIntent,
                      "stock" \notin intent.names,
                      NEW c \in DOMAIN intent.package \cap Inputs,
                      DatasetOf[c] \in intent.results
               PROVE  derived[c] = base[c]
    BY DEF vars
  <2>1. ReplicaInvariant'
    BY StepHolds
  <2>2. PICK p \in Procs : Complete(p)
    <3>1. ASSUME NEW p \in Procs, SaveIntent(p) \/ SaveResults(p) \/ SaveStock(p)
          PROVE  intent' # NoIntent
      BY <2>1, <3>1, WorkIsThere
      DEF ReplicaInvariant, WorkTypes, SaveIntent, SaveResults, SaveStock
    <3> QED
      BY <3>1 DEF Next, Step, Export, Begin, Recover, Stop, StartDataset, CommitRows, SkipStock,
         ApplyStock, Arrive, WriteRow, Publish, EnterRead, Read, ExitRead, Replicated
  <2>3. /\ intent = work /\ intent.package = package /\ intent.names = names
        /\ base[c] = package[c].after /\ DatasetOf[c] \in names
    BY <2>2 DEF ReplicaInvariant, HolderInvariant, Complete, Busy, Replicated
  <2>4. DatasetOf[c] \in Forcing
    BY <2>3, Names, Kinds DEF Inputs
  <2>5. "stock" \in intent.results
    BY <2>2, <2>3, <2>4 DEF ReplicaInvariant, DerivedInvariant, Complete, Forced
  <2> QED
    BY <2>3, <2>5 DEF ReplicaInvariant, DerivedInvariant, Replicated
<1> QED
  BY <1>1, InvariantHolds, PTL DEF Spec, RecordedChangesAreDerived

-----------------------------------------------------------------------------
(* Packages take effect whole. *)

LEMMA EffectiveIsImage == ReplicaInvariant => Effective \in Images
<1> SUFFICES ASSUME ReplicaInvariant PROVE Effective \in Images
  OBVIOUS
<1>1. \A c \in Cells : Effective[c] \in Contents[c]
  BY DEF ReplicaInvariant, DataTypes, Images, HolderInvariant, Installable, Replicated,
     Effective
<1> QED
  BY <1>1, AnImage DEF Effective

LEMMA EffectiveIsBase == ReplicaInvariant /\ Replicated => Effective = base
  BY DEF ReplicaInvariant, DataTypes, Images, Effective, Replicated

(* What the holder writes is what the intent says already. *)
LEMMA WritesStutter ==
    ASSUME ReplicaInvariant, ReplicaInvariant', ~Replicated, intent'.package = intent.package,
           intent' # NoIntent,
           \A c \in Cells \ DOMAIN intent.package : base'[c] = base[c]
    PROVE  Effective' = Effective
  BY DEF Effective, Replicated

LEMMA StepRefines ==
    ASSUME ReplicaInvariant, ReplicaInvariant', [Next]_vars
    PROVE  [Promised!Next]_(Promised!poolVars)
<1> USE DEF Promised!poolVars
<1>1. CASE Export
  <2>1. Effective = base /\ Effective' = base' /\ base' = base /\ view' = view
    BY <1>1, EffectiveIsBase DEF Export, Effective, Replicated, fileVars, readerVars
  <2>2. IsPackage(package') /\ Installable(package', base')
    BY DEF ReplicaInvariant, WorkTypes, HolderInvariant
  <2>3. \A c \in DOMAIN package' : package'[c].before = base[c] /\ package'[c].after \in Values
    BY <1>1, <2>2 DEF Export, IsPackage, Packages
  <2> QED
    BY <2>1, <2>2, <2>3 DEF Promised!Next, Promised!Export, IsPackage
<1>2. ASSUME NEW p \in Procs, SaveIntent(p)
      PROVE  Promised!Next
  <2>1. /\ Replicated /\ work.package = package /\ Applicable(package)
        /\ intent' = work /\ ~Replicated' /\ UNCHANGED <<base, fileVars, view>>
        /\ DOMAIN package \subseteq Cells
    BY <1>2, ConstantsAssumption
    DEF ReplicaInvariant, WorkTypes, HolderInvariant, RowsInvariant, SaveIntent, Busy, IsPackage,
        fileVars, readerVars
  <2>2. Effective = base
    BY <2>1, EffectiveIsBase
  <2>3. \A c \in DOMAIN package : base[c] \in {package[c].before, package[c].after}
    BY <2>1 DEF Applicable, Fits
  <2>4. Effective' = [c \in Cells |-> IF c \in DOMAIN package THEN package[c].after ELSE base[c]]
    BY <2>1 DEF Effective, Replicated
  <2> QED
    BY <2>1, <2>2, <2>3, <2>4 DEF Promised!Next, Promised!Apply, fileVars
<1>3. ASSUME NEW p \in Procs,
             Begin(p) \/ Recover(p) \/ StartDataset(p) \/ SkipStock(p) \/ Stop(p)
      PROVE  UNCHANGED Promised!poolVars
  BY <1>3 DEF Begin, Recover, StartDataset, SkipStock, Stop, Effective, fileVars, readerVars
<1>4. ASSUME NEW p \in Procs, CommitRows(p) \/ SaveResults(p) \/ ApplyStock(p) \/ SaveStock(p)
      PROVE  UNCHANGED Promised!poolVars
  <2>1. intent = work /\ ~Replicated /\ IsWork(work)
    BY <1>4 DEF ReplicaInvariant, HolderInvariant, WorkTypes, CommitRows, SaveResults,
       ApplyStock, SaveStock, Busy
  <2>2. intent'.package = intent.package /\ intent' # NoIntent
    BY <1>4, <2>1, WorkIsThere DEF CommitRows, SaveResults, ApplyStock, SaveStock,
       ReplicaInvariant, WorkTypes, IsWork, Works, Replicated
  <2>3. \A c \in Cells \ DOMAIN intent.package : base'[c] = base[c]
    BY <1>4, <2>1 DEF ReplicaInvariant, RowsInvariant, CommitRows, SaveResults, ApplyStock,
       SaveStock, Unapplied, DataTypes, Images
  <2>4. Effective' = Effective
    BY <2>1, <2>2, <2>3, WritesStutter
  <2> QED
    BY <1>4, <2>4 DEF CommitRows, SaveResults, ApplyStock, SaveStock, fileVars, readerVars
<1>5. ASSUME NEW p \in Procs, Complete(p)
      PROVE  UNCHANGED Promised!poolVars
  <2>1. intent = work /\ ~Replicated
    BY <1>5 DEF ReplicaInvariant, HolderInvariant, Complete, Busy
  <2>2. Effective' = Effective
    BY <1>5, <2>1 DEF Complete, Effective, Replicated
  <2> QED
    BY <1>5, <2>2 DEF Complete, fileVars, readerVars
<1>6. ASSUME NEW w \in Writers, Arrive(w)
      PROVE  UNCHANGED Promised!poolVars
  BY <1>6 DEF Arrive, Effective, fileVars, readerVars
<1>7. ASSUME NEW w \in Writers, WriteRow(w) \/ Publish(w)
      PROVE  Promised!Next \/ UNCHANGED Promised!poolVars
  <2>1. PICK c \in Maintained : \E v \in Contents[c] : base' = [base EXCEPT ![c] = v]
    BY <1>7 DEF WriteRow, Publish, Maintained
  <2>2. PICK v \in Contents[c] : base' = [base EXCEPT ![c] = v]
    BY <2>1
  <2>3. c \in Cells /\ v \in Values /\ UNCHANGED <<intent, package, view>>
    BY <1>7, <2>2 DEF Maintained, Ungated, Values, WriteRow, Publish, fileVars, readerVars
  <2>4. CASE ~Replicated /\ c \in DOMAIN intent.package
    <3>0. \A d \in Cells \ {c} : base'[d] = base[d]
      BY <2>2 DEF ReplicaInvariant, DataTypes, Images
    <3>1. Effective' = Effective
      BY <2>3, <2>4, <3>0 DEF Effective, Replicated
    <3> QED
      BY <2>3, <3>1
  <2>5. CASE Replicated \/ c \notin DOMAIN intent.package
    <3>1. Effective' = [Effective EXCEPT ![c] = v]
      BY <2>2, <2>3, <2>5 DEF Effective, Replicated, ReplicaInvariant, DataTypes, Images
    <3> QED
      BY <2>3, <3>1 DEF Promised!Next, Promised!Write
  <2> QED
    BY <2>4, <2>5
<1>8. ASSUME NEW r \in Readers, EnterRead(r) \/ Read(r) \/ ExitRead(r)
      PROVE  Promised!Next \/ UNCHANGED Promised!poolVars
  <2>1. Effective' = Effective /\ UNCHANGED package
    BY <1>8 DEF EnterRead, Read, ExitRead, Effective, fileVars
  <2>2. CASE EnterRead(r)
    BY <2>1, <2>2 DEF EnterRead
  <2>3. CASE Read(r)
    <3>1. Effective = base
      BY <2>3, EffectiveIsBase DEF Read, ReplicaInvariant, HolderInvariant
    <3> QED
      BY <2>1, <2>3, <3>1 DEF Read, Promised!Next, Promised!Read
  <2>4. CASE ExitRead(r)
    BY <2>1, <2>4 DEF ExitRead, Promised!Next, Promised!Leave
  <2> QED
    BY <1>8, <2>2, <2>3, <2>4
<1>9. CASE UNCHANGED vars
  BY <1>9 DEF vars, fileVars, readerVars, Effective
<1> QED
  BY <1>1, <1>2, <1>3, <1>4, <1>5, <1>6, <1>7, <1>8, <1>9 DEF Next, Step

(* The application with its crashes and recoveries implements a pool that packages change
   whole, on the rows they were made for, with readers in between. *)
THEOREM ReplicaIsAtomic == Spec => ImplementsReplicatedPool
<1>1. Init => Promised!Init
  <2> SUFFICES ASSUME Init PROVE Promised!Init
    OBVIOUS
  <2>1. Effective \in [Cells -> Values]
    BY InitHolds, EffectiveIsImage DEF Images
  <2>2. package = <<>>
    BY DEF Init, Empty
  <2> QED
    BY <2>1, <2>2 DEF Init, Promised!Init
<1>2. ReplicaInvariant /\ ReplicaInvariant' /\ [Next]_vars => [Promised!Next]_(Promised!poolVars)
  BY StepRefines
<1> QED
  BY <1>1, <1>2, InvariantHolds, PTL DEF Spec, ImplementsReplicatedPool, Promised!Spec
=============================================================================
