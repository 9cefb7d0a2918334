------------------------ MODULE ChangeJournalProofs ------------------------
(***************************************************************************)
(* Proofs about ChangeJournal, for any rows, values, names of savepoints,  *)
(* and any length of the journal and depth of the savepoints.              *)
(***************************************************************************)
EXTENDS ChangeJournal, WellFoundedInduction, TLAPS

(* How many of Python's savepoints SQLite no longer has, and the length of the journal
   that goes with a savepoint of SQLite. *)
Gone == Len(savepoints) - Len(marks)
LengthAt(i) == savepoints[Gone + i].length

(* What the journal met first of a row is its content at the beginning, unless others
   have committed since. *)
FirstIsBegun ==
    ~overtaken =>
        \A i \in 1..Len(changes) :
            (\A j \in 1..(i - 1) : changes[j].key # changes[i].key) =>
                changes[i].before = begun[changes[i].key]

(* A table in which a row that the journal, up to a length, did not meet is the one of
   the beginning. *)
CoveredBy(length, table) ==
    \A k \in Keys : (\A i \in 1..length : changes[i].key # k) => table[k] = begun[k]

(* SQLite's savepoints are the last ones of Python; each has a table that the journal
   covered at the length that Python remembers, and these lengths grow. *)
StacksInvariant ==
    /\ Len(marks) <= Len(savepoints)
    /\ \A i \in 1..Len(marks) :
          /\ savepoints[Gone + i].name = marks[i].name
          /\ LengthAt(i) <= Len(changes)
          /\ CoveredBy(LengthAt(i), marks[i].table)
          /\ \A j \in 1..i : LengthAt(j) <= LengthAt(i)

JournalInvariant ==
    /\ FirstIsBegun
    /\ CoveredBy(Len(changes), rows)
    /\ StacksInvariant
    /\ ~inside => rows = begun /\ marks = <<>>

(* A number of a set of positions is the last of them. *)
LEMMA LastPosition ==
    ASSUME NEW n \in Nat, NEW S \in SUBSET (1..n), S # {}
    PROVE  \E i \in S : \A j \in S : j <= i
<1> DEFINE R == {ss \in Nat \X Nat : ss[1] < ss[2]}
           T == {n - i : i \in S}
<1>1. IsWellFoundedOn(R, Nat)
  BY NatLessThanWellFounded DEF OpToRel
<1>2. T \in SUBSET Nat /\ T # {}
  <2>1. \A i \in 1..n : n - i \in Nat
    OBVIOUS
  <2> QED
    BY <2>1
<1>3. \E x \in T : \A y \in T : <<y, x>> \notin R
  <2> HIDE DEF R, T
  <2> QED
    BY <1>1, <1>2, WFMin
<1>4. PICK i \in S : \A y \in T : <<y, n - i>> \notin R
  BY <1>3
<1>5. ASSUME NEW j \in S PROVE j <= i
  <2>1. n - j \in Nat /\ n - i \in Nat /\ <<n - j, n - i>> \in Nat \X Nat
    BY <1>2
  <2>2. <<n - j, n - i>> \notin R
    BY <1>4
  <2>3. ~(n - j < n - i)
    BY <2>1, <2>2
  <2> QED
    BY <2>3
<1> QED
  BY <1>5

LEMMA FirstPosition ==
    ASSUME NEW n \in Nat, NEW S \in SUBSET (1..n), S # {}
    PROVE  \E i \in S : \A j \in S : i <= j
<1> DEFINE R == {ss \in Nat \X Nat : ss[1] < ss[2]}
<1>1. IsWellFoundedOn(R, Nat)
  BY NatLessThanWellFounded DEF OpToRel
<1>2. S \in SUBSET Nat
  OBVIOUS
<1>3. PICK i \in S : \A y \in S : <<y, i>> \notin R
  <2> HIDE DEF R
  <2> QED
    BY <1>1, <1>2, WFMin
<1>4. ASSUME NEW j \in S PROVE i <= j
  <2>1. <<j, i>> \in Nat \X Nat
    OBVIOUS
  <2> QED
    BY <1>3, <2>1
<1> QED
  BY <1>4

(* The latest savepoint of a name, on either side, is there and is the last. *)
LEMMA LatestSavepoint ==
    ASSUME TypeOK, NEW n, Named(savepoints, n) # {}
    PROVE  /\ Latest(savepoints, n) \in 1..Len(savepoints)
           /\ savepoints[Latest(savepoints, n)].name = n
           /\ \A j \in 1..Len(savepoints) :
                 savepoints[j].name = n => j <= Latest(savepoints, n)
<1>1. Named(savepoints, n) \in SUBSET (1..Len(savepoints)) /\ Len(savepoints) \in Nat
  BY DEF Named, TypeOK
<1>2. \E i \in Named(savepoints, n) : \A j \in Named(savepoints, n) : j <= i
  BY <1>1, LastPosition
<1>3. /\ Latest(savepoints, n) \in Named(savepoints, n)
      /\ \A j \in Named(savepoints, n) : j <= Latest(savepoints, n)
  BY <1>2 DEF Latest
<1> QED
  BY <1>3 DEF Named

LEMMA LatestMark ==
    ASSUME TypeOK, NEW n, Named(marks, n) # {}
    PROVE  /\ Mark(n) \in 1..Len(marks)
           /\ marks[Mark(n)].name = n
           /\ \A j \in 1..Len(marks) : marks[j].name = n => j <= Mark(n)
<1>1. Named(marks, n) \in SUBSET (1..Len(marks)) /\ Len(marks) \in Nat
  BY DEF Named, TypeOK
<1>2. \E i \in Named(marks, n) : \A j \in Named(marks, n) : j <= i
  BY <1>1, LastPosition
<1>3. /\ Mark(n) \in Named(marks, n)
      /\ \A j \in Named(marks, n) : j <= Mark(n)
  BY <1>2 DEF Mark
<1> QED
  BY <1>3 DEF Named

(* ROLLBACK TO and RELEASE mean the same savepoint on both sides. *)
LEMMA SameSavepoint ==
    ASSUME TypeOK, StacksInvariant, NEW n, Named(marks, n) # {}, Named(savepoints, n) # {}
    PROVE  Latest(savepoints, n) = Gone + Mark(n)
<1>1. /\ Len(marks) \in Nat /\ Len(savepoints) \in Nat /\ Gone \in Nat
      /\ Gone + Len(marks) = Len(savepoints)
  BY DEF TypeOK, StacksInvariant, Gone
<1>2. Gone + Mark(n) <= Latest(savepoints, n)
  <2>1. Mark(n) \in 1..Len(marks) /\ marks[Mark(n)].name = n
    BY LatestMark
  <2>2. Gone + Mark(n) \in 1..Len(savepoints)
    BY <1>1, <2>1
  <2>3. savepoints[Gone + Mark(n)].name = n
    BY <2>1 DEF StacksInvariant
  <2> QED
    BY <2>2, <2>3, LatestSavepoint
<1>3. Latest(savepoints, n) <= Gone + Mark(n)
  <2> DEFINE l == Latest(savepoints, n)
  <2> SUFFICES ASSUME l > Gone + Mark(n) PROVE FALSE
    BY <1>1, LatestSavepoint, LatestMark
  <2>1. l - Gone \in 1..Len(marks) /\ Gone + (l - Gone) = l /\ l - Gone > Mark(n)
    BY <1>1, LatestSavepoint, LatestMark
  <2>2. marks[l - Gone].name = n
    BY <2>1, LatestSavepoint DEF StacksInvariant
  <2> QED
    BY <2>1, <2>2, LatestMark
<1>4. Latest(savepoints, n) \in Nat /\ Mark(n) \in Nat
  <2>1. Latest(savepoints, n) \in 1..Len(savepoints) /\ Mark(n) \in 1..Len(marks)
    BY LatestSavepoint, LatestMark
  <2> QED
    BY <1>1, <2>1
<1> QED
  BY <1>1, <1>2, <1>3, <1>4

(* The parts of the type invariant. *)
FlagType == inside \in BOOLEAN /\ guard \in BOOLEAN /\ overtaken \in BOOLEAN
TableType == rows \in Tables /\ begun \in Tables
JournalType == changes \in Seq(Changes)
StackType ==
    /\ savepoints \in Seq([name : Names, length : Nat])
    /\ marks \in Seq([name : Names, table : Tables])

LEMMA TypeParts == TypeOK <=> FlagType /\ TableType /\ JournalType /\ StackType
  BY DEF TypeOK, FlagType, TableType, JournalType, StackType

LEMMA InitJournal == Init => TypeOK /\ JournalInvariant
<1> SUFFICES ASSUME Init PROVE TypeOK /\ JournalInvariant
  OBVIOUS
<1>1. FlagType
  BY DEF Init, FlagType
<1>2. TableType /\ JournalType /\ StackType
  BY DEF Init, TableType, JournalType, StackType
<1>3. JournalInvariant
  BY DEF Init, JournalInvariant, FirstIsBegun, CoveredBy, StacksInvariant, Gone, LengthAt
<1> QED
  BY <1>1, <1>2, <1>3, TypeParts

-----------------------------------------------------------------------------
(* Types. *)
LEMMA BeforeType == TypeOK => \A k \in Keys : Before(k) \in Changes
  BY DEF TypeOK, Before, Changes, Tables, Row

LEMMA Prefix ==
    ASSUME NEW S, NEW s \in Seq(S), NEW n \in 0..Len(s)
    PROVE  /\ SubSeq(s, 1, n) \in Seq(S) /\ Len(SubSeq(s, 1, n)) = n
           /\ \A i \in 1..n : SubSeq(s, 1, n)[i] = s[i]
  OBVIOUS

LEMMA Element ==
    ASSUME NEW S, NEW s \in Seq(S), NEW i \in 1..Len(s) PROVE s[i] \in S
  OBVIOUS

(* How far ROLLBACK TO and RELEASE cut the three stacks. *)
LEMMA CutLengths ==
    ASSUME TypeOK, StacksInvariant, NEW n, Named(marks, n) # {}, Named(savepoints, n) # {}
    PROVE  /\ Latest(savepoints, n) \in 1..Len(savepoints) /\ Mark(n) \in 1..Len(marks)
           /\ savepoints[Latest(savepoints, n)].length = LengthAt(Mark(n))
           /\ savepoints[Latest(savepoints, n)].length \in 0..Len(changes)
<1>1. Latest(savepoints, n) \in 1..Len(savepoints) /\ Mark(n) \in 1..Len(marks)
  BY LatestSavepoint, LatestMark
<1>2. savepoints[Latest(savepoints, n)].length \in Nat
  <2>1. savepoints[Latest(savepoints, n)] \in [name : Names, length : Nat]
    BY <1>1, Element, TypeParts DEF StackType
  <2> QED
    BY <2>1
<1>3. savepoints[Latest(savepoints, n)].length = LengthAt(Mark(n))
  BY SameSavepoint DEF LengthAt
<1>4. LengthAt(Mark(n)) <= Len(changes) /\ Len(changes) \in Nat
  BY <1>1 DEF StacksInvariant, TypeOK
<1> QED
  BY <1>1, <1>2, <1>3, <1>4

LEMMA TypeStep == TypeOK /\ JournalInvariant /\ [Next]_vars => TypeOK'
<1> SUFFICES ASSUME TypeOK, StacksInvariant, [Next]_vars PROVE TypeOK'
  BY DEF JournalInvariant
<1> FlagType /\ TableType /\ JournalType /\ StackType
  BY TypeParts
<1>1. FlagType'
  <2> USE DEF FlagType
  <2>1. CASE Begin \/ BeginFails
    BY <2>1 DEF Begin, BeginFails
  <2>1a. ASSUME NEW t \in Tables, OthersCommit(t) PROVE FlagType'
    BY <2>1a DEF OthersCommit
  <2>2. CASE Statement
    BY <2>2 DEF Statement, CanChange, Insert, Update, Rekey, Delete, StatementFails
  <2>3. ASSUME NEW n \in Names, Savepoint(n) \/ RollbackTo(n) \/ Release(n) PROVE FlagType'
    BY <2>3 DEF Savepoint, RollbackTo, Release
  <2>4. CASE Commit \/ Rollback
    BY <2>4 DEF Commit, Rollback, Clean
  <2>5. CASE AutoRollback
    BY <2>5 DEF AutoRollback
  <2>6. CASE UNCHANGED vars
    BY <2>6 DEF vars
  <2> QED
    BY <2>1, <2>1a, <2>2, <2>3, <2>4, <2>5, <2>6 DEF Next
<1>2. TableType'
  <2> USE DEF TableType
  <2>1. CASE Begin \/ BeginFails
    BY <2>1 DEF Begin, BeginFails
  <2>1a. ASSUME NEW t \in Tables, OthersCommit(t) PROVE TableType'
    BY <2>1a DEF OthersCommit
  <2>2. ASSUME NEW k \in Keys, NEW v \in Values, Insert(k, v) \/ Update(k, v)
        PROVE  TableType'
    BY <2>2 DEF Insert, Update, CanChange, Tables, Row
  <2>3. ASSUME NEW k \in Keys, NEW j \in Keys, NEW v \in Values, Rekey(k, j, v)
        PROVE  TableType'
    BY <2>3 DEF Rekey, CanChange, Tables, Row
  <2>4. ASSUME NEW k \in Keys, Delete(k) \/ StatementFails(k) PROVE TableType'
    BY <2>4 DEF Delete, StatementFails, CanChange, Tables, Row
  <2>5. ASSUME NEW n \in Names, Savepoint(n) \/ Release(n) PROVE TableType'
    BY <2>5 DEF Savepoint, Release
  <2>6. ASSUME NEW n \in Names, RollbackTo(n) PROVE TableType'
    <3>1. rows' = marks[Mark(n)].table /\ begun' = begun /\ Mark(n) \in 1..Len(marks)
      BY <2>6, CutLengths DEF RollbackTo
    <3>2. marks[Mark(n)].table \in Tables
      <4>1. marks[Mark(n)] \in [name : Names, table : Tables]
        BY <3>1, Element DEF StackType
      <4> QED
        BY <4>1
    <3> QED
      BY <3>1, <3>2
  <2>7. CASE Commit
    BY <2>7 DEF Commit
  <2>8. CASE Rollback
    BY <2>8 DEF Rollback
  <2>9. CASE AutoRollback
    BY <2>9 DEF AutoRollback
  <2>10. CASE UNCHANGED vars
    BY <2>10 DEF vars
  <2> QED
    BY <2>1, <2>1a, <2>2, <2>3, <2>4, <2>5, <2>6, <2>7, <2>8, <2>9, <2>10 DEF Next, Statement
<1>3. JournalType'
  <2> USE BeforeType DEF JournalType
  <2>1. CASE Begin \/ BeginFails
    BY <2>1 DEF Begin, BeginFails
  <2>1a. ASSUME NEW t \in Tables, OthersCommit(t) PROVE JournalType'
    BY <2>1a DEF OthersCommit
  <2>2. ASSUME NEW k \in Keys, changes' = Append(changes, Before(k)) PROVE JournalType'
    BY <2>2
  <2>3. ASSUME NEW k \in Keys, NEW j \in Keys, NEW v \in Values, Rekey(k, j, v)
        PROVE  JournalType'
    BY <2>3 DEF Rekey
  <2>4. ASSUME NEW n \in Names, Savepoint(n) \/ Release(n) PROVE JournalType'
    BY <2>4 DEF Savepoint, Release
  <2>5. ASSUME NEW n \in Names, RollbackTo(n) PROVE JournalType'
    <3> DEFINE l == savepoints[Latest(savepoints, n)].length
    <3>1. changes' = SubSeq(changes, 1, l) /\ l \in 0..Len(changes)
      BY <2>5, CutLengths DEF RollbackTo
    <3> HIDE DEF l
    <3> QED
      BY <3>1, Prefix
  <2>6. CASE Commit \/ Rollback
    <3>1. changes' = <<>>
      BY <2>6 DEF Commit, Rollback, Clean
    <3> QED
      BY <3>1
  <2>7. CASE AutoRollback
    BY <2>7 DEF AutoRollback
  <2>8. CASE UNCHANGED vars
    BY <2>8 DEF vars
  <2> QED
    BY <2>1, <2>1a, <2>2, <2>3, <2>4, <2>5, <2>6, <2>7, <2>8
       DEF Next, Statement, Insert, Update, Delete, StatementFails
<1>4. StackType'
  <2> USE DEF StackType
  <2>1. CASE Begin \/ BeginFails
    BY <2>1 DEF Begin, BeginFails
  <2>1a. ASSUME NEW t \in Tables, OthersCommit(t) PROVE StackType'
    BY <2>1a DEF OthersCommit
  <2>2. CASE Statement
    BY <2>2 DEF Statement, CanChange, Insert, Update, Rekey, Delete, StatementFails
  <2>3. ASSUME NEW n \in Names, Savepoint(n) PROVE StackType'
    BY <2>3 DEF Savepoint, TableType, JournalType
  <2>4. ASSUME NEW n \in Names, RollbackTo(n) PROVE StackType'
    <3>1. /\ Latest(savepoints, n) \in 0..Len(savepoints) /\ Mark(n) \in 0..Len(marks)
          /\ savepoints' = SubSeq(savepoints, 1, Latest(savepoints, n))
          /\ marks' = SubSeq(marks, 1, Mark(n))
      BY <2>4, CutLengths DEF RollbackTo
    <3> QED
      BY <3>1, Prefix
  <2>5. ASSUME NEW n \in Names, Release(n) PROVE StackType'
    <3>1. /\ Latest(savepoints, n) - 1 \in 0..Len(savepoints) /\ Mark(n) - 1 \in 0..Len(marks)
          /\ savepoints' = SubSeq(savepoints, 1, Latest(savepoints, n) - 1)
          /\ marks' = SubSeq(marks, 1, Mark(n) - 1)
      BY <2>5, CutLengths DEF Release
    <3> QED
      BY <3>1, Prefix
  <2>6. CASE Commit \/ Rollback
    <3>1. savepoints' = <<>> /\ marks' = <<>>
      BY <2>6 DEF Commit, Rollback, Clean
    <3> QED
      BY <3>1
  <2>7. CASE AutoRollback
    BY <2>7 DEF AutoRollback
  <2>8. CASE UNCHANGED vars
    BY <2>8 DEF vars
  <2> QED
    BY <2>1, <2>1a, <2>2, <2>3, <2>4, <2>5, <2>6, <2>7, <2>8 DEF Next
<1> QED
  BY <1>1, <1>2, <1>3, <1>4 DEF TypeOK, FlagType, TableType, JournalType, StackType
-----------------------------------------------------------------------------
(* The journal. *)
LEMMA LengthType ==
    ASSUME TypeOK, StacksInvariant, NEW i \in 1..Len(marks) PROVE LengthAt(i) \in Nat
<1>1. Gone + i \in 1..Len(savepoints)
  BY DEF TypeOK, StacksInvariant, Gone
<1>2. savepoints[Gone + i] \in [name : Names, length : Nat]
  BY <1>1, Element, TypeParts DEF StackType
<1> QED
  BY <1>2 DEF LengthAt

(* Statements extend the journal by what they change, or more. *)
Extended ==
    /\ Len(changes) <= Len(changes')
    /\ \A i \in 1..Len(changes) : changes'[i] = changes[i]
    /\ \A i \in (Len(changes) + 1)..Len(changes') : \E k \in Keys : changes'[i] = Before(k)
    /\ \A k \in Keys : \/ rows'[k] = rows[k]
                       \/ \E i \in (Len(changes) + 1)..Len(changes') : changes'[i].key = k

LEMMA StatementExtends == TypeOK /\ Statement => Extended
<1> SUFFICES ASSUME TypeOK, Statement PROVE Extended
  OBVIOUS
<1>1. /\ changes \in Seq(Changes) /\ \A k \in Keys : Before(k).key = k /\ Before(k) \in Changes
      /\ rows \in Tables
  BY BeforeType DEF TypeOK, Before
<1>2. ASSUME NEW k \in Keys, changes' = Append(changes, Before(k)),
             \A j \in Keys \ {k} : rows'[j] = rows[j]
      PROVE  Extended
  <2>1. /\ Len(changes') = Len(changes) + 1 /\ Len(changes) \in Nat
        /\ changes'[Len(changes) + 1] = Before(k)
        /\ \A i \in 1..Len(changes) : changes'[i] = changes[i]
    BY <1>1, <1>2
  <2> QED
    BY <1>1, <1>2, <2>1 DEF Extended
<1>3. ASSUME NEW k \in Keys, NEW j \in Keys, changes' = changes \o <<Before(k), Before(j)>>,
             \A l \in Keys \ {k, j} : rows'[l] = rows[l]
      PROVE  Extended
  <2>1. /\ Len(changes') = Len(changes) + 2 /\ Len(changes) \in Nat
        /\ changes'[Len(changes) + 1] = Before(k)
        /\ changes'[Len(changes) + 2] = Before(j)
        /\ \A i \in 1..Len(changes) : changes'[i] = changes[i]
    BY <1>1, <1>3
  <2>2. \A i \in (Len(changes) + 1)..Len(changes') :
           i = Len(changes) + 1 \/ i = Len(changes) + 2
    BY <2>1
  <2>3. Before(k).key = k /\ Before(j).key = j
    BY <1>1
  <2>4. \A l \in Keys :
           rows'[l] # rows[l] =>
               \E i \in (Len(changes) + 1)..Len(changes') : changes'[i].key = l
    <3>1. Len(changes) + 1 \in (Len(changes) + 1)..Len(changes')
          /\ Len(changes) + 2 \in (Len(changes) + 1)..Len(changes')
      BY <2>1
    <3> QED
      BY <1>3, <2>1, <2>3, <3>1
  <2> QED
    BY <2>1, <2>2, <2>4 DEF Extended
<1>4. ASSUME NEW k \in Keys, NEW v \in Values, Insert(k, v) \/ Update(k, v) PROVE Extended
  BY <1>1, <1>2, <1>4 DEF Insert, Update, Tables
<1>5. ASSUME NEW k \in Keys, Delete(k) \/ StatementFails(k) PROVE Extended
  BY <1>1, <1>2, <1>5 DEF Delete, StatementFails, Tables
<1>6. ASSUME NEW k \in Keys, NEW j \in Keys, NEW v \in Values, Rekey(k, j, v) PROVE Extended
  BY <1>1, <1>3, <1>6 DEF Rekey, Tables
<1> QED
  BY <1>4, <1>5, <1>6 DEF Statement

LEMMA StatementStep ==
    TypeOK /\ TypeOK' /\ JournalInvariant /\ Statement => JournalInvariant'
<1> SUFFICES ASSUME TypeOK, TypeOK', JournalInvariant, Statement PROVE JournalInvariant'
  OBVIOUS
<1>1. /\ Len(changes) \in Nat /\ Len(changes') \in Nat /\ Extended
      /\ UNCHANGED <<begun, inside, guard, savepoints, marks, overtaken>> /\ inside
  <2>1. Len(changes) \in Nat /\ Len(changes') \in Nat
    BY DEF TypeOK
  <2>2. UNCHANGED <<begun, inside, guard, savepoints, marks, overtaken>> /\ inside
    BY DEF Statement, Insert, Update, Rekey, Delete, StatementFails, CanChange
  <2> QED
    BY <2>1, <2>2, StatementExtends
<1>2. FirstIsBegun'
  <2> SUFFICES ASSUME ~overtaken, NEW i \in 1..Len(changes'),
                      \A j \in 1..(i - 1) : changes'[j].key # changes'[i].key
               PROVE  changes'[i].before = begun[changes'[i].key]
    BY <1>1 DEF FirstIsBegun
  <2>1. CASE i <= Len(changes)
    <3>1. /\ i \in 1..Len(changes) /\ changes'[i] = changes[i]
          /\ \A j \in 1..(i - 1) : j \in 1..Len(changes) /\ changes'[j] = changes[j]
      BY <1>1, <2>1 DEF Extended
    <3> QED
      BY <3>1 DEF JournalInvariant, FirstIsBegun
  <2>2. CASE i > Len(changes)
    <3>1. PICK k \in Keys : changes'[i] = Before(k)
      BY <1>1, <2>2 DEF Extended
    <3>2. changes'[i].key = k /\ changes'[i].before = rows[k]
      BY <3>1 DEF Before
    <3>3. \A j \in 1..Len(changes) : changes[j].key # k
      BY <1>1, <2>2, <3>2 DEF Extended
    <3> QED
      BY <3>2, <3>3 DEF JournalInvariant, CoveredBy
  <2> QED
    BY <1>1, <2>1, <2>2
<1>3. CoveredBy(Len(changes), rows)'
  <2> SUFFICES ASSUME NEW k \in Keys, \A i \in 1..Len(changes') : changes'[i].key # k
               PROVE  rows'[k] = begun[k]
    BY <1>1 DEF CoveredBy
  <2>1. rows'[k] = rows[k]
    BY <1>1 DEF Extended
  <2>2. \A i \in 1..Len(changes) : changes[i].key # k
    BY <1>1 DEF Extended
  <2> QED
    BY <2>1, <2>2 DEF JournalInvariant, CoveredBy
<1>4. StacksInvariant'
  <2>1. Gone' = Gone /\ Len(marks)' = Len(marks) /\ Len(savepoints)' = Len(savepoints)
        /\ \A i \in 1..Len(marks) : LengthAt(i)' = LengthAt(i) /\ marks'[i] = marks[i]
    BY <1>1 DEF Gone, LengthAt
  <2>2. ASSUME NEW i \in 1..Len(marks)
        PROVE  LengthAt(i) <= Len(changes') /\ CoveredBy(LengthAt(i), marks[i].table)'
    <3>1. LengthAt(i) <= Len(changes) /\ CoveredBy(LengthAt(i), marks[i].table)
      BY DEF JournalInvariant, StacksInvariant
    <3>2. LengthAt(i) \in Nat
      BY LengthType DEF JournalInvariant
    <3> QED
      BY <1>1, <2>1, <3>1, <3>2 DEF Extended, CoveredBy
  <2> QED
    BY <1>1, <2>1, <2>2 DEF JournalInvariant, StacksInvariant
<1> QED
  BY <1>1, <1>2, <1>3, <1>4 DEF JournalInvariant
(* Savepoints. *)
LEMMA SavepointStep ==
    ASSUME TypeOK, JournalInvariant, NEW n \in Names, Savepoint(n)
    PROVE  JournalInvariant'
<1>1. /\ Len(changes) \in Nat /\ Len(savepoints) \in Nat /\ Len(marks) \in Nat
      /\ Len(savepoints') = Len(savepoints) + 1 /\ Len(marks') = Len(marks) + 1
      /\ \A i \in 1..Len(savepoints) : savepoints'[i] = savepoints[i]
      /\ \A i \in 1..Len(marks) : marks'[i] = marks[i]
      /\ savepoints'[Len(savepoints) + 1] = [name |-> n, length |-> Len(changes)]
      /\ marks'[Len(marks) + 1] = [name |-> n, table |-> rows]
  BY TypeParts DEF Savepoint, StackType, JournalType
<1>2. UNCHANGED <<rows, begun, inside, guard, changes, overtaken>> /\ inside
  BY DEF Savepoint
<1>3. StacksInvariant /\ Gone' = Gone /\ Gone \in Nat /\ Gone + Len(marks) = Len(savepoints)
  BY <1>1 DEF Gone, JournalInvariant, StacksInvariant
<1>4. ASSUME NEW i \in 1..Len(marks)
      PROVE  /\ LengthAt(i)' = LengthAt(i) /\ marks'[i] = marks[i] /\ LengthAt(i) \in Nat
             /\ savepoints'[Gone' + i].name = marks'[i].name
  BY <1>1, <1>3, LengthType DEF LengthAt, StacksInvariant
<1>5. savepoints'[Gone' + (Len(marks) + 1)].length = Len(changes)
      /\ savepoints'[Gone' + (Len(marks) + 1)].name = marks'[Len(marks) + 1].name
  <2>1. Gone + (Len(marks) + 1) = Len(savepoints) + 1
    BY <1>1, <1>3
  <2> QED
    BY <1>1, <1>3, <2>1 DEF LengthAt
<1>6. CoveredBy(Len(changes), rows)' /\ FirstIsBegun'
  BY <1>2 DEF JournalInvariant, CoveredBy, FirstIsBegun
<1>7. StacksInvariant'
  <2>1. \A i \in 1..Len(marks') : i \in 1..Len(marks) \/ i = Len(marks) + 1
    BY <1>1
  <2>2. \A i \in 1..Len(marks) : CoveredBy(LengthAt(i), marks[i].table)'
    BY <1>2, <1>3, <1>4 DEF StacksInvariant, CoveredBy
  <2>3. marks'[Len(marks) + 1].table = rows'
    BY <1>1, <1>2
  <2>4. ASSUME NEW i \in 1..Len(marks') PROVE CoveredBy(LengthAt(i), marks[i].table)'
    <3>1. CASE i \in 1..Len(marks)
      BY <2>2, <3>1
    <3>2. CASE i = Len(marks) + 1
      BY <1>2, <1>5, <1>6, <2>3, <3>2 DEF CoveredBy, LengthAt
    <3> QED
      BY <2>1, <3>1, <3>2
  <2>5. ASSUME NEW i \in 1..Len(marks')
        PROVE  /\ LengthAt(i)' \in Nat /\ LengthAt(i)' <= Len(changes')
               /\ savepoints'[Gone' + i].name = marks'[i].name
    <3>1. CASE i \in 1..Len(marks)
      BY <1>2, <1>3, <1>4, <3>1 DEF StacksInvariant
    <3>2. CASE i = Len(marks) + 1
      BY <1>1, <1>2, <1>5, <3>2 DEF LengthAt
    <3> QED
      BY <2>1, <3>1, <3>2
  <2>6. ASSUME NEW i \in 1..Len(marks'), NEW j \in 1..i PROVE LengthAt(j)' <= LengthAt(i)'
    <3>1. CASE i \in 1..Len(marks)
      <4>1. j \in 1..Len(marks)
        BY <1>1, <3>1
      <4> QED
        BY <1>3, <1>4, <3>1, <4>1 DEF StacksInvariant
    <3>2. CASE i = Len(marks) + 1
      <4>1. LengthAt(i)' = Len(changes')
        BY <1>2, <1>5, <3>2 DEF LengthAt
      <4>2. j \in 1..Len(marks')
        BY <1>1, <3>2
      <4> QED
        BY <2>5, <4>1, <4>2
    <3> QED
      BY <2>1, <3>1, <3>2
  <2>7. Len(marks') <= Len(savepoints')
    BY <1>1, <1>3
  <2> QED
    BY <2>4, <2>5, <2>6, <2>7 DEF StacksInvariant
<1> QED
  BY <1>2, <1>6, <1>7 DEF JournalInvariant

(* The stacks are cut: the savepoints of SQLite up to one, Python's up to the same, and
   the journal to no less than the length that goes with the last of them. *)
LEMMA CutStacks ==
    ASSUME TypeOK, StacksInvariant, UNCHANGED begun,
           NEW m \in 0..Len(marks), marks' = SubSeq(marks, 1, m),
           savepoints' = SubSeq(savepoints, 1, Gone + m),
           NEW l \in 0..Len(changes), changes' = SubSeq(changes, 1, l),
           m > 0 => LengthAt(m) <= l
    PROVE  StacksInvariant'
<1>1. /\ Len(changes) \in Nat /\ Len(savepoints) \in Nat /\ Len(marks) \in Nat
      /\ Gone \in Nat /\ Gone + Len(marks) = Len(savepoints) /\ Gone + m \in 0..Len(savepoints)
  BY TypeParts DEF StackType, JournalType, StacksInvariant, Gone
<1>2. /\ Len(marks') = m /\ \A i \in 1..m : marks'[i] = marks[i]
      /\ Len(savepoints') = Gone + m /\ \A i \in 1..(Gone + m) : savepoints'[i] = savepoints[i]
      /\ Len(changes') = l /\ \A i \in 1..l : changes'[i] = changes[i]
  BY <1>1, TypeParts, Prefix DEF StackType, JournalType
<1>3. Gone' = Gone
  <2>1. Gone' = Len(savepoints') - Len(marks')
    BY DEF Gone
  <2> QED
    BY <1>1, <1>2, <2>1
<1>4. \A i \in 1..m : i \in 1..Len(marks) /\ Gone + i \in 1..(Gone + m)
  BY <1>1
<1>5. ASSUME NEW i \in 1..m
      PROVE  /\ LengthAt(i)' = LengthAt(i) /\ LengthAt(i) \in Nat /\ LengthAt(i) <= l
             /\ savepoints'[Gone' + i].name = marks'[i].name
  <2>1. LengthAt(i)' = LengthAt(i) /\ LengthAt(i) \in Nat
    BY <1>2, <1>3, <1>4, LengthType DEF LengthAt
  <2>2. LengthAt(i) <= l
    <3>1. LengthAt(i) \in Nat /\ LengthAt(m) \in Nat /\ l \in Nat
      BY <1>1, <1>4, LengthType
    <3>2. LengthAt(i) <= LengthAt(m) /\ LengthAt(m) <= l
      BY <1>1, <1>4 DEF StacksInvariant
    <3> QED
      BY <3>1, <3>2
  <2>3. savepoints'[Gone' + i].name = marks'[i].name
    BY <1>2, <1>3, <1>4 DEF StacksInvariant
  <2> QED
    BY <2>1, <2>2, <2>3
<1>6. ASSUME NEW i \in 1..m PROVE CoveredBy(LengthAt(i), marks[i].table)'
  <2>1. CoveredBy(LengthAt(i), marks[i].table)
    BY <1>4 DEF StacksInvariant
  <2>2. marks'[i] = marks[i] /\ LengthAt(i)' = LengthAt(i)
    BY <1>2, <1>5
  <2>3. \A x \in 1..LengthAt(i) : changes'[x] = changes[x]
    <3>1. LengthAt(i) \in Nat /\ LengthAt(i) <= l /\ l \in Nat
      BY <1>1, <1>5
    <3>2. \A x \in 1..LengthAt(i) : x \in 1..l
      BY <3>1
    <3> QED
      BY <1>2, <3>2
  <2> QED
    BY <2>1, <2>2, <2>3 DEF CoveredBy
<1>7. ASSUME NEW i \in 1..m, NEW j \in 1..i PROVE LengthAt(j)' <= LengthAt(i)'
  <2>1. j \in 1..m /\ i \in 1..Len(marks)
    BY <1>1, <1>4
  <2> QED
    BY <1>5, <2>1 DEF StacksInvariant
<1>8. Len(marks') <= Len(savepoints')
  BY <1>1, <1>2
<1> QED
  BY <1>2, <1>5, <1>6, <1>7, <1>8 DEF StacksInvariant

LEMMA FirstIsBegunInPrefix ==
    ASSUME TypeOK, FirstIsBegun, UNCHANGED <<begun, overtaken>>,
           NEW l \in 0..Len(changes), changes' = SubSeq(changes, 1, l)
    PROVE  FirstIsBegun'
<1>1. Len(changes') = l /\ \A i \in 1..l : changes'[i] = changes[i] /\ i \in 1..Len(changes)
  BY TypeParts, Prefix DEF JournalType
<1> QED
  BY <1>1 DEF FirstIsBegun

LEMMA RollbackToStep ==
    ASSUME TypeOK, JournalInvariant, NEW n \in Names, RollbackTo(n)
    PROVE  JournalInvariant'
<1> DEFINE m == Mark(n)
           l == LengthAt(m)
<1>1. /\ m \in 1..Len(marks) /\ l \in 0..Len(changes) /\ Latest(savepoints, n) = Gone + m
      /\ StacksInvariant /\ FirstIsBegun
  BY CutLengths, SameSavepoint DEF RollbackTo, JournalInvariant
<1>2. /\ changes' = SubSeq(changes, 1, l) /\ savepoints' = SubSeq(savepoints, 1, Gone + m)
      /\ marks' = SubSeq(marks, 1, m) /\ rows' = marks[m].table
      /\ UNCHANGED <<begun, overtaken>> /\ inside /\ inside' = inside
  BY <1>1, CutLengths DEF RollbackTo, JournalInvariant
<1> HIDE DEF l, m
<1>3. Len(marks) \in Nat /\ m \in 0..Len(marks) /\ l <= l
  BY <1>1, TypeParts DEF StackType
<1>4. StacksInvariant'
  BY <1>1, <1>2, <1>3, CutStacks DEF l
<1>5. FirstIsBegun'
  BY <1>1, <1>2, FirstIsBegunInPrefix
<1>6. CoveredBy(Len(changes), rows)'
  <2>1. Len(changes') = l /\ \A i \in 1..l : changes'[i] = changes[i]
    BY <1>1, <1>2, Prefix, TypeParts DEF JournalType
  <2>2. CoveredBy(l, marks[m].table)
    BY <1>1 DEF StacksInvariant, l
  <2> QED
    BY <1>2, <2>1, <2>2 DEF CoveredBy
<1> QED
  BY <1>2, <1>4, <1>5, <1>6 DEF JournalInvariant

LEMMA ReleaseStep ==
    ASSUME TypeOK, JournalInvariant, NEW n \in Names, Release(n)
    PROVE  JournalInvariant'
<1> DEFINE m == Mark(n)
<1>1. /\ m \in 1..Len(marks) /\ Latest(savepoints, n) = Gone + m
      /\ StacksInvariant /\ FirstIsBegun
  BY CutLengths, SameSavepoint DEF Release, JournalInvariant
<1>2. /\ Len(marks) \in Nat /\ Len(changes) \in Nat /\ Gone \in Nat
      /\ m - 1 \in 0..Len(marks) /\ (Gone + m) - 1 = Gone + (m - 1)
  BY <1>1, TypeParts DEF StackType, JournalType, StacksInvariant, Gone
<1>3. /\ savepoints' = SubSeq(savepoints, 1, Gone + (m - 1))
      /\ marks' = SubSeq(marks, 1, m - 1)
      /\ UNCHANGED <<rows, begun, inside, guard, changes, overtaken>> /\ inside
  BY <1>1, <1>2 DEF Release
<1>4. changes' = SubSeq(changes, 1, Len(changes)) /\ Len(changes) \in 0..Len(changes)
  BY <1>2, <1>3, TypeParts DEF JournalType
<1> HIDE DEF m
<1>5. m - 1 > 0 => LengthAt(m - 1) <= Len(changes)
  BY <1>1, <1>2 DEF StacksInvariant
<1>6. StacksInvariant'
  BY <1>1, <1>2, <1>3, <1>4, <1>5, CutStacks
<1> QED
  BY <1>3, <1>6 DEF JournalInvariant, FirstIsBegun, CoveredBy

-----------------------------------------------------------------------------
(* Transactions. *)
LEMMA NothingJournalled ==
    ASSUME changes' = <<>>, savepoints' = <<>>, marks' = <<>>
    PROVE  /\ FirstIsBegun' /\ StacksInvariant'
           /\ rows' = begun' => CoveredBy(Len(changes), rows)'
<1>1. Len(changes') = 0 /\ Len(savepoints') = 0 /\ Len(marks') = 0
  OBVIOUS
<1> QED
  BY <1>1 DEF FirstIsBegun, StacksInvariant, CoveredBy

LEMMA JournalStep ==
    TypeOK /\ TypeOK' /\ JournalInvariant /\ [Next]_vars => JournalInvariant'
<1> SUFFICES ASSUME TypeOK, TypeOK', JournalInvariant, [Next]_vars PROVE JournalInvariant'
  OBVIOUS
<1>1. CASE Begin
  <2>1. rows = begun /\ marks = <<>> /\ marks' = <<>> /\ rows' = rows /\ begun' = begun
        /\ inside' /\ changes' = changes /\ savepoints' = savepoints
        /\ overtaken' = overtaken
    BY <1>1 DEF Begin, JournalInvariant
  <2>2. FirstIsBegun' /\ CoveredBy(Len(changes), rows)'
    BY <2>1 DEF JournalInvariant, FirstIsBegun, CoveredBy
  <2>3. StacksInvariant'
    BY <2>1 DEF JournalInvariant, StacksInvariant
  <2> QED
    BY <2>1, <2>2, <2>3 DEF JournalInvariant
<1>1a. CASE BeginFails
  BY <1>1a DEF BeginFails, JournalInvariant, FirstIsBegun, CoveredBy, StacksInvariant,
               Gone, LengthAt
<1>1b. ASSUME NEW t \in Tables, OthersCommit(t) PROVE JournalInvariant'
  <2>1. /\ ~inside' /\ rows' = begun' /\ marks = <<>> /\ marks' = <<>>
        /\ changes' = changes /\ overtaken' = (overtaken \/ changes # <<>>)
        /\ savepoints' = savepoints
    BY <1>1b DEF OthersCommit, JournalInvariant
  <2>2. FirstIsBegun'
    <3>1. CASE changes = <<>>
      <4>1. Len(changes') = 0
        BY <2>1, <3>1
      <4> QED
        BY <4>1 DEF FirstIsBegun
    <3>2. CASE changes # <<>>
      BY <2>1, <3>2 DEF FirstIsBegun
    <3> QED
      BY <3>1, <3>2
  <2>3. CoveredBy(Len(changes), rows)'
    BY <2>1 DEF CoveredBy
  <2>4. StacksInvariant'
    <3>1. Len(marks') = 0 /\ Len(savepoints') \in Nat
      BY <2>1, TypeParts DEF StackType
    <3> QED
      BY <3>1 DEF StacksInvariant
  <2> QED
    BY <2>1, <2>2, <2>3, <2>4 DEF JournalInvariant
<1>2. CASE Statement
  BY <1>2, StatementStep
<1>3. ASSUME NEW n \in Names, Savepoint(n) PROVE JournalInvariant'
  BY <1>3, SavepointStep
<1>4. ASSUME NEW n \in Names, RollbackTo(n) PROVE JournalInvariant'
  BY <1>4, RollbackToStep
<1>5. ASSUME NEW n \in Names, Release(n) PROVE JournalInvariant'
  BY <1>5, ReleaseStep
<1>6. CASE Commit \/ Rollback
  <2>1. rows' = begun'
    BY <1>6 DEF Commit, Rollback, JournalInvariant
  <2>2. ~inside' /\ changes' = <<>> /\ savepoints' = <<>> /\ marks' = <<>>
    BY <1>6 DEF Commit, Rollback, Clean
  <2> QED
    BY <2>1, <2>2, NothingJournalled DEF JournalInvariant
<1>7. CASE AutoRollback
  <2>1. /\ ~inside' /\ rows' = begun' /\ begun' = begun /\ marks' = <<>>
        /\ changes' = changes /\ savepoints' = savepoints /\ overtaken' = overtaken
    BY <1>7 DEF AutoRollback
  <2>2. FirstIsBegun' /\ CoveredBy(Len(changes), rows)'
    BY <2>1 DEF JournalInvariant, FirstIsBegun, CoveredBy
  <2>3. Len(marks') = 0 /\ Len(savepoints') \in Nat
    BY <2>1, TypeParts DEF StackType
  <2>4. StacksInvariant'
    BY <2>3 DEF StacksInvariant
  <2> QED
    BY <2>1, <2>2, <2>4 DEF JournalInvariant
<1>8. CASE UNCHANGED vars
  BY <1>8 DEF vars, JournalInvariant, FirstIsBegun, CoveredBy, StacksInvariant, Gone, LengthAt
<1> QED
  BY <1>1, <1>1a, <1>1b, <1>2, <1>3, <1>4, <1>5, <1>6, <1>7, <1>8 DEF Next

(* The journal and the two stacks of savepoints agree in every reachable state. *)
THEOREM InvariantHolds == Spec => [](TypeOK /\ JournalInvariant)
<1>1. TypeOK /\ JournalInvariant /\ [Next]_vars => (TypeOK /\ JournalInvariant)'
  BY TypeStep, JournalStep
<1> QED
  BY <1>1, InitJournal, PTL DEF Spec

(* Every variable keeps its type. *)
THEOREM TypeCorrect == Spec => []TypeOK
  BY InvariantHolds, PTL

(* What a prefix of the journal met first of a row is its content at the beginning. *)
LEMMA FirstMet ==
    ASSUME TypeOK, FirstIsBegun, ~overtaken, NEW l \in 0..Len(changes),
           NEW k \in Met(SubSeq(changes, 1, l))
    PROVE  First(SubSeq(changes, 1, l), k) = begun[k] /\ k \in Keys
<1> DEFINE p == SubSeq(changes, 1, l)
           S == {i \in 1..Len(p) : p[i].key = k}
<1>1. /\ p \in Seq(Changes) /\ Len(p) = l /\ l \in Nat /\ Len(changes) \in Nat
      /\ \A i \in 1..l : p[i] = changes[i]
  BY TypeParts, Prefix DEF JournalType
<1>2. S \in SUBSET (1..Len(p)) /\ S # {}
  BY <1>1 DEF Met
<1>3. PICK i \in S : \A j \in S : i <= j
  BY <1>1, <1>2, FirstPosition
<1>4. /\ i \in 1..Len(p) /\ p[i].key = k
      /\ \A j \in 1..(i - 1) : p[j].key # k
  BY <1>1, <1>3
<1> DEFINE c == CHOOSE x \in 1..Len(p) :
                    /\ p[x].key = k
                    /\ \A j \in 1..(x - 1) : p[j].key # k
<1>5. /\ c \in 1..Len(p) /\ p[c].key = k
      /\ \A j \in 1..(c - 1) : p[j].key # k
  BY <1>4
<1>6. First(p, k) = p[c].before
  BY DEF First
<1> HIDE DEF c, p
<1>7. /\ c \in 1..Len(changes) /\ p[c] = changes[c] /\ changes[c] \in Changes
      /\ \A j \in 1..(c - 1) : changes[j].key # changes[c].key
  <2>1. c \in 1..l /\ c \in 1..Len(changes) /\ \A j \in 1..(c - 1) : j \in 1..l
    BY <1>1, <1>5
  <2> QED
    BY <1>1, <1>5, <2>1, Element, TypeParts DEF JournalType
<1>8. First(p, k) = begun[k] /\ k \in Keys
  BY <1>5, <1>6, <1>7 DEF FirstIsBegun, Changes
<1> QED
  BY <1>8 DEF p

(* A prefix of the journal that covers a table names exactly what the table changes. *)
LEMMA PrefixNamesTheChanges ==
    ASSUME TypeOK, FirstIsBegun, ~overtaken, NEW l \in 0..Len(changes), NEW table,
           CoveredBy(l, table)
    PROVE  ChangedRows(SubSeq(changes, 1, l), table) = Differing(table)
<1> DEFINE p == SubSeq(changes, 1, l)
<1>1. Len(p) = l /\ l \in Nat /\ \A i \in 1..l : p[i] = changes[i]
  BY TypeParts, Prefix DEF JournalType
<1>2. \A k \in Met(p) : First(p, k) = begun[k] /\ k \in Keys
  BY FirstMet
<1> HIDE DEF p
<1>3. ASSUME NEW k \in ChangedRows(p, table) PROVE k \in Differing(table)
  BY <1>2 DEF ChangedRows, Differing
<1>4. ASSUME NEW k \in Differing(table) PROVE k \in ChangedRows(p, table)
  <2>1. k \in Keys /\ table[k] # begun[k]
    BY DEF Differing
  <2>2. k \in Met(p)
    BY <1>1, <2>1 DEF CoveredBy, Met
  <2> QED
    BY <1>2, <2>1, <2>2 DEF ChangedRows
<1>5. ChangedRows(p, table) = Differing(table)
  BY <1>3, <1>4
<1> QED
  BY <1>5 DEF p

(* SavepointsAgree: ROLLBACK TO and RELEASE mean the same savepoint to Python as to
   SQLite, at any depth and with any reuse of names, and the journal of the length that
   the savepoint remembers is exact for the table that SQLite goes back to. *)
THEOREM SavepointsAreTheSame == Spec => []SavepointsAgree
<1>1. TypeOK /\ JournalInvariant => SavepointsAgree
  <2> SUFFICES ASSUME TypeOK, JournalInvariant PROVE SavepointsAgree
    OBVIOUS
  <2>1. /\ Len(savepoints) \in Nat /\ Len(marks) \in Nat /\ Len(marks) <= Len(savepoints)
        /\ Len(changes) \in Nat /\ StacksInvariant /\ FirstIsBegun
    BY TypeParts DEF StackType, JournalType, JournalInvariant, StacksInvariant
  <2>2. Gone >= 0
    BY <2>1 DEF Gone
  <2>3. ASSUME NEW i \in 1..Len(marks), ~overtaken
        PROVE  ChangedRows(SubSeq(changes, 1, LengthAt(i)), marks[i].table)
                   = Differing(marks[i].table)
    <3>1. LengthAt(i) \in 0..Len(changes) /\ CoveredBy(LengthAt(i), marks[i].table)
      BY <2>1, LengthType DEF StacksInvariant
    <3> QED
      BY <2>1, <2>3, <3>1, PrefixNamesTheChanges
  <2>4. \A i \in 1..Len(marks) : savepoints[Gone + i].name = marks[i].name
    BY <2>1 DEF StacksInvariant
  <2> QED
    BY <2>2, <2>3, <2>4 DEF SavepointsAgree, Gone, LengthAt
<1> QED
  BY <1>1, InvariantHolds, PTL

(* JournalIsExact: commit() publishes exactly the rows that differ from what they were
   when the transaction began. *)
THEOREM JournalNamesTheChanges == Spec => []JournalIsExact
<1>1. TypeOK /\ JournalInvariant => JournalIsExact
  <2> SUFFICES ASSUME TypeOK, JournalInvariant, ~overtaken
               PROVE  ChangedRows(changes, rows) = Differing(rows)
    BY DEF JournalIsExact
  <2>1. Len(changes) \in 0..Len(changes) /\ SubSeq(changes, 1, Len(changes)) = changes
    BY TypeParts DEF JournalType
  <2> QED
    BY <2>1, PrefixNamesTheChanges DEF JournalInvariant
<1> QED
  BY <1>1, InvariantHolds, PTL
=============================================================================
