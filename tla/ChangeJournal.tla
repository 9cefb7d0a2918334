---------------------------- MODULE ChangeJournal ----------------------------
(***************************************************************************)
(* The change journal of CanonicalConnection, src/aspool/                  *)
(* sqlite_canonical.py: how a transaction with nested savepoints knows     *)
(* which rows it changed.                                                  *)
(*                                                                         *)
(* TEMP triggers append the identity of a row and its content before each  *)
(* change to _changes.  SAVEPOINT remembers the length of _changes,        *)
(* ROLLBACK TO cuts it back.  commit() publishes exactly the rows whose    *)
(* first recorded content differs from the current one, so a row that the  *)
(* journal misses would be committed to its file and left out of the       *)
(* intent that recovers the publication.                                   *)
(*                                                                         *)
(* The savepoints that Python keeps mirror those that SQLite keeps; both   *)
(* are modelled.                                                           *)
(***************************************************************************)
EXTENDS Naturals, Sequences, FiniteSets

CONSTANTS
    Keys,         \* the primary keys of the rows of a table
    Values,       \* what a row can hold
    Names,        \* the names of savepoints; a name may be used again
    MaxChanges,   \* bound: no statement runs at this length of the journal
    MaxNesting,   \* bound: how many savepoints Python keeps
    NoRow         \* the content of a key that has no row

ASSUME ConstantsAssumption ==
    /\ NoRow \notin Values
    /\ MaxChanges \in Nat
    /\ MaxNesting \in Nat

Row    == Values \cup {NoRow}
Tables == [Keys -> Row]

VARIABLES
    rows,        \* the table as the transaction sees it
    begun,       \* the table when the transaction began
    inside,      \* in_transaction
    guard,       \* _guard: the pool lock is held
    changes,     \* _changes
    savepoints,  \* _savepoints: name and length of _changes
    marks,       \* the savepoints of SQLite: name and table
    overtaken    \* history: others committed since the journal began

vars == <<rows, begun, inside, guard, changes, savepoints, marks, overtaken>>

Changes == [key : Keys, before : Row]

TypeOK ==
    /\ rows \in Tables
    /\ begun \in Tables
    /\ inside \in BOOLEAN
    /\ guard \in BOOLEAN
    /\ changes \in Seq(Changes)
    /\ savepoints \in Seq([name : Names, length : Nat])
    /\ marks \in Seq([name : Names, table : Tables])
    /\ overtaken \in BOOLEAN

Init ==
    /\ rows \in Tables
    /\ begun = rows
    /\ inside = FALSE
    /\ guard = FALSE
    /\ changes = <<>>
    /\ savepoints = <<>>
    /\ marks = <<>>
    /\ overtaken = FALSE

-----------------------------------------------------------------------------
(* _begin_guard() does nothing when the lock is held already: that is so after
   SQLite has rolled back by itself. *)
Begin ==
    /\ ~inside
    /\ inside' = TRUE
    /\ guard' = TRUE
    /\ begun' = rows
    /\ UNCHANGED <<rows, changes, savepoints, marks, overtaken>>

(* SQLite refuses the BEGIN: a transaction is open, or a file is locked.  The
   lock is given back, also the one that an open transaction relies on. *)
BeginFails ==
    /\ guard
    /\ guard' = FALSE
    /\ UNCHANGED <<rows, begun, inside, changes, savepoints, marks, overtaken>>

(* Without the pool lock and outside a transaction, the other writers of the
   pool commit whatever they like.  An open transaction keeps them out without the
   lock: the canonical writers BEGIN IMMEDIATE. *)
OthersCommit(table) ==
    /\ ~inside
    /\ ~guard
    /\ rows' = table
    /\ begun' = table
    /\ overtaken' = (overtaken \/ changes # <<>>)
    /\ UNCHANGED <<inside, guard, changes, savepoints, marks>>

(* A statement runs in a transaction, the bound permitting. *)
CanChange ==
    /\ inside
    /\ Len(changes) < MaxChanges
    /\ UNCHANGED <<begun, inside, guard, savepoints, marks, overtaken>>

(* The identity of a row and its content before the change. *)
Before(k) == [key |-> k, before |-> rows[k]]

Insert(k, v) ==
    /\ CanChange
    /\ rows[k] = NoRow
    /\ rows' = [rows EXCEPT ![k] = v]
    /\ changes' = Append(changes, Before(k))

(* The UPDATE trigger fires when a column differs. *)
Update(k, v) ==
    /\ CanChange
    /\ rows[k] \notin {NoRow, v}
    /\ rows' = [rows EXCEPT ![k] = v]
    /\ changes' = Append(changes, Before(k))

Delete(k) ==
    /\ CanChange
    /\ rows[k] # NoRow
    /\ rows' = [rows EXCEPT ![k] = NoRow]
    /\ changes' = Append(changes, Before(k))

(* Fault: the key a row moves to is not recorded. *)
RekeyFromOnly(k, j, v) ==
    /\ CanChange
    /\ rows[k] # NoRow
    /\ rows[j] = NoRow
    /\ rows' = [rows EXCEPT ![k] = NoRow, ![j] = v]
    /\ changes' = Append(changes, Before(k))

(* An UPDATE of the primary key: one call of _record_change() appends twice. *)
Rekey(k, j, v) ==
    /\ CanChange
    /\ rows[k] # NoRow
    /\ rows[j] = NoRow
    /\ rows' = [rows EXCEPT ![k] = NoRow, ![j] = v]
    /\ changes' = changes \o <<Before(k), Before(j)>>

(* A statement of several rows fails on a later one: SQLite takes its changes
   back, what the triggers recorded stays. *)
StatementFails(k) ==
    /\ CanChange
    /\ changes' = Append(changes, Before(k))
    /\ UNCHANGED rows

-----------------------------------------------------------------------------
Savepoint(n) ==
    /\ inside
    /\ Len(savepoints) < MaxNesting
    /\ savepoints' = Append(savepoints, [name |-> n, length |-> Len(changes)])
    /\ marks' = Append(marks, [name |-> n, table |-> rows])
    /\ UNCHANGED <<rows, begun, inside, guard, changes, overtaken>>

Named(stack, n) == {i \in 1..Len(stack) : stack[i].name = n}

(* Fault: the first savepoint of the name, searching from the start. *)
LatestFromStart(stack, n) ==
    CHOOSE i \in Named(stack, n) : \A j \in Named(stack, n) : i <= j

(* The most recent savepoint of the name, searching from the end. *)
Latest(stack, n) ==
    CHOOSE i \in Named(stack, n) : \A j \in Named(stack, n) : j <= i

(* The savepoint SQLite itself goes back to. *)
Mark(n) ==
    CHOOSE i \in Named(marks, n) : \A j \in Named(marks, n) : j <= i

RollbackTo(n) ==
    /\ inside
    /\ Named(marks, n) # {}
    /\ Named(savepoints, n) # {}
    /\ LET i == Latest(savepoints, n)
       IN  /\ changes' = SubSeq(changes, 1, savepoints[i].length)
           /\ savepoints' = SubSeq(savepoints, 1, i)
    /\ rows' = marks[Mark(n)].table
    /\ marks' = SubSeq(marks, 1, Mark(n))
    /\ UNCHANGED <<begun, inside, guard, overtaken>>

(* Fault: the savepoints inside the released one stay on the list. *)
ReleaseOne(n) ==
    /\ inside
    /\ Named(marks, n) # {}
    /\ Named(savepoints, n) # {}
    /\ LET i == Latest(savepoints, n)
       IN  savepoints' = SubSeq(savepoints, 1, i - 1)
                         \o SubSeq(savepoints, i + 1, Len(savepoints))
    /\ marks' = SubSeq(marks, 1, Mark(n) - 1)
    /\ UNCHANGED <<rows, begun, inside, guard, changes, overtaken>>

Release(n) ==
    /\ inside
    /\ Named(marks, n) # {}
    /\ Named(savepoints, n) # {}
    /\ savepoints' = SubSeq(savepoints, 1, Latest(savepoints, n) - 1)
    /\ marks' = SubSeq(marks, 1, Mark(n) - 1)
    /\ UNCHANGED <<rows, begun, inside, guard, changes, overtaken>>

-----------------------------------------------------------------------------
(* commit() and rollback() end with the same cleanup. *)
Clean ==
    /\ inside' = FALSE
    /\ guard' = FALSE
    /\ changes' = <<>>
    /\ savepoints' = <<>>
    /\ marks' = <<>>
    /\ overtaken' = FALSE

Commit ==
    /\ inside
    /\ begun' = rows
    /\ UNCHANGED rows
    /\ Clean

(* rollback(), also the one that close() calls, in a transaction or not and
   with the lock or without; and commit() when it fails. *)
Rollback ==
    /\ rows' = IF inside THEN begun ELSE rows
    /\ begun' = rows'
    /\ Clean

(* An interrupt or a full disk: SQLite rolls the transaction back by itself.
   Nothing tells the connection: its journal and its lock stay. *)
AutoRollback ==
    /\ inside
    /\ inside' = FALSE
    /\ rows' = begun
    /\ marks' = <<>>
    /\ UNCHANGED <<begun, guard, changes, savepoints, overtaken>>

Statement ==
    \/ \E k \in Keys, v \in Values : Insert(k, v) \/ Update(k, v)
    \/ \E k, j \in Keys, v \in Values : Rekey(k, j, v)
    \/ \E k \in Keys : Delete(k) \/ StatementFails(k)

Next ==
    \/ Begin
    \/ BeginFails
    \/ \E table \in Tables : OthersCommit(table)
    \/ Statement
    \/ \E n \in Names : Savepoint(n) \/ RollbackTo(n) \/ Release(n)
    \/ Commit
    \/ Rollback
    \/ AutoRollback

Spec == Init /\ [][Next]_vars

-----------------------------------------------------------------------------
(* The content a row had when the journal first met it. *)
Met(journal) == {journal[i].key : i \in 1..Len(journal)}
First(journal, k) ==
    journal[CHOOSE i \in 1..Len(journal) :
        /\ journal[i].key = k
        /\ \A j \in 1..(i - 1) : journal[j].key # k].before

(* _changed_rows(), of a journal and a table: commit() publishes those of the
   whole journal and the table as it is. *)
ChangedRows(journal, table) ==
    {k \in Met(journal) : First(journal, k) # table[k]}

(* The rows in which a table differs from the one the transaction began with. *)
Differing(table) == {k \in Keys : table[k] # begun[k]}

(* commit() publishes exactly the rows that differ from what they were when
   the transaction began, whatever savepoints were rolled back or released,
   whatever statement failed, and after a rollback that SQLite decided.  The
   exception: SQLite rolled back by itself, a BEGIN failed and gave the lock
   back, nobody called rollback(), and others committed before the next BEGIN. *)
JournalIsExact ==
    inside /\ ~overtaken => ChangedRows(changes, rows) = Differing(rows)

(* The savepoints that Python keeps end with those that SQLite keeps, in the
   same order: ROLLBACK TO and RELEASE mean the same savepoint on both sides.
   And the journal, cut to the length a savepoint remembers, names exactly the
   changes that its table has: rolled back to, it is exact again. *)
SavepointsAgree ==
    LET stale == Len(savepoints) - Len(marks)
    IN  inside =>
            /\ stale >= 0
            /\ \A i \in 1..Len(marks) :
                  /\ savepoints[stale + i].name = marks[i].name
                  /\ \/ overtaken
                     \/ ChangedRows(SubSeq(changes, 1, savepoints[stale + i].length),
                                    marks[i].table) = Differing(marks[i].table)
=============================================================================
