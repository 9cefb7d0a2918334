------------------------- MODULE MaintenanceProofs -------------------------
(***************************************************************************)
(* Proofs about Maintenance, for any tasks, windows, symbols, days, and    *)
(* any number of crashes and of commits to the layout-2 pool: the two      *)
(* kinds of maintenance share the marker and the lock soundly, and what    *)
(* the repair leaves stale is known to whoever may open the pool.          *)
(***************************************************************************)
EXTENDS Maintenance, WellFoundedInduction, TLAPS

(* A mixed pool is one of layout 2: the catalog moves last and is restored first. *)
FilesInvariant ==
    /\ files \in [CoreFiles -> {2, 3}]
    /\ layout = files["catalog"]
    /\ layout = 3 => \A f \in CoreFiles : files[f] = 3
    /\ marker = "none" => \A f \in CoreFiles : files[f] = layout

(* Whoever has the lock, the marker is its own from the moment it writes. *)
LockInvariant ==
    /\ mover \in {"off", "moving", "restoring"}
    /\ lock \in Tasks \cup {"nobody", "migration"}
    /\ marker \in Tasks \cup {"none", "migration"}
    /\ pc \in [Tasks -> {"off", "checked", "ready", "staged"} \cup Working]
    /\ mover # "off" <=> lock = "migration"
    /\ mover # "off" => marker = "migration"
    /\ \A t \in Tasks : pc[t] \in Working \cup {"staged"} => lock = t
    /\ \A t \in Tasks : pc[t] \in Working => marker = t

(* A repair publishes in layout 3 only, and a migration begins with nothing to publish;
   the recovery point is good for as long as the marker is the migration's. *)
MarkerInvariant ==
    /\ \A t \in Tasks : pc[t] \in Working \ {"gated"} => layout = 3
    /\ intent.made => layout = 3 /\ marker # "migration"
    /\ marker = "migration" => saved = CoreFiles

SharedInvariant == FilesInvariant /\ LockInvariant /\ MarkerInvariant

LEMMA CoreFile == "catalog" \in CoreFiles /\ CoreFiles # {}
  BY DEF CoreFiles

LEMMA InitShared == MaintenanceInit => SharedInvariant
<1> SUFFICES ASSUME MaintenanceInit PROVE SharedInvariant
  OBVIOUS
<1>1. FilesInvariant
  BY CoreFile DEF MaintenanceInit, Init, FilesInvariant
<1>2. LockInvariant
  BY ConstantsAssumption DEF MaintenanceInit, Init, LockInvariant, Working
<1>3. MarkerInvariant
  BY DEF MaintenanceInit, Init, MarkerInvariant, Working, None
<1> QED
  BY <1>1, <1>2, <1>3 DEF SharedInvariant

LEMMA NoneIsNotMade == ~None.made /\ An.made
  BY DEF None, An

LEMMA RepairStepShared ==
    SharedInvariant /\ [Next]_vars /\ UNCHANGED moveVars => SharedInvariant'
<1> SUFFICES ASSUME SharedInvariant, [Next]_vars, UNCHANGED moveVars
             PROVE  SharedInvariant'
  OBVIOUS
<1> USE ConstantsAssumption, NoneIsNotMade, CoreFile
        DEF SharedInvariant, FilesInvariant, LockInvariant, MarkerInvariant, moveVars, Working,
            pool, gates, others, ghosts
<1>1. ASSUME NEW t \in Tasks, NEW batch \in Days \X Days, Check(t, batch) PROVE SharedInvariant'
  BY <1>1 DEF Check
<1>2. ASSUME NEW t \in Tasks, RollForward(t) PROVE SharedInvariant'
  BY <1>2 DEF RollForward, End, Apply, Remember, Free
<1>3. ASSUME NEW t \in Tasks, Lock(t) PROVE SharedInvariant'
  BY <1>3 DEF Lock, Remember, Free
<1>4. ASSUME NEW t \in Tasks, WriteMarker(t) PROVE SharedInvariant'
  BY <1>4 DEF WriteMarker
<1>5. ASSUME NEW t \in Tasks, Connect(t) PROVE SharedInvariant'
  BY <1>5 DEF Connect, End, Remember
<1>6. ASSUME NEW t \in Tasks, RepairDay(t) PROVE SharedInvariant'
  BY <1>6 DEF RepairDay
<1>7. ASSUME NEW t \in Tasks, DayPublished(t) PROVE SharedInvariant'
  BY <1>7 DEF DayPublished, Apply, Remember
<1>8. ASSUME NEW t \in Tasks, Record(t) PROVE SharedInvariant'
  BY <1>8 DEF Record
<1>9. ASSUME NEW t \in Tasks, NextDay(t) PROVE SharedInvariant'
  BY <1>9 DEF NextDay, Remember
<1>10. ASSUME NEW t \in Tasks, DependentsPublished(t) PROVE SharedInvariant'
  BY <1>10 DEF DependentsPublished, Apply
<1>11. ASSUME NEW t \in Tasks, RepairSummary(t) PROVE SharedInvariant'
  BY <1>11 DEF RepairSummary
<1>12. ASSUME NEW t \in Tasks, SummaryPublished(t) PROVE SharedInvariant'
  BY <1>12 DEF SummaryPublished, Apply, Remember
<1>13. ASSUME NEW t \in Tasks, Finish(t) PROVE SharedInvariant'
  BY <1>13 DEF Finish, End
<1>14. ASSUME NEW t \in Tasks, Stop(t) PROVE SharedInvariant'
  BY <1>14 DEF Stop, End
<1>15. ASSUME NEW t \in Tasks, Crash(t) PROVE SharedInvariant'
  BY <1>15 DEF Crash, End
<1>16. ASSUME NEW t \in Tasks, NEW s \in Symbols, RepairDependents(t, s) PROVE SharedInvariant'
  BY <1>16 DEF RepairDependents
<1>17. ASSUME NEW r \in Rows, UpdateInterrupted(r) PROVE SharedInvariant'
  BY <1>17 DEF UpdateInterrupted, Published, Free
<1>18. ASSUME Recover PROVE SharedInvariant'
  BY <1>18 DEF Recover, Apply, Free
<1>19. ASSUME InstallBaseline PROVE SharedInvariant'
  BY <1>19 DEF InstallBaseline, Apply, Free
<1>20. ASSUME CheckPaused PROVE SharedInvariant'
  BY <1>20 DEF CheckPaused, Apply, Free
<1>21. ASSUME NEW some \in SUBSET Symbols, RebuildFactors(some) PROVE SharedInvariant'
  BY <1>21 DEF RebuildFactors, Free
<1>22. ASSUME UNCHANGED vars PROVE SharedInvariant'
  BY <1>22 DEF vars
<1> QED
  BY <1>1, <1>2, <1>3, <1>4, <1>5, <1>6, <1>7, <1>8, <1>9, <1>10, <1>11, <1>12, <1>13, <1>14, <1>15, <1>16, <1>17, <1>18, <1>19, <1>20, <1>21, <1>22 DEF Next, Progress

LEMMA MigrationStepShared == SharedInvariant /\ MigrationNext => SharedInvariant'
<1> SUFFICES ASSUME SharedInvariant, MigrationNext PROVE SharedInvariant'
  OBVIOUS
<1> USE ConstantsAssumption, CoreFile
        DEF SharedInvariant, FilesInvariant, LockInvariant, MarkerInvariant, repairVars, Working
<1>1. ASSUME NEW f \in CoreFiles, Drift(f) PROVE SharedInvariant'
  BY <1>1 DEF Drift, Published, Free
<1>2. CASE PrepareRecovery
  BY <1>2 DEF PrepareRecovery, Published, Free
<1>3. CASE Begin
  BY <1>3, NoneIsNotMade DEF Begin, Published, Free
<1>4. CASE BeginRestore
  BY <1>4 DEF BeginRestore, Free
<1>5. ASSUME NEW f \in CoreFiles, Move(f) PROVE SharedInvariant'
  <2>1. f = "catalog" => \A g \in CoreFiles : g # f => files[g] = 3
    BY <1>5 DEF Move, Before
  <2> QED
    BY <1>5, <2>1 DEF Move
<1>6. ASSUME NEW f \in CoreFiles, Restore(f) PROVE SharedInvariant'
  BY <1>6 DEF Restore
<1>7. CASE EndMove
  BY <1>7 DEF EndMove
<1>8. CASE EndRestore
  BY <1>8 DEF EndRestore
<1>9. CASE MoverCrash
  BY <1>9 DEF MoverCrash
<1> QED
  BY <1>1, <1>2, <1>3, <1>4, <1>5, <1>6, <1>7, <1>8, <1>9 DEF MigrationNext, MoverProgress

(* The repair and the migration share their marker and their lock soundly. *)
THEOREM SharedInvariantHolds == MaintenanceSpec => []SharedInvariant
<1>1. SharedInvariant /\ [MaintenanceNext]_allVars => SharedInvariant'
  <2>1. SharedInvariant /\ UNCHANGED allVars => SharedInvariant'
    BY RepairStepShared DEF allVars
  <2> QED
    BY <2>1, RepairStepShared, MigrationStepShared DEF MaintenanceNext
<1> QED
  BY <1>1, InitShared, PTL DEF MaintenanceSpec

(* OpenPoolIsWhole: readers and ordinary writers never meet files of both layouts,
   wherever migrations, restorations and repairs died. *)
THEOREM OpenPoolHasOneLayout == MaintenanceSpec => []OpenPoolIsWhole
<1>1. SharedInvariant => OpenPoolIsWhole
  BY DEF SharedInvariant, FilesInvariant, OpenPoolIsWhole
<1> QED
  BY <1>1, SharedInvariantHolds, PTL

(* RestoreLosesNothing: whatever restores the pool puts back what the migration found. *)
THEOREM RestorationIsExact == MaintenanceSpec => []RestoreLosesNothing
<1>1. SharedInvariant => RestoreLosesNothing
  BY DEF SharedInvariant, LockInvariant, MarkerInvariant, RestoreLosesNothing
<1> QED
  BY <1>1, SharedInvariantHolds, PTL

(* Files of both layouts are about: the pool still counts as one of layout 2. *)
Mixed == \E f, g \in CoreFiles : files[f] # files[g]
Untouched == marker' # "none" /\ <<wrong, stale, due>>' = <<wrong, stale, due>>

LEMMA MixedPool ==
    SharedInvariant /\ Mixed =>
        /\ layout = 2 /\ marker # "none" /\ ~intent.made
        /\ \A t \in Tasks : pc[t] \notin Working \ {"gated"}
<1> SUFFICES ASSUME SharedInvariant, Mixed
             PROVE  /\ layout = 2 /\ marker # "none" /\ ~intent.made
                    /\ \A t \in Tasks : pc[t] \notin Working \ {"gated"}
  OBVIOUS
<1>1. layout \in {2, 3} /\ layout # 3 /\ marker # "none"
  BY CoreFile DEF SharedInvariant, FilesInvariant, Mixed
<1> QED
  BY <1>1 DEF SharedInvariant, MarkerInvariant

LEMMA RepairLeavesMixed == SharedInvariant /\ Mixed /\ [Next]_vars => Untouched
<1> SUFFICES ASSUME SharedInvariant, Mixed, [Next]_vars PROVE Untouched
  OBVIOUS
<1> USE ConstantsAssumption, MixedPool DEF Untouched, pool, gates, others, ghosts, Working
<1>1. ASSUME NEW t \in Tasks, NEW batch \in Days \X Days, Check(t, batch) PROVE Untouched
  BY <1>1 DEF Check
<1>2. ASSUME NEW t \in Tasks, RollForward(t) PROVE Untouched
  BY <1>2 DEF RollForward
<1>3. ASSUME NEW t \in Tasks, Lock(t) PROVE Untouched
  BY <1>3 DEF Lock
<1>4. ASSUME NEW t \in Tasks, WriteMarker(t) PROVE Untouched
  BY <1>4 DEF WriteMarker
<1>5. ASSUME NEW t \in Tasks, Connect(t) PROVE Untouched
  BY <1>5 DEF Connect
<1>6. ASSUME NEW t \in Tasks, RepairDay(t) PROVE Untouched
  BY <1>6 DEF RepairDay
<1>7. ASSUME NEW t \in Tasks, DayPublished(t) PROVE Untouched
  BY <1>7 DEF DayPublished
<1>8. ASSUME NEW t \in Tasks, Record(t) PROVE Untouched
  BY <1>8 DEF Record
<1>9. ASSUME NEW t \in Tasks, NextDay(t) PROVE Untouched
  BY <1>9 DEF NextDay
<1>10. ASSUME NEW t \in Tasks, DependentsPublished(t) PROVE Untouched
  BY <1>10 DEF DependentsPublished
<1>11. ASSUME NEW t \in Tasks, RepairSummary(t) PROVE Untouched
  BY <1>11 DEF RepairSummary
<1>12. ASSUME NEW t \in Tasks, SummaryPublished(t) PROVE Untouched
  BY <1>12 DEF SummaryPublished
<1>13. ASSUME NEW t \in Tasks, Finish(t) PROVE Untouched
  BY <1>13 DEF Finish
<1>14. ASSUME NEW t \in Tasks, Stop(t) PROVE Untouched
  BY <1>14 DEF Stop
<1>15. ASSUME NEW t \in Tasks, Crash(t) PROVE Untouched
  BY <1>15 DEF Crash
<1>16. ASSUME NEW t \in Tasks, NEW s \in Symbols, RepairDependents(t, s) PROVE Untouched
  BY <1>16 DEF RepairDependents
<1>17. ASSUME NEW r \in Rows, UpdateInterrupted(r) PROVE Untouched
  BY <1>17 DEF UpdateInterrupted, Published
<1>18. ASSUME Recover PROVE Untouched
  BY <1>18 DEF Recover
<1>19. ASSUME InstallBaseline PROVE Untouched
  BY <1>19 DEF InstallBaseline
<1>20. ASSUME CheckPaused PROVE Untouched
  BY <1>20 DEF CheckPaused
<1>21. ASSUME NEW some \in SUBSET Symbols, RebuildFactors(some) PROVE Untouched
  BY <1>21 DEF RebuildFactors
<1>22. ASSUME UNCHANGED vars PROVE Untouched
  BY <1>22 DEF vars
<1> QED
  BY <1>1, <1>2, <1>3, <1>4, <1>5, <1>6, <1>7, <1>8, <1>9, <1>10, <1>11, <1>12, <1>13, <1>14, <1>15, <1>16, <1>17, <1>18, <1>19, <1>20, <1>21, <1>22 DEF Next, Progress

LEMMA MigrationLeavesMixed == SharedInvariant /\ Mixed /\ MigrationNext => Untouched
<1> SUFFICES ASSUME SharedInvariant, Mixed, MigrationNext PROVE Untouched
  OBVIOUS
<1> USE MixedPool, CoreFile DEF Untouched, repairVars
<1>1. ASSUME NEW f \in CoreFiles, Drift(f) PROVE Untouched
  BY <1>1 DEF Drift
<1>2. CASE PrepareRecovery
  BY <1>2 DEF PrepareRecovery
<1>3. CASE Begin
  BY <1>3 DEF Begin
<1>4. CASE BeginRestore
  BY <1>4 DEF BeginRestore
<1>5. ASSUME NEW f \in CoreFiles, Move(f) \/ Restore(f) PROVE Untouched
  BY <1>5 DEF Move, Restore
<1>6. CASE EndMove \/ EndRestore
  BY <1>6 DEF EndMove, EndRestore, Mixed
<1>7. CASE MoverCrash
  BY <1>7 DEF MoverCrash
<1> QED
  BY <1>1, <1>2, <1>3, <1>4, <1>5, <1>6, <1>7 DEF MigrationNext, MoverProgress

(* HalfMovedIsUntouched: while the pool is of both layouts, only the migration or its
   restoration can open it, and no repair publishes into it. *)
THEOREM HalfMovedStaysShut == MaintenanceSpec => HalfMovedIsUntouched
<1>1. SharedInvariant /\ [MaintenanceNext]_allVars => (Mixed => Untouched)
  <2> SUFFICES ASSUME SharedInvariant, [MaintenanceNext]_allVars, Mixed PROVE Untouched
    OBVIOUS
  <2>1. CASE UNCHANGED allVars
    BY <2>1, RepairLeavesMixed DEF allVars
  <2> QED
    BY <2>1, RepairLeavesMixed, MigrationLeavesMixed DEF MaintenanceNext
<1>2. SharedInvariant /\ [MaintenanceNext]_allVars =>
        [(\E f, g \in CoreFiles : files[f] # files[g]) =>
             marker' # "none" /\ <<wrong, stale, due>>' = <<wrong, stale, due>>]_allVars
  BY <1>1 DEF Mixed, Untouched
<1> QED
  BY <1>2, SharedInvariantHolds, PTL DEF MaintenanceSpec, HalfMovedIsUntouched

(* A set of numbers has a least one. *)
LEMMA LeastNumber ==
    ASSUME NEW T \in SUBSET Nat, T # {}
    PROVE  Min(T) \in T /\ \A y \in T : Min(T) <= y
<1> DEFINE R == {ss \in Nat \X Nat : ss[1] < ss[2]}
<1>1. IsWellFoundedOn(R, Nat)
  BY NatLessThanWellFounded DEF OpToRel
<1>2. \E x \in T : \A y \in T : <<y, x>> \notin R
  <2> HIDE DEF R
  <2> QED
    BY <1>1, WFMin
<1>3. PICK x \in T : \A y \in T : <<y, x>> \notin R
  BY <1>2
<1>4. ASSUME NEW y \in T PROVE x <= y
  <2>1. y \in Nat /\ x \in Nat /\ <<y, x>> \in Nat \X Nat
    OBVIOUS
  <2> QED
    BY <1>3, <2>1
<1> QED
  BY <1>4 DEF Min

(* Types, of the memory of a task in full. *)
Memory == [first : Days, last : Days, day : Days, pending : BOOLEAN, based : BOOLEAN,
           recovered : SUBSET Rows, receipts : SUBSET Rows, todo : SUBSET Symbols,
           summaries : SUBSET Days]
Intents == [made : BOOLEAN, fixes : SUBSET Rows, stales : SUBSET Rows,
            fresh : SUBSET Rows, sums : SUBSET Days, due : SUBSET Days]

PoolInvariant ==
    /\ wrong \in SUBSET Rows /\ stale \in SUBSET Rows /\ due \in SUBSET Days
    /\ layout \in {2, 3}
    /\ crashes \in 0..MaxCrashes /\ drifts \in 0..MaxDrifts
    /\ seen \in [Tasks -> SUBSET Rows]
    /\ forgotten \in [rows : SUBSET Rows, days : SUBSET Days]
    /\ saved \in SUBSET CoreFiles

FlagInvariant == baseline \in BOOLEAN /\ rebuild \in BOOLEAN

IntentInvariant == intent \in Intents /\ (intent.made \/ intent = None)

MemoryInvariant ==
    /\ mem \in [Tasks -> Memory]
    /\ \A t \in Tasks : pc[t] = "off" => mem[t] = Blank

DataInvariant == PoolInvariant /\ FlagInvariant /\ IntentInvariant /\ MemoryInvariant

LEMMA BlankType == Blank \in Memory
  BY ConstantsAssumption DEF Blank, Memory, Days

LEMMA NoneType == None \in Intents
  BY DEF None, Intents

LEMMA InitData == MaintenanceInit => DataInvariant
<1> SUFFICES ASSUME MaintenanceInit PROVE DataInvariant
  OBVIOUS
<1>1. PoolInvariant
  BY ConstantsAssumption, DriftsAssumption DEF MaintenanceInit, Init, PoolInvariant
<1>2. IntentInvariant
  BY NoneType DEF MaintenanceInit, Init, IntentInvariant
<1>3. MemoryInvariant
  BY BlankType DEF MaintenanceInit, Init, MemoryInvariant
<1>4. FlagInvariant
  BY DEF MaintenanceInit, Init, FlagInvariant
<1> QED
  BY <1>1, <1>2, <1>3, <1>4 DEF DataInvariant

(* What is prepared is of its type. *)
LEMMA IntentTypes ==
    ASSUME NEW F \in SUBSET Rows, NEW G \in SUBSET Rows,
           NEW S \in SUBSET Days
    PROVE  /\ [An EXCEPT !.fixes = F, !.sums = S] \in Intents
           /\ [An EXCEPT !.fixes = F, !.stales = G, !.sums = S] \in Intents
           /\ [An EXCEPT !.fresh = F, !.due = S] \in Intents
           /\ [An EXCEPT !.sums = S] \in Intents
           /\ [An EXCEPT !.fixes = F, !.sums = S].made
           /\ [An EXCEPT !.fixes = F, !.stales = G, !.sums = S].made
           /\ [An EXCEPT !.fresh = F, !.due = S].made
           /\ [An EXCEPT !.sums = S].made
<1>1. An \in Intents /\ An.made
  BY DEF An, None, Intents
<1> QED
  BY <1>1 DEF Intents

(* The least day of a set of days. *)
LEMMA FirstDay == ASSUME NEW S \in SUBSET Days, S # {} PROVE Min(S) \in S
<1>1. S \in SUBSET Nat
  BY ConstantsAssumption DEF Days
<1> QED
  BY <1>1, LeastNumber

LEMMA LastOfDays == ASSUME NEW S \in SUBSET Days, S # {} PROVE Max(S) \in S
<1> DEFINE T == {LastDay - d : d \in S}
<1>1. T \in SUBSET Nat /\ T # {}
  <2>1. \A d \in Days : LastDay - d \in Nat
    BY ConstantsAssumption DEF Days
  <2> QED
    BY <2>1
<1>2. Min(T) \in T /\ \A y \in T : Min(T) <= y
  BY <1>1, LeastNumber
<1>3. PICK d \in S : Min(T) = LastDay - d
  BY <1>2
<1>4. ASSUME NEW e \in S PROVE d >= e
  <2>1. LastDay - d <= LastDay - e
    BY <1>2, <1>3
  <2> QED
    BY <2>1, ConstantsAssumption DEF Days
<1> QED
  BY <1>4 DEF Max

(* The memory of a task is replaced, or ends with its process. *)
LEMMA NewMemory ==
    ASSUME MemoryInvariant, LockInvariant, NEW t \in Tasks, NEW M \in Memory,
           mem' = [mem EXCEPT ![t] = M], pc'[t] # "off",
           \A u \in Tasks : u # t => pc'[u] = pc[u]
    PROVE  MemoryInvariant'
  BY DEF MemoryInvariant, LockInvariant

LEMMA EndOfMemory ==
    ASSUME MemoryInvariant, LockInvariant, NEW t \in Tasks, End(t)
    PROVE  MemoryInvariant'
  BY BlankType DEF MemoryInvariant, LockInvariant, End

LEMMA ApplyTypes ==
    ASSUME PoolInvariant, IntentInvariant, Apply(intent)
    PROVE  /\ wrong' \in SUBSET Rows /\ stale' \in SUBSET Rows /\ due' \in SUBSET Days
           /\ IntentInvariant'
  BY NoneType DEF PoolInvariant, IntentInvariant, Apply, Intents

LEMMA DependentRows == \A rows : Dependents(rows) \in SUBSET Rows
  BY DEF Dependents

(* What a run knows to be corrected are days. *)
LEMMA CorrectedDays ==
    ASSUME PoolInvariant, MemoryInvariant, NEW t \in Tasks, NEW s \in Symbols
    PROVE  Corrected(t, s) \in SUBSET Days
<1> DEFINE days(rows) == {r[2] : r \in {q \in rows : q[1] = s}}
           earlier == {d \in days(seen[t]) : d < mem[t].first}
<1>1. mem[t].receipts \in SUBSET Rows /\ seen[t] \in SUBSET Rows
  BY DEF PoolInvariant, MemoryInvariant, Memory
<1>2. \A rows \in SUBSET Rows : days(rows) \in SUBSET Days
  BY DEF Rows
<1>3. days(mem[t].receipts) \in SUBSET Days /\ days(seen[t]) \in SUBSET Days
  BY <1>1, <1>2
<1>4. earlier # {} => Max(earlier) \in Days
  BY <1>3, LastOfDays
<1>5. Corrected(t, s) \subseteq
          days(mem[t].receipts) \cup days(seen[t])
          \cup (IF earlier # {} THEN {Max(earlier)} ELSE {})
  BY DEF Corrected
<1> QED
  BY <1>3, <1>4, <1>5

LEMMA RepairStepData ==
    SharedInvariant /\ DataInvariant /\ [Next]_vars /\ UNCHANGED moveVars => DataInvariant'
<1> SUFFICES ASSUME SharedInvariant, DataInvariant, [Next]_vars, UNCHANGED moveVars
             PROVE  DataInvariant'
  OBVIOUS
<1> USE DEF SharedInvariant, DataInvariant, moveVars, pool, gates, others, ghosts
<1>1. ASSUME NEW t \in Tasks, NEW batch \in Days \X Days, Check(t, batch) PROVE DataInvariant'
  <2>1. PoolInvariant'
    BY <1>1, ConstantsAssumption, DriftsAssumption DEF Check, PoolInvariant
  <2>2. FlagInvariant'
    BY <1>1 DEF Check, FlagInvariant
  <2>3. IntentInvariant'
    BY <1>1 DEF Check, IntentInvariant
  <2>4. MemoryInvariant'
    <3> DEFINE M == [Blank EXCEPT !.first = batch[1], !.last = batch[2],
                                    !.day = batch[1], !.pending = marker = t]
    <3>1. M \in Memory
      BY <1>1, BlankType DEF Check, MemoryInvariant, Memory
    <3>2. mem' = [mem EXCEPT ![t] = M] /\ pc'[t] # "off" /\ \A u \in Tasks : u # t => pc'[u] = pc[u]
      BY <1>1 DEF Check, Remember, LockInvariant
    <3> HIDE DEF M
    <3> QED
      BY <3>1, <3>2, NewMemory
  <2> QED
    BY <2>1, <2>2, <2>3, <2>4
<1>2. ASSUME NEW t \in Tasks, RollForward(t) PROVE DataInvariant'
  <2>1. PoolInvariant'
    BY <1>2, ApplyTypes DEF RollForward, PoolInvariant, IntentInvariant, Intents
  <2>2. FlagInvariant'
    BY <1>2 DEF RollForward, FlagInvariant
  <2>3. IntentInvariant'
    BY <1>2, ApplyTypes DEF RollForward, IntentInvariant
  <2>4. MemoryInvariant'
    <3> DEFINE M == [mem[t] EXCEPT !["recovered"] = intent.fixes]
    <3>1. M \in Memory
      BY DEF MemoryInvariant, Memory, IntentInvariant, Intents
    <3>2. CASE pc' = [pc EXCEPT ![t] = "ready"] /\ UNCHANGED mem
      BY <3>2 DEF MemoryInvariant, LockInvariant
    <3>3. CASE mem' = [mem EXCEPT ![t] = M] /\ pc' = [pc EXCEPT ![t] = "ready"]
      <4>1. pc'[t] # "off" /\ \A u \in Tasks : u # t => pc'[u] = pc[u]
        BY <3>3 DEF LockInvariant
      <4> HIDE DEF M
      <4> QED
        BY <3>1, <3>3, <4>1, NewMemory
    <3> QED
      BY <1>2, <3>2, <3>3, EndOfMemory DEF RollForward, Remember
  <2> QED
    BY <2>1, <2>2, <2>3, <2>4
<1>3. ASSUME NEW t \in Tasks, Lock(t) PROVE DataInvariant'
  <2>1. PoolInvariant'
    BY <1>3 DEF Lock, PoolInvariant, MemoryInvariant, Memory
  <2>2. FlagInvariant'
    BY <1>3 DEF Lock, FlagInvariant
  <2>3. IntentInvariant'
    BY <1>3 DEF Lock, IntentInvariant
  <2>4. MemoryInvariant'
    <3> DEFINE M == [mem[t] EXCEPT !["recovered"] = {}]
    <3>1. M \in Memory
      BY <1>3 DEF Lock, MemoryInvariant, Memory
    <3>2. mem' = [mem EXCEPT ![t] = M] /\ pc'[t] # "off" /\ \A u \in Tasks : u # t => pc'[u] = pc[u]
      BY <1>3 DEF Lock, Remember, LockInvariant
    <3> HIDE DEF M
    <3> QED
      BY <3>1, <3>2, NewMemory
  <2> QED
    BY <2>1, <2>2, <2>3, <2>4
<1>4. ASSUME NEW t \in Tasks, WriteMarker(t) PROVE DataInvariant'
  <2>1. PoolInvariant'
    BY <1>4, ConstantsAssumption DEF WriteMarker, PoolInvariant, IntentInvariant, Intents
  <2>2. FlagInvariant'
    BY <1>4 DEF WriteMarker, FlagInvariant
  <2>3. IntentInvariant'
    BY <1>4 DEF WriteMarker, IntentInvariant
  <2>4. MemoryInvariant'
    BY <1>4 DEF WriteMarker, MemoryInvariant
  <2> QED
    BY <2>1, <2>2, <2>3, <2>4
<1>5. ASSUME NEW t \in Tasks, Connect(t) PROVE DataInvariant'
  <2>1. PoolInvariant'
    BY <1>5, ConstantsAssumption, DriftsAssumption DEF Connect, PoolInvariant
  <2>2. FlagInvariant'
    BY <1>5 DEF Connect, FlagInvariant
  <2>3. IntentInvariant'
    BY <1>5 DEF Connect, IntentInvariant
  <2>4. MemoryInvariant'
    <3> DEFINE M == [mem[t] EXCEPT !["based"] = baseline]
    <3>1. M \in Memory
      BY DEF MemoryInvariant, Memory, FlagInvariant
    <3>2. CASE mem' = [mem EXCEPT ![t] = M] /\ pc' = [pc EXCEPT ![t] = "day"]
      <4>1. pc'[t] # "off" /\ \A u \in Tasks : u # t => pc'[u] = pc[u]
        BY <3>2 DEF LockInvariant
      <4> HIDE DEF M
      <4> QED
        BY <3>1, <3>2, <4>1, NewMemory
    <3> QED
      BY <1>5, <3>2, EndOfMemory DEF Connect, Remember
  <2> QED
    BY <2>1, <2>2, <2>3, <2>4
<1>6. ASSUME NEW t \in Tasks, RepairDay(t) PROVE DataInvariant'
  <2>1. PoolInvariant'
    BY <1>6, ConstantsAssumption, DriftsAssumption DEF RepairDay, PoolInvariant
  <2>2. FlagInvariant'
    BY <1>6 DEF RepairDay, FlagInvariant
  <2>3. IntentInvariant'
    <3> DEFINE fixes == {r \in wrong : r[2] = mem[t].day}
    <3>1. fixes \in SUBSET Rows /\ {mem[t].day} \in SUBSET Days
      BY DEF PoolInvariant, MemoryInvariant, Memory
    <3>2. Dependents(fixes) \in SUBSET Rows
      BY DependentRows
    <3>3. \/ UNCHANGED intent
          \/ intent' = [An EXCEPT !.fixes = fixes, !.stales = Dependents(fixes),
                                  !.sums = {mem[t].day}]
      BY <1>6 DEF RepairDay
    <3> HIDE DEF fixes
    <3> DEFINE days == {mem[t].day}
               I == [An EXCEPT !.fixes = fixes, !.stales = Dependents(fixes), !.sums = days]
    <3>4. days \in SUBSET Days
      BY <3>1
    <3>5. UNCHANGED intent \/ intent' = I
      BY <3>3
    <3> HIDE DEF days
    <3>6. I \in Intents /\ I.made
      BY <3>1, <3>2, <3>4, IntentTypes
    <3> HIDE DEF I
    <3> QED
      BY <3>5, <3>6 DEF IntentInvariant
  <2>4. MemoryInvariant'
    BY <1>6 DEF RepairDay, MemoryInvariant, LockInvariant
  <2> QED
    BY <2>1, <2>2, <2>3, <2>4
<1>7. ASSUME NEW t \in Tasks, DayPublished(t) PROVE DataInvariant'
  <2>1. PoolInvariant'
    BY <1>7, ApplyTypes DEF DayPublished, PoolInvariant
  <2>2. FlagInvariant'
    BY <1>7 DEF DayPublished, FlagInvariant
  <2>3. IntentInvariant'
    BY <1>7, ApplyTypes DEF DayPublished
  <2>4. MemoryInvariant'
    <3> DEFINE M == [mem[t] EXCEPT !["receipts"] = mem[t].receipts \cup intent.fixes]
    <3>1. M \in Memory
      BY <1>7 DEF DayPublished, MemoryInvariant, Memory, IntentInvariant, Intents
    <3>2. mem' = [mem EXCEPT ![t] = M] /\ pc'[t] # "off" /\ \A u \in Tasks : u # t => pc'[u] = pc[u]
      BY <1>7 DEF DayPublished, Remember, LockInvariant
    <3> HIDE DEF M
    <3> QED
      BY <3>1, <3>2, NewMemory
  <2> QED
    BY <2>1, <2>2, <2>3, <2>4
<1>8. ASSUME NEW t \in Tasks, Record(t) PROVE DataInvariant'
  <2>1. PoolInvariant'
    BY <1>8 DEF Record, PoolInvariant, MemoryInvariant, Memory
  <2>2. FlagInvariant'
    BY <1>8 DEF Record, FlagInvariant
  <2>3. IntentInvariant'
    BY <1>8 DEF Record, IntentInvariant
  <2>4. MemoryInvariant'
    BY <1>8 DEF Record, MemoryInvariant
  <2> QED
    BY <2>1, <2>2, <2>3, <2>4
<1>9. ASSUME NEW t \in Tasks, NextDay(t) PROVE DataInvariant'
  <2>1. PoolInvariant'
    BY <1>9, ConstantsAssumption, DriftsAssumption DEF NextDay, PoolInvariant
  <2>2. FlagInvariant'
    BY <1>9 DEF NextDay, FlagInvariant
  <2>3. IntentInvariant'
    BY <1>9 DEF NextDay, IntentInvariant
  <2>4. MemoryInvariant'
    <3> DEFINE D == [mem[t] EXCEPT !["day"] = mem[t].day + 1]
               T == [mem[t] EXCEPT !["todo"] = {s \in Symbols : Corrected(t, s) # {}}]
    <3>1. mem[t] \in Memory
      BY DEF MemoryInvariant
    <3>2. mem[t].day < mem[t].last => D \in Memory
      BY <3>1, ConstantsAssumption DEF Memory, Days
    <3>3. T \in Memory
      BY <3>1 DEF Memory
    <3>4. /\ pc'[t] # "off" /\ \A u \in Tasks : u # t => pc'[u] = pc[u]
          /\ \/ mem[t].day < mem[t].last /\ mem' = [mem EXCEPT ![t] = D]
             \/ mem' = [mem EXCEPT ![t] = T]
      BY <1>9 DEF NextDay, Remember, LockInvariant
    <3> HIDE DEF D, T
    <3> QED
      BY <3>2, <3>3, <3>4, NewMemory
  <2> QED
    BY <2>1, <2>2, <2>3, <2>4
<1>10. ASSUME NEW t \in Tasks, DependentsPublished(t) PROVE DataInvariant'
  <2>1. PoolInvariant'
    BY <1>10, ApplyTypes DEF DependentsPublished, PoolInvariant
  <2>2. FlagInvariant'
    BY <1>10 DEF DependentsPublished, FlagInvariant
  <2>3. IntentInvariant'
    BY <1>10, ApplyTypes DEF DependentsPublished, IntentInvariant
  <2>4. MemoryInvariant'
    BY <1>10 DEF DependentsPublished, MemoryInvariant, LockInvariant
  <2> QED
    BY <2>1, <2>2, <2>3, <2>4
<1>11. ASSUME NEW t \in Tasks, RepairSummary(t) PROVE DataInvariant'
  <2>1. PoolInvariant'
    BY <1>11, ConstantsAssumption, DriftsAssumption DEF RepairSummary, PoolInvariant
  <2>2. FlagInvariant'
    BY <1>11 DEF RepairSummary, FlagInvariant
  <2>3. IntentInvariant'
    <3>1. {Min(mem[t].summaries)} \in SUBSET Days
      BY <1>11, FirstDay DEF RepairSummary, MemoryInvariant, Memory
    <3> QED
      BY <1>11, <3>1, IntentTypes DEF RepairSummary, IntentInvariant
  <2>4. MemoryInvariant'
    BY <1>11 DEF RepairSummary, MemoryInvariant
  <2> QED
    BY <2>1, <2>2, <2>3, <2>4
<1>12. ASSUME NEW t \in Tasks, SummaryPublished(t) PROVE DataInvariant'
  <2>1. PoolInvariant'
    BY <1>12, ApplyTypes DEF SummaryPublished, PoolInvariant
  <2>2. FlagInvariant'
    BY <1>12 DEF SummaryPublished, FlagInvariant
  <2>3. IntentInvariant'
    BY <1>12, ApplyTypes DEF SummaryPublished
  <2>4. MemoryInvariant'
    <3> DEFINE M == [mem[t] EXCEPT !["summaries"] = mem[t].summaries \ intent.sums]
    <3>1. M \in Memory
      BY <1>12 DEF SummaryPublished, MemoryInvariant, Memory
    <3>2. mem' = [mem EXCEPT ![t] = M] /\ pc'[t] # "off" /\ \A u \in Tasks : u # t => pc'[u] = pc[u]
      BY <1>12 DEF SummaryPublished, Remember, LockInvariant
    <3> HIDE DEF M
    <3> QED
      BY <3>1, <3>2, NewMemory
  <2> QED
    BY <2>1, <2>2, <2>3, <2>4
<1>13. ASSUME NEW t \in Tasks, Finish(t) PROVE DataInvariant'
  <2>1. PoolInvariant'
    BY <1>13, ConstantsAssumption, DriftsAssumption DEF Finish, PoolInvariant
  <2>2. FlagInvariant'
    BY <1>13 DEF Finish, FlagInvariant
  <2>3. IntentInvariant'
    BY <1>13 DEF Finish, IntentInvariant
  <2>4. MemoryInvariant'
    BY <1>13, EndOfMemory DEF Finish
  <2> QED
    BY <2>1, <2>2, <2>3, <2>4
<1>14. ASSUME NEW t \in Tasks, Stop(t) PROVE DataInvariant'
  <2>1. PoolInvariant'
    BY <1>14, ConstantsAssumption, DriftsAssumption DEF Stop, PoolInvariant
  <2>2. FlagInvariant'
    BY <1>14 DEF Stop, FlagInvariant
  <2>3. IntentInvariant'
    BY <1>14 DEF Stop, IntentInvariant
  <2>4. MemoryInvariant'
    BY <1>14, EndOfMemory DEF Stop
  <2> QED
    BY <2>1, <2>2, <2>3, <2>4
<1>15. ASSUME NEW t \in Tasks, Crash(t) PROVE DataInvariant'
  <2>1. PoolInvariant'
    <3>1. mem[t].summaries \in SUBSET Days /\ intent.due \in SUBSET Days
      BY DEF MemoryInvariant, Memory, IntentInvariant, Intents
    <3>2. forgotten' \in [rows : SUBSET Rows, days : SUBSET Days]
      BY <1>15, <3>1, DependentRows DEF Crash, PoolInvariant
    <3>3. crashes' \in 0..MaxCrashes
      BY <1>15, ConstantsAssumption DEF Crash, PoolInvariant
    <3> QED
      BY <1>15, <3>2, <3>3 DEF Crash, PoolInvariant
  <2>2. FlagInvariant'
    BY <1>15 DEF Crash, FlagInvariant
  <2>3. IntentInvariant'
    BY <1>15 DEF Crash, IntentInvariant
  <2>4. MemoryInvariant'
    BY <1>15, EndOfMemory DEF Crash
  <2> QED
    BY <2>1, <2>2, <2>3, <2>4
<1>16. ASSUME NEW t \in Tasks, NEW s \in Symbols, RepairDependents(t, s) PROVE DataInvariant'
  <2>1. PoolInvariant'
    BY <1>16, ConstantsAssumption, DriftsAssumption DEF RepairDependents, PoolInvariant
  <2>2. FlagInvariant'
    BY <1>16 DEF RepairDependents, FlagInvariant
  <2>3. IntentInvariant'
    <3> DEFINE fresh == {r \in stale : r[1] = s /\ Min(Corrected(t, s)) <= r[2]}
    <3>1. fresh \in SUBSET Rows /\ {r[2] : r \in fresh} \in SUBSET Days
      BY DEF PoolInvariant, Rows
    <3> QED
      BY <1>16, <3>1, IntentTypes DEF RepairDependents, IntentInvariant
  <2>4. MemoryInvariant'
    <3> DEFINE fresh == {r \in stale : r[1] = s /\ Min(Corrected(t, s)) <= r[2]}
               days == {r[2] : r \in fresh}
               known == mem[t].summaries \cup days \cup Corrected(t, s)
               M == [mem[t] EXCEPT !.todo = mem[t].todo \ {s}, !.summaries = known]
    <3>1. mem[t] \in Memory
      BY DEF MemoryInvariant
    <3>2. days \in SUBSET Days
      BY DEF PoolInvariant, Rows
    <3>3. Corrected(t, s) \in SUBSET Days
      BY CorrectedDays
    <3>4. /\ mem' = [mem EXCEPT ![t] = M]
          /\ pc' = pc /\ pc[t] # "off"
      <4>1. mem' = [mem EXCEPT ![t] = M]
        BY <1>16, Zenon DEF RepairDependents
      <4>2. pc' = pc /\ pc[t] = "dependents"
        BY <1>16, Zenon DEF RepairDependents
      <4> QED
        BY <4>1, <4>2
    <3> HIDE DEF days
    <3>5. M \in Memory
      BY <3>1, <3>2, <3>3 DEF Memory
    <3> HIDE DEF M
    <3> QED
      BY <3>4, <3>5, NewMemory
  <2> QED
    BY <2>1, <2>2, <2>3, <2>4
<1>17. ASSUME NEW r \in Rows, UpdateInterrupted(r) PROVE DataInvariant'
  <2>1. PoolInvariant'
    BY <1>17, ConstantsAssumption, DriftsAssumption DEF UpdateInterrupted, PoolInvariant
  <2>2. FlagInvariant'
    BY <1>17 DEF UpdateInterrupted, FlagInvariant
  <2>3. IntentInvariant'
    <3>1. {r} \in SUBSET Rows /\ {r[2]} \in SUBSET Days
      BY DEF Rows
    <3> QED
      BY <1>17, <3>1, IntentTypes DEF UpdateInterrupted, IntentInvariant
  <2>4. MemoryInvariant'
    BY <1>17 DEF UpdateInterrupted, MemoryInvariant
  <2> QED
    BY <2>1, <2>2, <2>3, <2>4
<1>18. ASSUME Recover PROVE DataInvariant'
  <2>1. PoolInvariant'
    BY <1>18, ApplyTypes DEF Recover, PoolInvariant
  <2>2. FlagInvariant'
    BY <1>18 DEF Recover, FlagInvariant
  <2>3. IntentInvariant'
    BY <1>18, ApplyTypes DEF Recover
  <2>4. MemoryInvariant'
    BY <1>18 DEF Recover, MemoryInvariant
  <2> QED
    BY <2>1, <2>2, <2>3, <2>4
<1>19. ASSUME InstallBaseline PROVE DataInvariant'
  <2>1. PoolInvariant'
    BY <1>19, ConstantsAssumption, DriftsAssumption DEF InstallBaseline, PoolInvariant
  <2>2. FlagInvariant'
    BY <1>19 DEF InstallBaseline, FlagInvariant
  <2>3. IntentInvariant'
    BY <1>19 DEF InstallBaseline, IntentInvariant
  <2>4. MemoryInvariant'
    BY <1>19 DEF InstallBaseline, MemoryInvariant
  <2> QED
    BY <2>1, <2>2, <2>3, <2>4
<1>20. ASSUME CheckPaused PROVE DataInvariant'
  <2>1. PoolInvariant'
    BY <1>20, ConstantsAssumption, DriftsAssumption DEF CheckPaused, PoolInvariant
  <2>2. FlagInvariant'
    BY <1>20 DEF CheckPaused, FlagInvariant
  <2>3. IntentInvariant'
    BY <1>20 DEF CheckPaused, IntentInvariant
  <2>4. MemoryInvariant'
    BY <1>20 DEF CheckPaused, MemoryInvariant
  <2> QED
    BY <2>1, <2>2, <2>3, <2>4
<1>21. ASSUME NEW some \in SUBSET Symbols, RebuildFactors(some) PROVE DataInvariant'
  <2>1. PoolInvariant'
    <3>1. some \X Days \in SUBSET Rows
      BY DEF Rows
    <3> QED
      BY <1>21, <3>1 DEF RebuildFactors, PoolInvariant
  <2>2. FlagInvariant'
    BY <1>21 DEF RebuildFactors, FlagInvariant
  <2>3. IntentInvariant'
    BY <1>21 DEF RebuildFactors, IntentInvariant
  <2>4. MemoryInvariant'
    BY <1>21 DEF RebuildFactors, MemoryInvariant
  <2> QED
    BY <2>1, <2>2, <2>3, <2>4
<1>22. ASSUME UNCHANGED vars PROVE DataInvariant'
  BY <1>22 DEF vars, PoolInvariant, FlagInvariant, IntentInvariant, MemoryInvariant
<1> QED
  BY <1>1, <1>2, <1>3, <1>4, <1>5, <1>6, <1>7, <1>8, <1>9, <1>10, <1>11, <1>12, <1>13, <1>14, <1>15, <1>16, <1>17, <1>18, <1>19, <1>20, <1>21, <1>22 DEF Next, Progress

LEMMA MigrationStepData ==
    SharedInvariant /\ DataInvariant /\ MigrationNext => DataInvariant'
<1> SUFFICES ASSUME SharedInvariant, DataInvariant, MigrationNext PROVE DataInvariant'
  OBVIOUS
<1>1. FlagInvariant' /\ IntentInvariant' /\ MemoryInvariant'
  <2>1. UNCHANGED repairVars
    BY DEF MigrationNext, MoverProgress, Drift, PrepareRecovery, Begin, BeginRestore, Move,
           Restore, EndMove, EndRestore, MoverCrash
  <2> QED
    BY <2>1 DEF repairVars, DataInvariant, FlagInvariant, IntentInvariant, MemoryInvariant
<1> USE ConstantsAssumption, DriftsAssumption DEF DataInvariant, PoolInvariant, repairVars
<1>2. ASSUME NEW f \in CoreFiles, Drift(f) PROVE PoolInvariant'
  BY <1>2 DEF Drift
<1>3. CASE PrepareRecovery
  BY <1>1, <1>3 DEF PrepareRecovery
<1>4. CASE Begin \/ BeginRestore
  BY <1>1, <1>4 DEF Begin, BeginRestore
<1>5. ASSUME NEW f \in CoreFiles, Move(f) \/ Restore(f) PROVE PoolInvariant'
  BY <1>5 DEF Move, Restore
<1>6. CASE EndMove \/ EndRestore
  BY <1>1, <1>6 DEF EndMove, EndRestore
<1>7. CASE MoverCrash
  BY <1>1, <1>7 DEF MoverCrash
<1> QED
  BY <1>1, <1>2, <1>3, <1>4, <1>5, <1>6, <1>7 DEF MigrationNext, MoverProgress

LEMMA DataHolds == MaintenanceSpec => []DataInvariant
<1>1. SharedInvariant /\ DataInvariant /\ [MaintenanceNext]_allVars => DataInvariant'
  <2>1. SharedInvariant /\ DataInvariant /\ UNCHANGED allVars => DataInvariant'
    BY RepairStepData DEF allVars
  <2> QED
    BY <2>1, RepairStepData, MigrationStepData DEF MaintenanceNext
<1> QED
  BY <1>1, InitData, SharedInvariantHolds, PTL DEF MaintenanceSpec

(* MaintenanceTypeOK: every variable keeps its type, and the pool is of the layout of
   its catalog. *)
THEOREM TypeCorrect == MaintenanceSpec => []MaintenanceTypeOK
<1>1. SharedInvariant /\ DataInvariant => MaintenanceTypeOK
  <2> SUFFICES ASSUME SharedInvariant, DataInvariant PROVE MaintenanceTypeOK
    OBVIOUS
  <2>1. \A t \in Tasks :
           /\ DOMAIN mem[t] = DOMAIN Blank
           /\ mem[t].recovered \cup mem[t].receipts \subseteq Rows
           /\ mem[t].todo \subseteq Symbols /\ mem[t].summaries \subseteq Days
           /\ mem[t].day \in Days
    BY DEF DataInvariant, MemoryInvariant, Memory, Blank
  <2>2. TypeOK
    BY <2>1 DEF SharedInvariant, LockInvariant, DataInvariant, PoolInvariant, FlagInvariant,
                IntentInvariant, Intents, MemoryInvariant, TypeOK
  <2> QED
    BY <2>2 DEF SharedInvariant, LockInvariant, FilesInvariant, DataInvariant, PoolInvariant,
                MaintenanceTypeOK
<1> QED
  BY <1>1, DataHolds, SharedInvariantHolds, PTL

-----------------------------------------------------------------------------
(* Who knows of what is stale, or due. *)

(* The rows of the days of a task. *)
InWindow(t) == {q \in Rows : Window[t][1] <= q[2] /\ q[2] <= Window[t][2]}

(* What a task knows in each phase: the batch is of its window; what was corrected is
   noted day by day; and one that found no marker of its own has not met one since. *)
Notes(t) ==
    /\ pc[t] # "off" => /\ Window[t][1] <= mem[t].first /\ mem[t].first <= mem[t].day
                        /\ mem[t].day <= mem[t].last /\ mem[t].last <= Window[t][2]
    /\ pc[t] # "ready" => mem[t].recovered = {}
    /\ pc[t] \in {"checked", "ready", "staged", "gated"} => mem[t].receipts = {}
    /\ pc[t] \in {"checked", "ready", "staged"} /\ ~mem[t].pending => marker # t
    /\ mem[t].receipts \subseteq InWindow(t)
    /\ \A q \in mem[t].receipts : q \in seen[t] \/ (pc[t] = "record" /\ q[2] = mem[t].day)

NotesInvariant == (rebuild => baseline) /\ \A t \in Tasks : Notes(t)

(* What is prepared in each phase. *)
Prepared(t) ==
    /\ pc[t] \in {"record", "next"} => ~intent.made
    /\ pc[t] \in {"day", "summaries"} => intent.due = {}
    /\ pc[t] = "day" => \A q \in intent.fixes : q[2] = mem[t].day
    /\ pc[t] \in {"dependents", "summaries"} => intent.stales = {}

PreparedInvariant == \A t \in Tasks : Prepared(t)

(* A summary that is due, or about to be, is one that a run will compute. *)
Awaited(d) ==
    \E t \in Tasks : pc[t] \in {"dependents", "summaries"} /\ d \in mem[t].summaries
DueInvariant == \A d \in due \cup intent.due : d \in forgotten.days \/ Awaited(d)

(* No run will remove the marker: factors await their features. *)
Connected == Working \ {"gated"}
Kept == marker \in Tasks /\ baseline /\ \A t \in Tasks : pc[t] \in Connected => mem[t].based

(* The corrections that the runs of a task will follow. *)
Known(t) ==
    InWindow(t) \cap (mem[t].receipts \cup mem[t].recovered
                      \cup (IF pc[t] = "off" \/ mem[t].pending THEN seen[t] ELSE {}))

(* Features that do not follow, or are about not to, depend on such a correction. *)
StaleInvariant ==
    /\ marker \notin Tasks => stale \cup intent.stales \subseteq forgotten.rows
    /\ \A t \in Tasks : marker = t /\ ~Kept =>
          /\ stale \subseteq forgotten.rows \cup Dependents(Known(t))
          /\ intent.stales \subseteq forgotten.rows \cup Dependents(intent.fixes \cap InWindow(t))

(* A run over the whole window leaves none of them when it removes the marker. *)
Opens(t) == ~mem[t].based /\ Window[t] = <<mem[t].first, mem[t].last>>
Todo(t) ==
    Opens(t) =>
        /\ pc[t] = "dependents" =>
              \A r \in stale \ forgotten.rows : r[1] \in mem[t].todo \/ r \in intent.fresh
        /\ pc[t] = "summaries" => stale \subseteq forgotten.rows
TodoInvariant == \A t \in Tasks : Todo(t)

RecordInvariant ==
    NotesInvariant /\ PreparedInvariant /\ DueInvariant /\ StaleInvariant /\ TodoInvariant

LEMMA InitRecord == MaintenanceInit => RecordInvariant
<1> SUFFICES ASSUME MaintenanceInit PROVE RecordInvariant
  OBVIOUS
<1>1. /\ stale = {} /\ due = {} /\ rebuild = FALSE /\ intent = None /\ marker = "none"
      /\ \A t \in Tasks : pc[t] = "off" /\ mem[t] = Blank
  BY DEF MaintenanceInit, Init
<1>2. intent.stales = {} /\ intent.due = {} /\ ~intent.made
  BY <1>1 DEF None
<1>3. Blank.receipts = {} /\ Blank.recovered = {}
  BY DEF Blank
<1>4. NotesInvariant
  BY <1>1, <1>3 DEF NotesInvariant, Notes
<1>5. PreparedInvariant /\ DueInvariant
  BY <1>1, <1>2 DEF PreparedInvariant, Prepared, DueInvariant
<1>6. StaleInvariant
  <2>1. marker \notin Tasks
    BY <1>1, ConstantsAssumption
  <2> QED
    BY <1>1, <1>2, <2>1 DEF StaleInvariant
<1>7. TodoInvariant
  BY <1>1 DEF TodoInvariant, Todo
<1> QED
  BY <1>4, <1>5, <1>6, <1>7 DEF RecordInvariant

-----------------------------------------------------------------------------
(* What a step leaves alone. *)

LEMMA MoreDependents == \A A, B : A \subseteq B => Dependents(A) \subseteq Dependents(B)
  BY DEF Dependents

(* One process works at a time, under its own marker. *)
LEMMA Holder ==
    ASSUME SharedInvariant, NEW t \in Tasks
    PROVE  /\ t \notin {"none", "migration", "nobody"}
           /\ pc[t] \in Working \cup {"staged"} =>
                  /\ lock = t /\ mover = "off"
                  /\ \A u \in Tasks : u # t => pc[u] \in {"off", "checked", "ready"}
           /\ pc[t] \in Working => marker = t
           /\ lock \in {"nobody", "migration"} => pc[t] \in {"off", "checked", "ready"}
  BY ConstantsAssumption DEF SharedInvariant, LockInvariant, Working

(* A step of the process of a task. *)
LeavesOthers(t) ==
    \A u \in Tasks : u # t => pc'[u] = pc[u] /\ mem'[u] = mem[u] /\ seen'[u] = seen[u]

LEMMA NotesStand ==
    ASSUME NotesInvariant, rebuild' => baseline', NEW t \in Tasks, LeavesOthers(t),
           marker' \notin Tasks \/ marker' \in {marker, t}, Notes(t)'
    PROVE  NotesInvariant'
<1>1. ASSUME NEW u \in Tasks, u # t PROVE Notes(u)'
  BY <1>1 DEF NotesInvariant, Notes, LeavesOthers, InWindow
<1> QED
  BY <1>1 DEF NotesInvariant

LEMMA PreparedStands ==
    ASSUME SharedInvariant', NEW t \in Tasks, Prepared(t)', pc'[t] \in Working
    PROVE  PreparedInvariant'
<1>1. ASSUME NEW u \in Tasks, u # t PROVE pc'[u] \in {"off", "checked", "ready"}
  BY <1>1, ConstantsAssumption DEF SharedInvariant, LockInvariant, Working
<1> QED
  BY <1>1 DEF PreparedInvariant, Prepared

LEMMA DueStands ==
    ASSUME DueInvariant, due' \cup intent'.due \subseteq due \cup intent.due,
           forgotten.days \subseteq forgotten'.days,
           \A u \in Tasks : pc[u] \in {"dependents", "summaries"} =>
               /\ pc'[u] \in {"dependents", "summaries"}
               /\ mem[u].summaries \subseteq mem'[u].summaries
    PROVE  DueInvariant'
<1>1. \A d : Awaited(d) => Awaited(d)'
  BY DEF Awaited
<1> QED
  BY <1>1 DEF DueInvariant

LEMMA KeptStands ==
    ASSUME Kept, marker' \in Tasks, baseline',
           \A u \in Tasks : pc'[u] \in Connected =>
               mem'[u].based \/ (pc[u] \in Connected /\ mem'[u].based = mem[u].based)
    PROVE  Kept'
  BY DEF Kept

LEMMA StaleStands ==
    ASSUME StaleInvariant, marker' = marker, Kept => Kept',
           forgotten.rows \subseteq forgotten'.rows,
           stale' \subseteq stale \cup forgotten'.rows,
           intent' = intent \/ intent'.stales = {},
           \A t \in Tasks : marker = t => Known(t) \subseteq Known(t)'
    PROVE  StaleInvariant'
<1>1. ASSUME NEW t \in Tasks, marker = t, ~Kept'
      PROVE  /\ stale' \subseteq forgotten'.rows \cup Dependents(Known(t))'
             /\ intent'.stales \subseteq
                    forgotten'.rows \cup Dependents(intent.fixes \cap InWindow(t))'
  <2>1. /\ stale \subseteq forgotten.rows \cup Dependents(Known(t))
        /\ intent.stales \subseteq forgotten.rows \cup Dependents(intent.fixes \cap InWindow(t))
    BY <1>1 DEF StaleInvariant
  <2>2. Dependents(Known(t)) \subseteq Dependents(Known(t))'
    BY <1>1 DEF Dependents
  <2>3. intent' = intent => Dependents(intent.fixes \cap InWindow(t))'
                               = Dependents(intent.fixes \cap InWindow(t))
    BY DEF Dependents, InWindow
  <2> QED
    BY <2>1, <2>2, <2>3
<1> QED
  BY <1>1 DEF StaleInvariant

LEMMA TodoStands ==
    ASSUME TodoInvariant, forgotten.rows \subseteq forgotten'.rows,
           \A u \in Tasks : pc'[u] \in {"dependents", "summaries"} =>
               /\ pc'[u] = pc[u] /\ mem'[u] = mem[u]
               /\ stale' \subseteq stale \cup forgotten'.rows /\ intent' = intent
    PROVE  TodoInvariant'
  BY DEF TodoInvariant, Todo, Opens

-----------------------------------------------------------------------------
(* The steps of a run, before its first day. *)

LEMMA TaskTypes ==
    ASSUME DataInvariant, NEW t \in Tasks
    PROVE  /\ mem[t] \in Memory /\ mem[t].receipts \subseteq Rows /\ seen[t] \subseteq Rows
           /\ mem[t].day \in Days /\ mem[t].first \in Days /\ mem[t].last \in Days
           /\ mem[t].summaries \subseteq Days /\ mem[t].todo \subseteq Symbols
           /\ pc[t] = "off" => mem[t] = Blank
           /\ DOMAIN mem = Tasks /\ DOMAIN seen = Tasks /\ mem[t].based \in BOOLEAN
  BY DEF DataInvariant, PoolInvariant, MemoryInvariant, Memory

LEMMA BlankIsEmpty ==
    /\ Blank.receipts = {} /\ Blank.recovered = {} /\ Blank.summaries = {} /\ ~Blank.based
    /\ Days \subseteq Nat
  BY ConstantsAssumption DEF Blank, Days

(* A process that ends has noted what it corrected, or leaves it forgotten. *)
LEMMA EndRecord ==
    ASSUME SharedInvariant, SharedInvariant', DataInvariant, RecordInvariant,
           NEW t \in Tasks, End(t),
           UNCHANGED <<stale, due, baseline, rebuild, intent, marker, seen>>,
           forgotten.rows \subseteq forgotten'.rows, forgotten.days \subseteq forgotten'.days,
           Dependents((mem[t].receipts \cup mem[t].recovered) \ seen[t]) \cap stale
               \subseteq forgotten'.rows,
           pc[t] \in {"dependents", "summaries"} =>
               mem[t].summaries \cap (due \cup intent.due) \subseteq forgotten'.days
    PROVE  RecordInvariant'
<1>1. /\ pc' = [pc EXCEPT ![t] = "off"] /\ mem' = [mem EXCEPT ![t] = Blank]
      /\ pc'[t] = "off" /\ mem'[t] = Blank /\ LeavesOthers(t)
  BY TaskTypes DEF End, SharedInvariant, LockInvariant, LeavesOthers
<1>2. Notes(t)'
  BY <1>1, BlankIsEmpty DEF Notes
<1>3. NotesInvariant'
  BY <1>1, <1>2, NotesStand DEF RecordInvariant, NotesInvariant
<1>4. PreparedInvariant'
  <2>1. \A u \in Tasks : Prepared(u)'
    BY <1>1 DEF RecordInvariant, PreparedInvariant, Prepared, LeavesOthers
  <2> QED
    BY <2>1 DEF PreparedInvariant
<1>5. DueInvariant'
  <2>1. ASSUME NEW d \in due \cup intent.due, d \notin forgotten'.days PROVE Awaited(d)'
    <3>1. PICK u \in Tasks : pc[u] \in {"dependents", "summaries"} /\ d \in mem[u].summaries
      BY <2>1 DEF RecordInvariant, DueInvariant, Awaited
    <3>2. u # t
      BY <2>1, <3>1
    <3> QED
      BY <1>1, <3>1, <3>2 DEF Awaited, LeavesOthers
  <2> QED
    BY <2>1 DEF DueInvariant
<1>6. Kept => Kept'
  <2>1. \A u \in Tasks : pc'[u] \in Connected => pc[u] \in Connected /\ mem'[u].based = mem[u].based
    BY <1>1 DEF LeavesOthers, Connected, Working
  <2> QED
    BY <2>1, KeptStands DEF Kept
<1>7. StaleInvariant'
  <2>1. ASSUME NEW u \in Tasks, marker = u, ~Kept
        PROVE  stale \subseteq forgotten'.rows \cup Dependents(Known(u))'
    <3>1. stale \subseteq forgotten.rows \cup Dependents(Known(u))
      BY <2>1 DEF RecordInvariant, StaleInvariant
    <3>2. CASE u # t
      <4>1. Known(u)' = Known(u)
        BY <1>1, <2>1, <3>2 DEF LeavesOthers, Known, InWindow
      <4>2. Dependents(Known(u))' = Dependents(Known(u))
        BY <4>1 DEF Dependents
      <4> QED
        BY <3>1, <4>2
    <3>3. CASE u = t
      <4>1. ASSUME NEW q \in Known(t), q \in seen[t] PROVE q \in Known(t)'
        BY <1>1, <4>1 DEF Known, InWindow
      <4>2. ASSUME NEW q \in Known(t), q \notin seen[t]
            PROVE  q \in (mem[t].receipts \cup mem[t].recovered) \ seen[t]
        BY <4>2 DEF Known
      <4>3. ASSUME NEW r \in stale, r \in Dependents(Known(t))
            PROVE  r \in forgotten'.rows \cup Dependents(Known(t))'
        <5>1. r \in Rows
          BY <4>3 DEF Dependents
        <5>2. PICK q \in Known(t) : q[1] = r[1] /\ q[2] <= r[2]
          BY <4>3 DEF Dependents
        <5>3. CASE q \in seen[t]
          BY <4>1, <5>1, <5>2, <5>3 DEF Dependents
        <5>4. CASE q \notin seen[t]
          <6>1. r \in Dependents((mem[t].receipts \cup mem[t].recovered) \ seen[t])
            BY <4>2, <5>1, <5>2, <5>4 DEF Dependents
          <6> QED
            BY <4>3, <6>1
        <5> QED
          BY <5>3, <5>4
      <4> QED
        BY <3>1, <3>3, <4>3
    <3> QED
      BY <3>2, <3>3
  <2>2. \A u \in Tasks : Dependents(intent.fixes \cap InWindow(u))'
                            = Dependents(intent.fixes \cap InWindow(u))
    BY DEF Dependents, InWindow
  <2> QED
    BY <1>6, <2>1, <2>2 DEF RecordInvariant, StaleInvariant
<1>8. TodoInvariant'
  BY <1>1, TodoStands DEF RecordInvariant, LeavesOthers
<1> QED
  BY <1>3, <1>4, <1>5, <1>7, <1>8 DEF RecordInvariant

LEMMA CheckRecord ==
    ASSUME SharedInvariant, SharedInvariant', DataInvariant, RecordInvariant,
           NEW t \in Tasks, NEW batch \in Days \X Days, Check(t, batch)
    PROVE  RecordInvariant'
<1>1. /\ UNCHANGED <<stale, due, baseline, rebuild, intent, marker, seen, forgotten>>
      /\ pc[t] = "off" /\ pc'[t] = "checked" /\ LeavesOthers(t)
      /\ mem'[t] = [Blank EXCEPT !.first = batch[1], !.last = batch[2],
                                 !.day = batch[1], !.pending = marker = t]
      /\ Window[t][1] <= batch[1] /\ batch[1] <= batch[2] /\ batch[2] <= Window[t][2]
  BY TaskTypes DEF Check, SharedInvariant, LockInvariant, LeavesOthers, pool, others, gates, ghosts
<1>2. /\ mem'[t].first = batch[1] /\ mem'[t].last = batch[2] /\ mem'[t].day = batch[1]
      /\ (mem'[t].pending <=> marker = t) /\ mem'[t].receipts = {} /\ mem'[t].recovered = {}
      /\ batch[1] \in Nat
  BY <1>1, BlankIsEmpty DEF Blank
<1>3. Notes(t)'
  BY <1>1, <1>2 DEF Notes
<1>4. NotesInvariant'
  BY <1>1, <1>3, NotesStand DEF RecordInvariant, NotesInvariant
<1>5. PreparedInvariant'
  <2>1. \A u \in Tasks : Prepared(u)'
    BY <1>1 DEF RecordInvariant, PreparedInvariant, Prepared, LeavesOthers
  <2> QED
    BY <2>1 DEF PreparedInvariant
<1>6. DueInvariant'
  BY <1>1, DueStands DEF RecordInvariant, LeavesOthers
<1>7. Kept => Kept'
  BY <1>1, KeptStands DEF Kept, LeavesOthers, Connected, Working
<1>8. ASSUME NEW u \in Tasks, marker = u PROVE Known(u) \subseteq Known(u)'
  <2>1. mem[t].receipts = {} /\ mem[t].recovered = {}
    BY <1>1, TaskTypes, BlankIsEmpty
  <2> QED
    BY <1>1, <1>2, <1>8, <2>1 DEF Known, InWindow, LeavesOthers
<1>9. StaleInvariant'
  BY <1>1, <1>7, <1>8, StaleStands DEF RecordInvariant
<1>10. TodoInvariant'
  BY <1>1, TodoStands DEF RecordInvariant, LeavesOthers
<1> QED
  BY <1>4, <1>5, <1>6, <1>9, <1>10 DEF RecordInvariant

LEMMA LockRecord ==
    ASSUME SharedInvariant, SharedInvariant', DataInvariant, RecordInvariant,
           NEW t \in Tasks, Lock(t)
    PROVE  RecordInvariant'
<1>1. /\ UNCHANGED <<stale, due, baseline, rebuild, intent, marker, forgotten>>
      /\ pc[t] = "ready" /\ pc'[t] = "staged" /\ LeavesOthers(t)
      /\ mem'[t] = [mem[t] EXCEPT !["recovered"] = {}]
      /\ seen'[t] = seen[t] \cup mem[t].recovered
  BY TaskTypes DEF Lock, Remember, SharedInvariant, LockInvariant, LeavesOthers,
                   pool, others, gates, ghosts
<1>2. /\ mem'[t].first = mem[t].first /\ mem'[t].last = mem[t].last /\ mem'[t].day = mem[t].day
      /\ mem'[t].pending = mem[t].pending /\ mem'[t].receipts = mem[t].receipts
      /\ mem'[t].recovered = {} /\ mem[t].receipts = {}
  BY <1>1, TaskTypes DEF Memory, RecordInvariant, NotesInvariant, Notes
<1>3. Notes(t)'
  BY <1>1, <1>2 DEF RecordInvariant, NotesInvariant, Notes
<1>4. NotesInvariant'
  BY <1>1, <1>3, NotesStand DEF RecordInvariant, NotesInvariant
<1>5. PreparedInvariant'
  <2>1. \A u \in Tasks : Prepared(u)'
    BY <1>1 DEF RecordInvariant, PreparedInvariant, Prepared, LeavesOthers
  <2> QED
    BY <2>1 DEF PreparedInvariant
<1>6. DueInvariant'
  BY <1>1, DueStands DEF RecordInvariant, LeavesOthers
<1>7. Kept => Kept'
  BY <1>1, KeptStands DEF Kept, LeavesOthers, Connected, Working
<1>8. ASSUME NEW u \in Tasks, marker = u PROVE Known(u) \subseteq Known(u)'
  <2>1. u = t => mem[t].pending
    BY <1>1, <1>8 DEF RecordInvariant, NotesInvariant, Notes
  <2> QED
    BY <1>1, <1>2, <1>8, <2>1 DEF Known, InWindow, LeavesOthers
<1>9. StaleInvariant'
  BY <1>1, <1>7, <1>8, StaleStands DEF RecordInvariant
<1>10. TodoInvariant'
  BY <1>1, TodoStands DEF RecordInvariant, LeavesOthers
<1> QED
  BY <1>4, <1>5, <1>6, <1>9, <1>10 DEF RecordInvariant

LEMMA RollForwardRecord ==
    ASSUME SharedInvariant, SharedInvariant', DataInvariant, RecordInvariant,
           NEW t \in Tasks, RollForward(t)
    PROVE  RecordInvariant'
<1>1. /\ UNCHANGED <<baseline, rebuild, marker, seen>>
      /\ pc[t] = "checked" /\ mem[t].recovered = {} /\ mem[t].receipts = {}
      /\ \A u \in Tasks : pc[u] \in {"off", "checked", "ready"}
  BY Holder DEF RollForward, Free, others, RecordInvariant, NotesInvariant, Notes
<1>2. CASE ~intent.made
  <2>1. /\ UNCHANGED <<stale, due, intent, mem, forgotten>>
        /\ pc'[t] = "ready" /\ LeavesOthers(t)
    BY <1>1, <1>2 DEF RollForward, pool, SharedInvariant, LockInvariant, LeavesOthers
  <2>2. Notes(t)'
    BY <1>1, <2>1 DEF RecordInvariant, NotesInvariant, Notes
  <2>3. NotesInvariant'
    BY <1>1, <2>1, <2>2, NotesStand DEF RecordInvariant, NotesInvariant
  <2>4. PreparedInvariant'
    <3>1. \A u \in Tasks : Prepared(u)'
      BY <1>1, <2>1 DEF PreparedInvariant, Prepared, LeavesOthers
    <3> QED
      BY <3>1 DEF PreparedInvariant
  <2>5. DueInvariant'
    BY <1>1, <2>1, DueStands DEF RecordInvariant
  <2>6. Kept => Kept'
    BY <1>1, <2>1, KeptStands DEF Kept, LeavesOthers, Connected, Working
  <2>7. ASSUME NEW u \in Tasks, marker = u PROVE Known(u) \subseteq Known(u)'
    BY <1>1, <2>1 DEF Known, InWindow, LeavesOthers
  <2>8. StaleInvariant'
    BY <1>1, <2>1, <2>6, <2>7, StaleStands DEF RecordInvariant
  <2>9. TodoInvariant'
    BY <1>1, <2>1, TodoStands DEF RecordInvariant, LeavesOthers
  <2> QED
    BY <2>3, <2>4, <2>5, <2>8, <2>9 DEF RecordInvariant
<1>3. CASE intent.made
  <2>1. /\ marker # "migration" /\ Apply(intent)
        /\ pc'[t] = "ready" /\ LeavesOthers(t)
        /\ mem'[t] = [mem[t] EXCEPT !["recovered"] = intent.fixes]
        /\ forgotten' = IF marker \in {"none", t} THEN forgotten
                        ELSE [forgotten EXCEPT !.rows = @ \cup intent.stales]
    BY <1>1, <1>3, TaskTypes DEF RollForward, Remember, SharedInvariant, LockInvariant,
                                 MarkerInvariant, LeavesOthers
  <2>2. /\ intent' = None /\ stale' \subseteq stale \cup intent.stales
        /\ due' \subseteq due \cup intent.due /\ None.due = {} /\ None.stales = {}
    BY <2>1 DEF Apply, None
  <2>3. /\ mem'[t].first = mem[t].first /\ mem'[t].last = mem[t].last
        /\ mem'[t].day = mem[t].day /\ mem'[t].pending = mem[t].pending
        /\ mem'[t].receipts = {} /\ mem'[t].recovered = intent.fixes
    BY <1>1, <2>1, TaskTypes DEF Memory
  <2>4. /\ forgotten.rows \subseteq forgotten'.rows /\ forgotten'.days = forgotten.days
        /\ marker \notin {"none", t} => intent.stales \subseteq forgotten'.rows
    BY <2>1 DEF DataInvariant, PoolInvariant
  <2>5. Notes(t)'
    BY <1>1, <2>1, <2>3 DEF RecordInvariant, NotesInvariant, Notes
  <2>6. NotesInvariant'
    BY <1>1, <2>1, <2>5, NotesStand DEF RecordInvariant, NotesInvariant
  <2>7. PreparedInvariant'
    <3>1. \A u \in Tasks : pc'[u] \in {"off", "checked", "ready"}
      BY <1>1, <2>1 DEF LeavesOthers
    <3> QED
      BY <3>1 DEF PreparedInvariant, Prepared
  <2>8. DueInvariant'
    BY <1>1, <2>2, <2>4, DueStands DEF RecordInvariant
  <2>9. Kept => Kept'
    BY <1>1, <2>1, KeptStands DEF Kept, LeavesOthers, Connected, Working
  <2>10. StaleInvariant'
    <3>1. ASSUME NEW u \in Tasks, marker = u, ~Kept
          PROVE  stale' \subseteq forgotten'.rows \cup Dependents(Known(u))'
      <4>1. /\ stale \subseteq forgotten.rows \cup Dependents(Known(u))
            /\ intent.stales \subseteq
                   forgotten.rows \cup Dependents(intent.fixes \cap InWindow(u))
        BY <3>1 DEF RecordInvariant, StaleInvariant
      <4>2. Known(u) \subseteq Known(u)'
        BY <1>1, <2>1, <2>3, <3>1 DEF Known, InWindow, LeavesOthers
      <4>3. u = t => intent.fixes \cap InWindow(u) \subseteq Known(u)'
        BY <2>3 DEF Known, InWindow
      <4>4. /\ Dependents(Known(u)) \subseteq Dependents(Known(u))'
            /\ u = t => Dependents(intent.fixes \cap InWindow(u)) \subseteq Dependents(Known(u))'
        BY <4>2, <4>3 DEF Dependents
      <4>5. u # t => intent.stales \subseteq forgotten'.rows
        BY <2>4, <3>1, Holder
      <4> QED
        BY <2>2, <2>4, <4>1, <4>4, <4>5
    <3>2. marker \notin Tasks => stale' \subseteq forgotten'.rows
      BY <2>2, <2>4 DEF RecordInvariant, StaleInvariant
    <3> QED
      BY <1>1, <2>2, <2>9, <3>1, <3>2 DEF StaleInvariant
  <2>11. TodoInvariant'
    <3>1. \A u \in Tasks : pc'[u] \in {"off", "checked", "ready"}
      BY <1>1, <2>1 DEF LeavesOthers
    <3> QED
      BY <3>1 DEF TodoInvariant, Todo
  <2> QED
    BY <2>6, <2>7, <2>8, <2>10, <2>11 DEF RecordInvariant
<1> QED
  BY <1>2, <1>3

LEMMA WriteMarkerRecord ==
    ASSUME SharedInvariant, SharedInvariant', DataInvariant, RecordInvariant,
           NEW t \in Tasks, WriteMarker(t)
    PROVE  RecordInvariant'
<1>1. /\ UNCHANGED <<stale, due, baseline, rebuild, intent, seen, mem>>
      /\ pc[t] = "staged" /\ pc'[t] = "gated" /\ LeavesOthers(t) /\ marker' = t
      /\ forgotten' = IF marker \in {"none", t} THEN forgotten
                      ELSE [rows |-> forgotten.rows \cup stale \cup intent.stales,
                            days |-> forgotten.days \cup due \cup intent.due]
  BY DEF WriteMarker, SharedInvariant, LockInvariant, LeavesOthers, pool, others
<1>2. /\ forgotten.rows \subseteq forgotten'.rows /\ forgotten.days \subseteq forgotten'.days
      /\ marker \notin {"none", t} => stale \cup intent.stales \subseteq forgotten'.rows
  BY <1>1
<1>3. \A u \in Tasks : u # t => pc[u] \in {"off", "checked", "ready"}
  BY <1>1, Holder
<1>4. Notes(t)'
  BY <1>1 DEF RecordInvariant, NotesInvariant, Notes
<1>5. NotesInvariant'
  BY <1>1, <1>4, NotesStand DEF RecordInvariant, NotesInvariant
<1>6. PreparedInvariant'
  <2>1. Prepared(t)'
    BY <1>1 DEF Prepared
  <2> QED
    BY <1>1, <2>1, PreparedStands DEF Working
<1>7. DueInvariant'
  BY <1>1, <1>2, <1>3, DueStands DEF RecordInvariant
<1>8. ASSUME marker # t PROVE StaleInvariant'
  <2>1. stale' \subseteq forgotten'.rows /\ intent'.stales \subseteq forgotten'.rows
    <3>1. marker = "none" => marker \notin Tasks
      BY ConstantsAssumption
    <3> QED
      BY <1>1, <1>2, <1>8, <3>1 DEF RecordInvariant, StaleInvariant
  <2> QED
    BY <2>1 DEF StaleInvariant
<1>9. ASSUME marker = t PROVE StaleInvariant'
  <2>1. Kept => Kept'
    BY <1>1, <1>9, KeptStands DEF Kept, LeavesOthers, Connected, Working
  <2>2. mem[t].pending
    BY <1>1, <1>9 DEF RecordInvariant, NotesInvariant, Notes
  <2>3. ASSUME NEW u \in Tasks, marker = u PROVE Known(u) \subseteq Known(u)'
    BY <1>1, <1>9, <2>2, <2>3 DEF Known, InWindow
  <2>4. marker' = marker
    BY <1>1, <1>9
  <2> QED
    BY <1>1, <1>2, <2>1, <2>3, <2>4, StaleStands DEF RecordInvariant
<1>10. TodoInvariant'
  BY <1>1, <1>2, TodoStands DEF RecordInvariant, LeavesOthers
<1> QED
  BY <1>5, <1>6, <1>7, <1>8, <1>9, <1>10 DEF RecordInvariant

LEMMA ConnectRecord ==
    ASSUME SharedInvariant, SharedInvariant', DataInvariant, RecordInvariant,
           NEW t \in Tasks, Connect(t)
    PROVE  RecordInvariant'
<1>1. /\ UNCHANGED <<stale, due, baseline, rebuild, intent, marker, seen, forgotten>>
      /\ pc[t] = "gated" /\ mem[t].receipts = {} /\ mem[t].recovered = {}
  BY DEF Connect, pool, others, ghosts, RecordInvariant, NotesInvariant, Notes
<1>2. CASE End(t)
  BY <1>1, <1>2, EndRecord DEF Dependents
<1>3. CASE ~End(t)
  <2>1. /\ ~intent.made /\ pc'[t] = "day" /\ LeavesOthers(t)
        /\ mem'[t] = [mem[t] EXCEPT !["based"] = baseline]
    BY <1>1, <1>3, TaskTypes DEF Connect, Remember, SharedInvariant, LockInvariant, LeavesOthers
  <2>2. /\ mem'[t].first = mem[t].first /\ mem'[t].last = mem[t].last
        /\ mem'[t].day = mem[t].day /\ mem'[t].pending = mem[t].pending
        /\ mem'[t].receipts = {} /\ mem'[t].recovered = {} /\ mem'[t].based = baseline
    BY <1>1, <2>1, TaskTypes DEF Memory
  <2>3. Notes(t)'
    BY <1>1, <2>1, <2>2 DEF RecordInvariant, NotesInvariant, Notes
  <2>4. NotesInvariant'
    BY <1>1, <2>1, <2>3, NotesStand DEF RecordInvariant, NotesInvariant
  <2>5. intent = None
    BY <2>1 DEF DataInvariant, IntentInvariant
  <2>6. Prepared(t)'
    BY <1>1, <2>1, <2>5 DEF Prepared, None
  <2>7. PreparedInvariant'
    BY <2>1, <2>6, PreparedStands DEF Working
  <2>8. DueInvariant'
    BY <1>1, <2>1, DueStands DEF RecordInvariant, LeavesOthers
  <2>9. Kept => Kept'
    BY <1>1, <2>1, <2>2, KeptStands DEF Kept, LeavesOthers, Connected, Working
  <2>10. \A u \in Tasks : Known(u) \subseteq Known(u)'
    BY <1>1, <2>1, <2>2 DEF Known, InWindow, LeavesOthers
  <2>11. StaleInvariant'
    BY <1>1, <2>9, <2>10, StaleStands DEF RecordInvariant
  <2>12. TodoInvariant'
    BY <1>1, <2>1, TodoStands DEF RecordInvariant, LeavesOthers
  <2> QED
    BY <2>4, <2>7, <2>8, <2>11, <2>12 DEF RecordInvariant
<1> QED
  BY <1>2, <1>3

-----------------------------------------------------------------------------
(* Its days. *)

(* While a process works, the others look at most. *)
LEMMA WorksAlone ==
    ASSUME SharedInvariant, NEW t \in Tasks, pc[t] \in Working
    PROVE  /\ marker = t
           /\ \A u \in Tasks : u # t => marker # u /\ pc[u] \in {"off", "checked", "ready"}
  BY Holder

LEMMA RepairDayRecord ==
    ASSUME SharedInvariant, SharedInvariant', DataInvariant, RecordInvariant,
           NEW t \in Tasks, RepairDay(t)
    PROVE  RecordInvariant'
<1> DEFINE fixes == {r \in wrong : r[2] = mem[t].day}
           I == [An EXCEPT !.fixes = fixes, !.stales = Dependents(fixes), !.sums = {mem[t].day}]
<1>1. /\ UNCHANGED <<stale, due, baseline, rebuild, marker, seen, forgotten, mem>>
      /\ pc[t] = "day" /\ ~intent.made /\ LeavesOthers(t) /\ marker = t
      /\ \A u \in Tasks : u # t => marker # u /\ pc[u] \in {"off", "checked", "ready"}
      /\ \/ pc'[t] = "next" /\ UNCHANGED intent
         \/ pc'[t] = "day" /\ intent' = I
  BY WorksAlone DEF RepairDay, SharedInvariant, LockInvariant, LeavesOthers, Working,
                    pool, others, ghosts
<1>2. I.fixes = fixes /\ I.stales = Dependents(fixes) /\ I.due = {}
  BY DEF An, None
<1>3. fixes \subseteq InWindow(t)
  <2>1. \A r \in fixes : r \in Rows /\ r[2] = mem[t].day
    BY DEF DataInvariant, PoolInvariant
  <2>2. Window[t][1] <= mem[t].day /\ mem[t].day <= Window[t][2]
    <3>1. /\ mem[t].day \in Nat /\ mem[t].first \in Nat /\ mem[t].last \in Nat
          /\ Window[t][1] \in Nat /\ Window[t][2] \in Nat
      BY TaskTypes, BlankIsEmpty, ConstantsAssumption DEF Days
    <3>2. /\ Window[t][1] <= mem[t].first /\ mem[t].first <= mem[t].day
          /\ mem[t].day <= mem[t].last /\ mem[t].last <= Window[t][2]
      BY <1>1 DEF RecordInvariant, NotesInvariant, Notes
    <3> QED
      BY <3>1, <3>2
  <2> QED
    BY <2>1, <2>2 DEF InWindow
<1>4. \A r \in fixes : r[2] = mem[t].day
  OBVIOUS
<1> HIDE DEF fixes, I
<1>5. intent = None /\ None.due = {} /\ None.stales = {} /\ None.fixes = {} /\ ~None.made
  BY <1>1 DEF DataInvariant, IntentInvariant, None
<1>6. Notes(t)'
  BY <1>1 DEF RecordInvariant, NotesInvariant, Notes
<1>7. NotesInvariant'
  BY <1>1, <1>6, NotesStand DEF RecordInvariant, NotesInvariant
<1>8. Prepared(t)'
  BY <1>1, <1>2, <1>4, <1>5 DEF Prepared
<1>9. PreparedInvariant'
  BY <1>1, <1>8, PreparedStands DEF Working
<1>10. DueInvariant'
  BY <1>1, <1>2, <1>5, DueStands DEF RecordInvariant
<1>11. Kept => Kept'
  BY <1>1, KeptStands DEF Kept, LeavesOthers, Connected, Working
<1>12. StaleInvariant'
  <2>1. Known(t) \subseteq Known(t)'
    BY <1>1 DEF Known, InWindow
  <2>2. CASE UNCHANGED intent
    <3>1. \A u \in Tasks : marker = u => Known(u) \subseteq Known(u)'
      BY <1>1, <2>1
    <3> QED
      BY <1>1, <1>11, <2>2, <3>1, StaleStands DEF RecordInvariant
  <2>3. CASE intent' = I
    <3>1. ASSUME ~Kept PROVE stale \subseteq forgotten.rows \cup Dependents(Known(t))'
      <4>1. stale \subseteq forgotten.rows \cup Dependents(Known(t))
        BY <1>1, <3>1 DEF RecordInvariant, StaleInvariant
      <4>2. Dependents(Known(t)) \subseteq Dependents(Known(t))'
        BY <2>1 DEF Dependents
      <4> QED
        BY <4>1, <4>2
    <3>2. intent'.stales \subseteq Dependents(intent.fixes \cap InWindow(t))'
      <4>1. intent'.fixes = fixes /\ intent'.stales = Dependents(fixes)
        BY <1>2, <2>3
      <4>2. fixes \subseteq intent'.fixes \cap InWindow(t)
        BY <1>3, <4>1
      <4> QED
        BY <4>1, <4>2 DEF Dependents, InWindow
    <3> QED
      BY <1>1, <1>11, <3>1, <3>2 DEF StaleInvariant
  <2> QED
    BY <1>1, <2>2, <2>3
<1>13. TodoInvariant'
  BY <1>1, TodoStands DEF RecordInvariant, LeavesOthers
<1> QED
  BY <1>7, <1>9, <1>10, <1>12, <1>13 DEF RecordInvariant

LEMMA DayPublishedRecord ==
    ASSUME SharedInvariant, SharedInvariant', DataInvariant, RecordInvariant,
           NEW t \in Tasks, DayPublished(t)
    PROVE  RecordInvariant'
<1>1. /\ UNCHANGED <<baseline, rebuild, marker, seen, forgotten>>
      /\ pc[t] = "day" /\ pc'[t] = "record" /\ intent.made /\ Apply(intent)
      /\ LeavesOthers(t) /\ marker = t
      /\ \A u \in Tasks : u # t => marker # u /\ pc[u] \in {"off", "checked", "ready"}
      /\ mem'[t] = [mem[t] EXCEPT !["receipts"] = mem[t].receipts \cup intent.fixes]
  <2>1. /\ UNCHANGED <<baseline, rebuild, marker, seen, forgotten>>
        /\ pc[t] = "day" /\ pc' = [pc EXCEPT ![t] = "record"] /\ intent.made /\ Apply(intent)
        /\ mem' = [mem EXCEPT ![t] = [@ EXCEPT !["receipts"] = mem[t].receipts \cup intent.fixes]]
    BY DEF DayPublished, Remember, others, ghosts
  <2>2. marker = t /\ \A u \in Tasks : u # t => marker # u /\ pc[u] \in {"off", "checked", "ready"}
    BY <2>1, WorksAlone DEF Working
  <2>3. pc'[t] = "record" /\ LeavesOthers(t)
    BY <2>1 DEF SharedInvariant, LockInvariant, LeavesOthers
  <2>4. mem'[t] = [mem[t] EXCEPT !["receipts"] = mem[t].receipts \cup intent.fixes]
    BY <2>1, TaskTypes
  <2> QED
    BY <2>1, <2>2, <2>3, <2>4
<1>2. /\ mem'[t].first = mem[t].first /\ mem'[t].last = mem[t].last /\ mem'[t].day = mem[t].day
      /\ mem'[t].pending = mem[t].pending /\ mem'[t].based = mem[t].based
      /\ mem'[t].receipts = mem[t].receipts \cup intent.fixes
      /\ mem'[t].recovered = mem[t].recovered
  BY <1>1, TaskTypes DEF Memory
<1>3. /\ intent' = None /\ stale' \subseteq stale \cup intent.stales
      /\ due' \subseteq due \cup intent.due
      /\ None.due = {} /\ None.stales = {} /\ ~None.made
  BY <1>1 DEF Apply, None
<1>4. intent.fixes \subseteq InWindow(t)
  <2>1. \A r \in intent.fixes : r \in Rows /\ r[2] = mem[t].day
    BY <1>1 DEF DataInvariant, IntentInvariant, Intents, RecordInvariant, PreparedInvariant, Prepared
  <2>2. Window[t][1] <= mem[t].day /\ mem[t].day <= Window[t][2]
    <3>1. /\ mem[t].day \in Nat /\ mem[t].first \in Nat /\ mem[t].last \in Nat
          /\ Window[t][1] \in Nat /\ Window[t][2] \in Nat
      BY TaskTypes, BlankIsEmpty, ConstantsAssumption DEF Days
    <3>2. /\ Window[t][1] <= mem[t].first /\ mem[t].first <= mem[t].day
          /\ mem[t].day <= mem[t].last /\ mem[t].last <= Window[t][2]
      BY <1>1 DEF RecordInvariant, NotesInvariant, Notes
    <3> QED
      BY <3>1, <3>2
  <2> QED
    BY <2>1, <2>2 DEF InWindow
<1>5. \A r \in intent.fixes : r[2] = mem[t].day
  BY <1>1 DEF RecordInvariant, PreparedInvariant, Prepared
<1>6. Notes(t)'
  BY <1>1, <1>2, <1>4, <1>5 DEF RecordInvariant, NotesInvariant, Notes, InWindow
<1>7. NotesInvariant'
  BY <1>1, <1>6, NotesStand DEF RecordInvariant, NotesInvariant
<1>8. Prepared(t)'
  BY <1>1, <1>3 DEF Prepared
<1>9. PreparedInvariant'
  BY <1>1, <1>8, PreparedStands DEF Working
<1>10. DueInvariant'
  BY <1>1, <1>3, DueStands DEF RecordInvariant
<1>11. Kept => Kept'
  BY <1>1, <1>2, KeptStands DEF Kept, LeavesOthers, Connected, Working
<1>12. StaleInvariant'
  <2>1. ASSUME ~Kept PROVE stale' \subseteq forgotten.rows \cup Dependents(Known(t))'
    <3>1. /\ stale \subseteq forgotten.rows \cup Dependents(Known(t))
          /\ intent.stales \subseteq forgotten.rows \cup Dependents(intent.fixes \cap InWindow(t))
      BY <1>1, <2>1 DEF RecordInvariant, StaleInvariant
    <3>2. Known(t) \subseteq Known(t)' /\ intent.fixes \cap InWindow(t) \subseteq Known(t)'
      BY <1>1, <1>2 DEF Known, InWindow
    <3>3. /\ Dependents(Known(t)) \subseteq Dependents(Known(t))'
          /\ Dependents(intent.fixes \cap InWindow(t)) \subseteq Dependents(Known(t))'
      BY <3>2 DEF Dependents
    <3> QED
      BY <1>3, <3>1, <3>3
  <2> QED
    BY <1>1, <1>3, <1>11, <2>1 DEF StaleInvariant
<1>13. TodoInvariant'
  BY <1>1, TodoStands DEF RecordInvariant, LeavesOthers
<1> QED
  BY <1>7, <1>9, <1>10, <1>12, <1>13 DEF RecordInvariant

LEMMA NotesRecord ==
    ASSUME SharedInvariant, SharedInvariant', DataInvariant, RecordInvariant,
           NEW t \in Tasks, Record(t)
    PROVE  RecordInvariant'
<1>1. /\ UNCHANGED <<stale, due, intent, baseline, rebuild, marker, forgotten, mem>>
      /\ pc[t] = "record" /\ pc'[t] = "next" /\ LeavesOthers(t) /\ marker = t
      /\ \A u \in Tasks : u # t => marker # u /\ pc[u] \in {"off", "checked", "ready"}
      /\ seen'[t] = seen[t] \cup {r \in mem[t].receipts : r[2] = mem[t].day}
  BY WorksAlone, TaskTypes DEF Record, SharedInvariant, LockInvariant, LeavesOthers, Working,
                               pool, others, gates, ghosts
<1>2. Notes(t)'
  BY <1>1 DEF RecordInvariant, NotesInvariant, Notes, InWindow
<1>3. NotesInvariant'
  BY <1>1, <1>2, NotesStand DEF RecordInvariant, NotesInvariant
<1>4. Prepared(t)'
  BY <1>1 DEF RecordInvariant, PreparedInvariant, Prepared
<1>5. PreparedInvariant'
  BY <1>1, <1>4, PreparedStands DEF Working
<1>6. DueInvariant'
  BY <1>1, DueStands DEF RecordInvariant
<1>7. Kept => Kept'
  BY <1>1, KeptStands DEF Kept, LeavesOthers, Connected, Working
<1>8. ASSUME NEW u \in Tasks, marker = u PROVE Known(u) \subseteq Known(u)'
  BY <1>1, <1>8 DEF Known, InWindow
<1>9. StaleInvariant'
  BY <1>1, <1>7, <1>8, StaleStands DEF RecordInvariant
<1>10. TodoInvariant'
  BY <1>1, TodoStands DEF RecordInvariant, LeavesOthers
<1> QED
  BY <1>3, <1>5, <1>6, <1>9, <1>10 DEF RecordInvariant

(* A run over the whole window looks up every correction that it knows of. *)
LEMMA KnownIsCorrected ==
    ASSUME DataInvariant, NEW t \in Tasks, Opens(t), pc[t] # "off", mem[t].recovered = {},
           NEW q \in Known(t)
    PROVE  q[1] \in Symbols /\ q[2] \in Corrected(t, q[1])
<1>1. q \in Rows /\ q[1] \in Symbols /\ q[2] \in Days
  BY DEF Known, InWindow, Rows
<1>2. CASE q \in mem[t].receipts
  BY <1>1, <1>2 DEF Corrected
<1>3. CASE q \notin mem[t].receipts
  <2>1. mem[t].pending /\ q \in seen[t]
    BY <1>3 DEF Known
  <2>2. mem[t].first <= q[2] /\ q[2] <= mem[t].last
    BY DEF Known, InWindow, Opens
  <2>3. q[2] \in mem[t].first..mem[t].last
    <3>1. q[2] \in Nat /\ mem[t].first \in Nat /\ mem[t].last \in Nat
      BY <1>1, TaskTypes, BlankIsEmpty
    <3> QED
      BY <2>2, <3>1
  <2> QED
    BY <1>1, <2>1, <2>3 DEF Corrected
<1> QED
  BY <1>2, <1>3

LEMMA NextDayRecord ==
    ASSUME SharedInvariant, SharedInvariant', DataInvariant, RecordInvariant,
           NEW t \in Tasks, NextDay(t)
    PROVE  RecordInvariant'
<1>0. PICK todo : todo = {s \in Symbols : Corrected(t, s) # {}}
  OBVIOUS
<1>1. /\ UNCHANGED <<stale, due, intent, baseline, rebuild, marker, seen, forgotten>>
      /\ pc[t] = "next" /\ LeavesOthers(t) /\ marker = t
      /\ \A u \in Tasks : u # t => marker # u /\ pc[u] \in {"off", "checked", "ready"}
      /\ \/ /\ mem[t].day < mem[t].last /\ pc'[t] = "day"
            /\ mem'[t] = [mem[t] EXCEPT !["day"] = mem[t].day + 1]
         \/ /\ pc'[t] = "dependents"
            /\ mem'[t] = [mem[t] EXCEPT !["todo"] = todo]
  <2>1. /\ UNCHANGED <<stale, due, intent, baseline, rebuild, marker, seen, forgotten>>
        /\ pc[t] = "next"
        /\ \/ /\ mem[t].day < mem[t].last /\ pc' = [pc EXCEPT ![t] = "day"]
              /\ mem' = [mem EXCEPT ![t] = [@ EXCEPT !["day"] = mem[t].day + 1]]
           \/ /\ pc' = [pc EXCEPT ![t] = "dependents"]
              /\ mem' = [mem EXCEPT ![t] = [@ EXCEPT !["todo"] = todo]]
    BY <1>0 DEF NextDay, Remember, pool, others, gates, ghosts
  <2>2. marker = t /\ \A u \in Tasks : u # t => marker # u /\ pc[u] \in {"off", "checked", "ready"}
    BY <2>1, WorksAlone DEF Working
  <2>3. DOMAIN mem = Tasks /\ DOMAIN pc = Tasks
    BY TaskTypes DEF SharedInvariant, LockInvariant
  <2>4. ASSUME NEW phase, pc' = [pc EXCEPT ![t] = phase], NEW M, mem' = [mem EXCEPT ![t] = M]
        PROVE  LeavesOthers(t) /\ pc'[t] = phase /\ mem'[t] = M
    BY <2>1, <2>3, <2>4 DEF LeavesOthers
  <2>5. CASE pc' = [pc EXCEPT ![t] = "dependents"]
             /\ mem' = [mem EXCEPT ![t] = [@ EXCEPT !["todo"] = todo]]
    BY <2>1, <2>2, <2>4, <2>5
  <2>6. CASE /\ mem[t].day < mem[t].last /\ pc' = [pc EXCEPT ![t] = "day"]
             /\ mem' = [mem EXCEPT ![t] = [@ EXCEPT !["day"] = mem[t].day + 1]]
    BY <2>1, <2>2, <2>4, <2>6
  <2> QED
    BY <2>1, <2>5, <2>6
<1>2. /\ mem'[t].first = mem[t].first /\ mem'[t].last = mem[t].last
      /\ mem'[t].pending = mem[t].pending /\ mem'[t].based = mem[t].based
      /\ mem'[t].receipts = mem[t].receipts /\ mem'[t].recovered = mem[t].recovered
      /\ pc'[t] = "day" => mem'[t].day = mem[t].day + 1 /\ mem[t].day < mem[t].last
      /\ pc'[t] = "dependents" => mem'[t].day = mem[t].day /\ mem'[t].todo = todo
      /\ pc'[t] \in {"day", "dependents"}
  BY <1>1, TaskTypes DEF Memory
<1>3. Notes(t)'
  <2>1. mem[t].day \in Nat /\ mem[t].first \in Nat /\ mem[t].last \in Nat
    BY TaskTypes, BlankIsEmpty
  <2>2. /\ Window[t][1] <= mem[t].first /\ mem[t].first <= mem[t].day
        /\ mem[t].day <= mem[t].last /\ mem[t].last <= Window[t][2]
    BY <1>1 DEF RecordInvariant, NotesInvariant, Notes
  <2>3. mem'[t].first <= mem'[t].day /\ mem'[t].day <= mem'[t].last
    BY <1>2, <2>1, <2>2
  <2> QED
    BY <1>1, <1>2, <2>2, <2>3 DEF RecordInvariant, NotesInvariant, Notes, InWindow
<1>4. NotesInvariant'
  BY <1>1, <1>3, NotesStand DEF RecordInvariant, NotesInvariant
<1>5. intent = None /\ None.due = {} /\ None.stales = {} /\ None.fixes = {}
  BY <1>1 DEF RecordInvariant, PreparedInvariant, Prepared, DataInvariant, IntentInvariant, None
<1>6. Prepared(t)'
  BY <1>1, <1>5 DEF Prepared
<1>7. PreparedInvariant'
  BY <1>2, <1>6, PreparedStands DEF Working
<1>8. DueInvariant'
  BY <1>1, DueStands DEF RecordInvariant
<1>9. Kept => Kept'
  BY <1>1, <1>2, KeptStands DEF Kept, LeavesOthers, Connected, Working
<1>10. ASSUME NEW u \in Tasks, marker = u PROVE Known(u) \subseteq Known(u)'
  BY <1>1, <1>2, <1>10 DEF Known, InWindow
<1>11. StaleInvariant'
  BY <1>1, <1>9, <1>10, StaleStands DEF RecordInvariant
<1>12. TodoInvariant'
  <2>1. ASSUME Opens(t), NEW r \in stale \ forgotten.rows PROVE r[1] \in todo
    <3>1. ~Kept
      BY <1>1, <2>1 DEF Kept, Opens, Connected, Working
    <3>2. PICK q \in Known(t) : q[1] = r[1] /\ q[2] <= r[2]
      BY <1>1, <2>1, <3>1 DEF RecordInvariant, StaleInvariant, Dependents
    <3>3. mem[t].recovered = {}
      BY <1>1 DEF RecordInvariant, NotesInvariant, Notes
    <3>4. q[1] \in Symbols /\ q[2] \in Corrected(t, q[1])
      BY <1>1, <2>1, <3>2, <3>3, KnownIsCorrected
    <3> QED
      BY <1>0, <3>2, <3>4
  <2>2. Opens(t)' => Opens(t)
    BY <1>2 DEF Opens
  <2>3. Todo(t)'
    BY <1>1, <1>2, <2>1, <2>2 DEF Todo
  <2>4. ASSUME NEW u \in Tasks, u # t PROVE Todo(u)'
    BY <1>1, <2>4 DEF Todo, LeavesOthers
  <2> QED
    BY <2>3, <2>4 DEF TodoInvariant
<1> QED
  BY <1>4, <1>7, <1>8, <1>11, <1>12 DEF RecordInvariant

LEMMA StopRecord ==
    ASSUME SharedInvariant, SharedInvariant', DataInvariant, RecordInvariant,
           NEW t \in Tasks, Stop(t)
    PROVE  RecordInvariant'
<1>1. /\ UNCHANGED <<stale, due, baseline, rebuild, intent, marker, seen, forgotten>>
      /\ pc[t] = "next" /\ End(t)
  BY DEF Stop, pool, others, ghosts
<1>2. (mem[t].receipts \cup mem[t].recovered) \ seen[t] = {}
  BY <1>1 DEF RecordInvariant, NotesInvariant, Notes
<1>3. Dependents((mem[t].receipts \cup mem[t].recovered) \ seen[t]) = {}
  BY <1>2 DEF Dependents
<1> QED
  BY <1>1, <1>3, EndRecord

-----------------------------------------------------------------------------
(* Its dependents and summaries. *)

LEMMA RepairDependentsRecord ==
    ASSUME SharedInvariant, SharedInvariant', DataInvariant, RecordInvariant,
           NEW t \in Tasks, NEW s \in Symbols, RepairDependents(t, s)
    PROVE  RecordInvariant'
<1>0. PICK fresh : fresh = {r \in stale : r[1] = s /\ Min(Corrected(t, s)) <= r[2]}
  OBVIOUS
<1>00. PICK days : days = {r[2] : r \in fresh}
  OBVIOUS
<1> DEFINE known == mem[t].summaries \cup days \cup Corrected(t, s)
           M == [mem[t] EXCEPT !.todo = mem[t].todo \ {s}, !.summaries = known]
           I == [An EXCEPT !.fresh = fresh, !.due = days]
<1>1. /\ UNCHANGED <<stale, due, baseline, rebuild, marker, pc, seen, forgotten>>
      /\ pc[t] = "dependents" /\ ~intent.made
      /\ mem' = [mem EXCEPT ![t] = M]
      /\ IF fresh = {} THEN UNCHANGED intent ELSE intent' = I
  BY <1>0, <1>00 DEF RepairDependents, pool, others, ghosts
<1>2. /\ mem'[t] = M /\ LeavesOthers(t) /\ marker = t
      /\ \A u \in Tasks : u # t => marker # u /\ pc[u] \in {"off", "checked", "ready"}
  BY <1>1, WorksAlone, TaskTypes DEF LeavesOthers, Working
<1>3. /\ mem'[t].first = mem[t].first /\ mem'[t].last = mem[t].last /\ mem'[t].day = mem[t].day
      /\ mem'[t].pending = mem[t].pending /\ mem'[t].based = mem[t].based
      /\ mem'[t].receipts = mem[t].receipts /\ mem'[t].recovered = mem[t].recovered
      /\ mem'[t].todo = mem[t].todo \ {s} /\ mem'[t].summaries = known
  BY <1>2, TaskTypes DEF Memory
<1>4. /\ intent = None /\ None.due = {} /\ None.stales = {} /\ None.fresh = {}
      /\ I.stales = {} /\ I.fresh = fresh /\ I.due = days
  BY <1>1 DEF DataInvariant, IntentInvariant, None, An
<1> HIDE DEF I, M
<1>5. intent'.stales = {} /\ intent'.fresh = fresh /\ intent'.due \subseteq days
  BY <1>1, <1>4
<1>6. Notes(t)'
  BY <1>1, <1>3 DEF RecordInvariant, NotesInvariant, Notes, InWindow
<1>7. NotesInvariant'
  BY <1>1, <1>2, <1>6, NotesStand DEF RecordInvariant, NotesInvariant
<1>8. Prepared(t)'
  BY <1>1, <1>5 DEF Prepared
<1>9. PreparedInvariant'
  BY <1>1, <1>8, PreparedStands DEF Working
<1>10. DueInvariant'
  <2>1. ASSUME NEW d, Awaited(d) PROVE Awaited(d)'
    BY <1>1, <1>2, <1>3, <2>1 DEF Awaited, LeavesOthers
  <2>2. \A d \in days : Awaited(d)'
    BY <1>1, <1>3 DEF Awaited
  <2> QED
    BY <1>1, <1>5, <2>1, <2>2 DEF RecordInvariant, DueInvariant
<1>11. Kept => Kept'
  BY <1>1, <1>2, <1>3, KeptStands DEF Kept, LeavesOthers, Connected, Working
<1>12. ASSUME NEW u \in Tasks, marker = u PROVE Known(u) \subseteq Known(u)'
  BY <1>1, <1>2, <1>3, <1>12 DEF Known, InWindow
<1>13. StaleInvariant'
  BY <1>1, <1>5, <1>11, <1>12, StaleStands DEF RecordInvariant
<1>14. TodoInvariant'
  <2>1. ASSUME Opens(t), NEW r \in stale \ forgotten.rows
        PROVE  r[1] \in mem[t].todo \ {s} \/ r \in fresh
    <3>1. ~Kept
      BY <1>1, <2>1 DEF Kept, Opens, Connected, Working
    <3>2. PICK q \in Known(t) : q[1] = r[1] /\ q[2] <= r[2]
      BY <1>2, <2>1, <3>1 DEF RecordInvariant, StaleInvariant, Dependents
    <3>3. mem[t].recovered = {} /\ r[1] \in mem[t].todo
      BY <1>1, <1>4, <2>1 DEF RecordInvariant, NotesInvariant, Notes, TodoInvariant, Todo
    <3>4. q[2] \in Corrected(t, q[1])
      BY <1>1, <2>1, <3>2, <3>3, KnownIsCorrected
    <3>5. CASE r[1] = s
      <4>1. Corrected(t, s) \in SUBSET Days
        BY CorrectedDays DEF DataInvariant
      <4>2. Corrected(t, s) \in SUBSET Nat
        BY <4>1, BlankIsEmpty
      <4>3. Min(Corrected(t, s)) <= q[2] /\ Min(Corrected(t, s)) \in Nat /\ q[2] \in Nat
        BY <3>2, <3>4, <3>5, <4>2, LeastNumber
      <4>4. r[2] \in Nat
        <5>1. r \in Rows
          BY DEF DataInvariant, PoolInvariant
        <5> QED
          BY <5>1, BlankIsEmpty DEF Rows
      <4>5. PICK m : m = Min(Corrected(t, s))
        OBVIOUS
      <4>6. m <= r[2]
        BY <3>2, <4>3, <4>4, <4>5
      <4> QED
        BY <1>0, <3>5, <4>5, <4>6
    <3>6. CASE r[1] # s
      BY <3>3, <3>6
    <3> QED
      BY <3>5, <3>6
  <2>2. Opens(t)' => Opens(t)
    BY <1>3 DEF Opens
  <2>3. Todo(t)'
    BY <1>1, <1>3, <1>5, <2>1, <2>2 DEF Todo
  <2>4. ASSUME NEW u \in Tasks, u # t PROVE Todo(u)'
    BY <1>1, <1>2, <2>4 DEF Todo
  <2> QED
    BY <2>3, <2>4 DEF TodoInvariant
<1> QED
  BY <1>7, <1>9, <1>10, <1>13, <1>14 DEF RecordInvariant

LEMMA DependentsPublishedRecord ==
    ASSUME SharedInvariant, SharedInvariant', DataInvariant, RecordInvariant,
           NEW t \in Tasks, DependentsPublished(t)
    PROVE  RecordInvariant'
<1>1. /\ UNCHANGED <<baseline, rebuild, marker, mem, seen, forgotten>> /\ pc[t] = "dependents"
      /\ intent.stales = {} /\ None.due = {} /\ None.stales = {}
      /\ \/ intent.made /\ Apply(intent) /\ UNCHANGED pc
         \/ /\ ~intent.made /\ mem[t].todo = {} /\ UNCHANGED <<stale, due, intent>>
            /\ pc' = [pc EXCEPT ![t] = "summaries"]
  BY DEF DependentsPublished, others, pool, ghosts, RecordInvariant, PreparedInvariant, Prepared, None
<1>2. /\ LeavesOthers(t) /\ marker = t /\ pc'[t] \in {"dependents", "summaries"}
      /\ ~intent.made => pc'[t] = "summaries"
      /\ intent.made => pc'[t] = "dependents"
      /\ \A u \in Tasks : u # t => marker # u /\ pc[u] \in {"off", "checked", "ready"}
  BY <1>1, WorksAlone DEF LeavesOthers, Working, SharedInvariant, LockInvariant
<1>3. /\ intent' = None
      /\ stale' = IF intent.made THEN stale \ intent.fresh ELSE stale
      /\ due' \subseteq due \cup intent.due
  BY <1>1 DEF Apply, DataInvariant, IntentInvariant
<1>4. Notes(t)'
  BY <1>1, <1>2 DEF RecordInvariant, NotesInvariant, Notes, InWindow
<1>5. NotesInvariant'
  BY <1>1, <1>2, <1>4, NotesStand DEF RecordInvariant, NotesInvariant
<1>6. Prepared(t)'
  BY <1>1, <1>2, <1>3 DEF Prepared
<1>7. PreparedInvariant'
  BY <1>2, <1>6, PreparedStands DEF Working
<1>8. DueInvariant'
  BY <1>1, <1>2, <1>3, DueStands DEF RecordInvariant
<1>9. Kept => Kept'
  BY <1>1, <1>2, KeptStands DEF Kept, LeavesOthers, Connected, Working
<1>10. ASSUME NEW u \in Tasks, marker = u PROVE Known(u) \subseteq Known(u)'
  BY <1>1, <1>2, <1>10 DEF Known, InWindow
<1>11. StaleInvariant'
  BY <1>1, <1>3, <1>9, <1>10, StaleStands DEF RecordInvariant
<1>12. TodoInvariant'
  <2>1. Todo(t)
    BY DEF RecordInvariant, TodoInvariant
  <2>2. Todo(t)'
    BY <1>1, <1>2, <1>3, <2>1 DEF Todo, Opens, DataInvariant, IntentInvariant, None
  <2>3. ASSUME NEW u \in Tasks, u # t PROVE Todo(u)'
    BY <1>1, <1>2, <2>3 DEF Todo, LeavesOthers
  <2> QED
    BY <2>2, <2>3 DEF TodoInvariant
<1> QED
  BY <1>5, <1>7, <1>8, <1>11, <1>12 DEF RecordInvariant

LEMMA RepairSummaryRecord ==
    ASSUME SharedInvariant, SharedInvariant', DataInvariant, RecordInvariant,
           NEW t \in Tasks, RepairSummary(t)
    PROVE  RecordInvariant'
<1>1. /\ UNCHANGED <<stale, due, baseline, rebuild, marker, pc, mem, seen, forgotten>>
      /\ pc[t] = "summaries" /\ intent' = [An EXCEPT !.sums = {Min(mem[t].summaries)}]
  BY DEF RepairSummary, pool, others, ghosts
<1>2. intent'.stales = {} /\ intent'.due = {} /\ LeavesOthers(t)
  BY <1>1 DEF An, None, LeavesOthers
<1>3. \A u \in Tasks : u # t => pc[u] \in {"off", "checked", "ready"}
  BY <1>1, WorksAlone DEF Working
<1>4. NotesInvariant'
  BY <1>1 DEF RecordInvariant, NotesInvariant, Notes, InWindow
<1>5. PreparedInvariant'
  <2>1. Prepared(t)'
    BY <1>1, <1>2 DEF Prepared
  <2> QED
    BY <1>1, <2>1, PreparedStands DEF Working
<1>6. DueInvariant'
  BY <1>1, <1>2, DueStands DEF RecordInvariant
<1>7. Kept => Kept'
  BY <1>1, KeptStands DEF Kept, Connected, Working
<1>8. \A u \in Tasks : Known(u) \subseteq Known(u)'
  BY <1>1 DEF Known, InWindow
<1>9. StaleInvariant'
  BY <1>1, <1>2, <1>7, <1>8, StaleStands DEF RecordInvariant
<1>10. TodoInvariant'
  <2>1. ASSUME NEW u \in Tasks PROVE Todo(u)'
    BY <1>1, <1>3 DEF RecordInvariant, TodoInvariant, Todo, Opens
  <2> QED
    BY <2>1 DEF TodoInvariant
<1> QED
  BY <1>4, <1>5, <1>6, <1>9, <1>10 DEF RecordInvariant

LEMMA SummaryPublishedRecord ==
    ASSUME SharedInvariant, SharedInvariant', DataInvariant, RecordInvariant,
           NEW t \in Tasks, SummaryPublished(t)
    PROVE  RecordInvariant'
<1>1. /\ UNCHANGED <<baseline, rebuild, marker, pc, seen, forgotten>>
      /\ pc[t] = "summaries" /\ Apply(intent)
      /\ mem' = [mem EXCEPT ![t] = [@ EXCEPT !["summaries"] = mem[t].summaries \ intent.sums]]
  BY DEF SummaryPublished, Remember, others, ghosts
<1>2. /\ LeavesOthers(t) /\ marker = t
      /\ mem'[t] = [mem[t] EXCEPT !["summaries"] = mem[t].summaries \ intent.sums]
      /\ \A u \in Tasks : u # t => marker # u /\ pc[u] \in {"off", "checked", "ready"}
  BY <1>1, WorksAlone, TaskTypes DEF LeavesOthers, Working
<1>3. /\ mem'[t].first = mem[t].first /\ mem'[t].last = mem[t].last /\ mem'[t].day = mem[t].day
      /\ mem'[t].pending = mem[t].pending /\ mem'[t].based = mem[t].based
      /\ mem'[t].receipts = mem[t].receipts /\ mem'[t].recovered = mem[t].recovered
      /\ mem'[t].summaries = mem[t].summaries \ intent.sums
  BY <1>2, TaskTypes DEF Memory
<1>4. /\ intent' = None /\ stale' \subseteq stale /\ due' = due \ intent.sums
      /\ None.due = {} /\ None.stales = {}
  BY <1>1 DEF Apply, RecordInvariant, PreparedInvariant, Prepared, None
<1>5. Notes(t)'
  BY <1>1, <1>3 DEF RecordInvariant, NotesInvariant, Notes, InWindow
<1>6. NotesInvariant'
  BY <1>1, <1>2, <1>5, NotesStand DEF RecordInvariant, NotesInvariant
<1>7. Prepared(t)'
  BY <1>1, <1>4 DEF Prepared
<1>8. PreparedInvariant'
  BY <1>1, <1>7, PreparedStands DEF Working
<1>9. DueInvariant'
  <2>1. ASSUME NEW d \in due', d \notin forgotten.days PROVE Awaited(d)'
    <3>1. d \in due /\ d \notin intent.sums
      BY <1>4, <2>1
    <3>2. d \in mem[t].summaries
      BY <1>2, <2>1, <3>1 DEF RecordInvariant, DueInvariant, Awaited
    <3> QED
      BY <1>1, <1>3, <3>1, <3>2 DEF Awaited
  <2> QED
    BY <1>1, <1>4, <2>1 DEF DueInvariant
<1>10. Kept => Kept'
  BY <1>1, <1>2, <1>3, KeptStands DEF Kept, LeavesOthers, Connected, Working
<1>11. ASSUME NEW u \in Tasks, marker = u PROVE Known(u) \subseteq Known(u)'
  BY <1>1, <1>2, <1>3, <1>11 DEF Known, InWindow
<1>12. StaleInvariant'
  BY <1>1, <1>4, <1>10, <1>11, StaleStands DEF RecordInvariant
<1>13. TodoInvariant'
  <2>1. Todo(t)'
    BY <1>1, <1>3, <1>4 DEF RecordInvariant, TodoInvariant, Todo, Opens
  <2>2. ASSUME NEW u \in Tasks, u # t PROVE Todo(u)'
    BY <1>1, <1>2, <2>2 DEF Todo
  <2> QED
    BY <2>1, <2>2 DEF TodoInvariant
<1> QED
  BY <1>6, <1>8, <1>9, <1>12, <1>13 DEF RecordInvariant

LEMMA FinishRecord ==
    ASSUME SharedInvariant, SharedInvariant', DataInvariant, RecordInvariant,
           NEW t \in Tasks, Finish(t)
    PROVE  RecordInvariant'
<1>1. /\ UNCHANGED <<stale, due, baseline, rebuild, intent, seen, forgotten>>
      /\ pc[t] = "summaries" /\ ~intent.made /\ mem[t].summaries = {} /\ End(t)
      /\ marker' = IF mem[t].based \/ Window[t] # <<mem[t].first, mem[t].last>>
                   THEN marker ELSE "none"
  BY DEF Finish, pool, others, ghosts
<1>2. (mem[t].receipts \cup mem[t].recovered) \ seen[t] = {}
  BY <1>1 DEF RecordInvariant, NotesInvariant, Notes
<1>3. CASE ~Opens(t)
  <2>1. marker' = marker
    BY <1>1, <1>3, TaskTypes DEF Opens
  <2>2. Dependents((mem[t].receipts \cup mem[t].recovered) \ seen[t]) = {}
    BY <1>2 DEF Dependents
  <2> QED
    BY <1>1, <2>1, <2>2, EndRecord
<1>4. CASE Opens(t)
  <2>1. /\ marker' = "none" /\ "none" \notin Tasks
        /\ intent = None /\ None.stales = {} /\ None.due = {} /\ ~None.made /\ None.fixes = {}
    BY <1>1, <1>4, ConstantsAssumption DEF Opens, DataInvariant, IntentInvariant, None
  <2>2. stale \subseteq forgotten.rows
    BY <1>1, <1>4 DEF RecordInvariant, TodoInvariant, Todo
  <2>3. /\ pc'[t] = "off" /\ mem'[t] = Blank /\ LeavesOthers(t)
        /\ \A u \in Tasks : u # t => pc[u] \in {"off", "checked", "ready"}
    BY <1>1, WorksAlone, TaskTypes
    DEF End, SharedInvariant, LockInvariant, LeavesOthers, Working
  <2>4. Notes(t)'
    BY <2>3, BlankIsEmpty DEF Notes
  <2>5. NotesInvariant'
    BY <1>1, <2>1, <2>3, <2>4, NotesStand DEF RecordInvariant, NotesInvariant
  <2>6. \A u \in Tasks : pc'[u] \in {"off", "checked", "ready"}
    BY <2>3 DEF LeavesOthers
  <2>7. PreparedInvariant' /\ TodoInvariant'
    BY <2>6 DEF PreparedInvariant, Prepared, TodoInvariant, Todo
  <2>8. DueInvariant'
    <3>1. \A d \in due : d \in forgotten.days
      BY <1>1, <2>3 DEF RecordInvariant, DueInvariant, Awaited
    <3> QED
      BY <1>1, <2>1, <3>1 DEF DueInvariant
  <2>9. StaleInvariant'
    BY <1>1, <2>1, <2>2 DEF StaleInvariant
  <2> QED
    BY <2>5, <2>7, <2>8, <2>9 DEF RecordInvariant
<1> QED
  BY <1>3, <1>4

LEMMA CrashRecord ==
    ASSUME SharedInvariant, SharedInvariant', DataInvariant, RecordInvariant,
           NEW t \in Tasks, Crash(t)
    PROVE  RecordInvariant'
<1>1. /\ UNCHANGED <<stale, due, baseline, rebuild, intent, marker, seen>> /\ End(t)
      /\ forgotten' =
             [rows |-> forgotten.rows
                       \cup (Dependents((mem[t].receipts \cup mem[t].recovered) \ seen[t]) \cap stale),
              days |-> forgotten.days \cup (mem[t].summaries \cap (due \cup intent.due))]
  BY DEF Crash, pool, others
<1> QED
  BY <1>1, EndRecord

-----------------------------------------------------------------------------
(* The steps of others: no process of the repair moves. *)

LEMMA OthersRecord ==
    ASSUME SharedInvariant, DataInvariant, RecordInvariant, UNCHANGED <<pc, mem, seen>>,
           rebuild' => baseline', baseline => baseline',
           forgotten.rows \subseteq forgotten'.rows, forgotten.days \subseteq forgotten'.days,
           due' \cup intent'.due \subseteq due \cup intent.due,
           stale' \subseteq stale \cup forgotten'.rows,
           intent' = intent \/ (intent'.stales = {} /\ \A t \in Tasks : pc[t] \notin Working),
           marker' = marker \/ (marker \notin Tasks /\ marker' \notin Tasks)
    PROVE  RecordInvariant'
<1>1. NotesInvariant'
  BY DEF RecordInvariant, NotesInvariant, Notes, InWindow
<1>2. PreparedInvariant'
  BY DEF RecordInvariant, PreparedInvariant, Prepared, Working
<1>3. DueInvariant'
  BY DueStands DEF RecordInvariant
<1>4. Kept => Kept'
  BY DEF Kept
<1>5. \A t \in Tasks : Known(t) \subseteq Known(t)'
  BY DEF Known, InWindow
<1>6. StaleInvariant'
  <2>1. CASE marker' = marker
    BY <1>4, <1>5, <2>1, StaleStands DEF RecordInvariant
  <2>2. CASE marker \notin Tasks /\ marker' \notin Tasks
    BY <2>2 DEF RecordInvariant, StaleInvariant
  <2> QED
    BY <2>1, <2>2
<1>7. TodoInvariant'
  BY TodoStands DEF RecordInvariant, Working
<1> QED
  BY <1>1, <1>2, <1>3, <1>6, <1>7 DEF RecordInvariant

LEMMA UpdateInterruptedRecord ==
    ASSUME SharedInvariant, DataInvariant, RecordInvariant, NEW r \in Rows, UpdateInterrupted(r)
    PROVE  RecordInvariant'
<1> DEFINE I == [An EXCEPT !.fixes = {r}, !.sums = {r[2]}]
<1>1. /\ UNCHANGED <<stale, due, baseline, rebuild, marker, pc, mem, seen, forgotten>>
      /\ lock = "nobody" /\ intent' = I
  BY DEF UpdateInterrupted, pool, others, Free
<1>2. I.stales = {} /\ I.due = {}
  BY DEF An, None
<1>3. \A t \in Tasks : pc[t] \notin Working
  BY <1>1, Holder DEF Working
<1> HIDE DEF I
<1> QED
  BY <1>1, <1>2, <1>3, OthersRecord DEF RecordInvariant, NotesInvariant

LEMMA RecoverRecord ==
    ASSUME SharedInvariant, DataInvariant, RecordInvariant, Recover
    PROVE  RecordInvariant'
<1>1. /\ UNCHANGED <<baseline, rebuild, marker, pc, mem, seen, forgotten>>
      /\ lock = "nobody" /\ marker = "none" /\ Apply(intent)
  BY DEF Recover, others, ghosts, Free
<1>2. marker \notin Tasks
  BY <1>1, ConstantsAssumption
<1>3. /\ intent'.stales = {} /\ intent'.due = {}
      /\ stale' \subseteq stale \cup intent.stales /\ due' \subseteq due \cup intent.due
  BY <1>1 DEF Apply, None
<1>4. intent.stales \subseteq forgotten.rows
  BY <1>2 DEF RecordInvariant, StaleInvariant
<1>5. \A t \in Tasks : pc[t] \notin Working
  BY <1>1, Holder DEF Working
<1>6. stale' \subseteq stale \cup forgotten'.rows
  BY <1>1, <1>3, <1>4
<1>7. due' \cup intent'.due \subseteq due \cup intent.due
  BY <1>3
<1>8. (rebuild' => baseline') /\ forgotten' = forgotten
  BY <1>1 DEF RecordInvariant, NotesInvariant
<1> QED
  BY <1>1, <1>3, <1>5, <1>6, <1>7, <1>8, OthersRecord

LEMMA RebuildFactorsRecord ==
    ASSUME SharedInvariant, DataInvariant, RecordInvariant,
           NEW some \in SUBSET Symbols, RebuildFactors(some)
    PROVE  RecordInvariant'
<1>1. /\ UNCHANGED <<due, baseline, intent, marker, pc, mem, seen>>
      /\ rebuild /\ ~rebuild' /\ lock = "nobody"
      /\ \/ UNCHANGED <<stale, forgotten>>
         \/ /\ stale' = stale \cup (some \X Days)
            /\ forgotten' = IF marker \in Tasks THEN forgotten
                            ELSE [forgotten EXCEPT !.rows = @ \cup (some \X Days)]
  BY DEF RebuildFactors, gates, Free
<1>2. CASE UNCHANGED <<stale, forgotten>>
  BY <1>1, <1>2, OthersRecord
<1>3. CASE stale' = stale \cup (some \X Days) /\ marker \notin Tasks
  <2>1. /\ forgotten' = [forgotten EXCEPT !.rows = @ \cup (some \X Days)]
           \/ UNCHANGED <<stale, forgotten>>
    BY <1>1, <1>3
  <2>2. /\ forgotten.rows \subseteq forgotten'.rows /\ forgotten.days \subseteq forgotten'.days
        /\ stale' \subseteq stale \cup forgotten'.rows
    BY <1>3, <2>1 DEF DataInvariant, PoolInvariant
  <2> QED
    BY <1>1, <2>2, OthersRecord
<1>4. CASE marker \in Tasks
  <2>1. forgotten' = forgotten
    BY <1>1, <1>4
  <2>2. \A t \in Tasks : pc[t] \notin Working
    BY <1>1, Holder DEF Working
  <2>3. Kept'
    BY <1>1, <1>4, <2>2 DEF Kept, Connected, RecordInvariant, NotesInvariant
  <2>4. StaleInvariant'
    BY <1>1, <1>4, <2>3 DEF StaleInvariant
  <2>5. NotesInvariant' /\ PreparedInvariant' /\ DueInvariant'
    <3>1. NotesInvariant'
      BY <1>1 DEF RecordInvariant, NotesInvariant, Notes, InWindow
    <3>2. PreparedInvariant'
      BY <1>1 DEF RecordInvariant, PreparedInvariant, Prepared
    <3>3. DueInvariant'
      BY <1>1, <2>1, DueStands DEF RecordInvariant
    <3> QED
      BY <3>1, <3>2, <3>3
  <2>6. TodoInvariant'
    BY <1>1, <2>2 DEF TodoInvariant, Todo, Working
  <2> QED
    BY <2>4, <2>5, <2>6 DEF RecordInvariant
<1> QED
  BY <1>1, <1>2, <1>3, <1>4

LEMMA MigrationRecord ==
    ASSUME SharedInvariant, DataInvariant, RecordInvariant, MigrationNext
    PROVE  RecordInvariant'
<1>1. UNCHANGED repairVars
  BY DEF MigrationNext, MoverProgress, Drift, PrepareRecovery, Begin, BeginRestore, Move,
         Restore, EndMove, EndRestore, MoverCrash
<1>2. marker' = marker \/ (marker \notin Tasks /\ marker' \notin Tasks)
  <2>1. "none" \notin Tasks /\ "migration" \notin Tasks
    BY ConstantsAssumption
  <2>2. CASE Begin \/ BeginRestore
    BY <2>1, <2>2 DEF Begin, BeginRestore, Published
  <2>3. CASE EndMove \/ EndRestore
    BY <2>1, <2>3 DEF EndMove, EndRestore, SharedInvariant, LockInvariant
  <2>4. ASSUME NEW f \in CoreFiles, Drift(f) \/ Move(f) \/ Restore(f) PROVE marker' = marker
    BY <2>4 DEF Drift, Move, Restore
  <2>5. CASE PrepareRecovery \/ MoverCrash
    BY <2>5 DEF PrepareRecovery, MoverCrash
  <2> QED
    BY <2>2, <2>3, <2>4, <2>5 DEF MigrationNext, MoverProgress
<1> QED
  BY <1>1, <1>2, OthersRecord DEF repairVars, RecordInvariant, NotesInvariant

LEMMA RepairRecord ==
    ASSUME SharedInvariant, SharedInvariant', DataInvariant, RecordInvariant, Next
    PROVE  RecordInvariant'
<1>1. ASSUME NEW t \in Tasks, \E batch \in Days \X Days : Check(t, batch) PROVE RecordInvariant'
  BY <1>1, CheckRecord
<1>2. ASSUME NEW t \in Tasks, Progress(t) PROVE RecordInvariant'
  BY <1>2, RollForwardRecord, LockRecord, WriteMarkerRecord, ConnectRecord, RepairDayRecord,
     DayPublishedRecord, NotesRecord, NextDayRecord, RepairDependentsRecord,
     DependentsPublishedRecord, RepairSummaryRecord, SummaryPublishedRecord, FinishRecord
  DEF Progress
<1>3. ASSUME InstallBaseline \/ CheckPaused PROVE RecordInvariant'
  <2>1. /\ UNCHANGED <<stale, due, intent, marker, pc, mem, seen, forgotten>>
        /\ (rebuild' => baseline') /\ (baseline => baseline')
    BY <1>3 DEF InstallBaseline, CheckPaused, pool, gates, ghosts
  <2> QED
    BY <2>1, OthersRecord
<1>4. ASSUME NEW some \in SUBSET Symbols, RebuildFactors(some) PROVE RecordInvariant'
  BY <1>4, RebuildFactorsRecord
<1> QED
  BY <1>1, <1>2, <1>3, <1>4, StopRecord, CrashRecord, UpdateInterruptedRecord, RecoverRecord
  DEF Next

LEMMA StutterRecord ==
    ASSUME SharedInvariant, DataInvariant, RecordInvariant, UNCHANGED vars
    PROVE  RecordInvariant'
  BY OthersRecord DEF vars, RecordInvariant, NotesInvariant

(* What is stale is known to somebody, in every phase of every run, from the intent over  *)
(* the receipts of a process to the staging database of its task, or is not for lack of a *)
(* record that died.                                                                      *)
THEOREM RecordsAreKept == MaintenanceSpec => []RecordInvariant
<1>1. SharedInvariant /\ SharedInvariant' /\ DataInvariant /\ RecordInvariant
          /\ [MaintenanceNext]_allVars => RecordInvariant'
  BY RepairRecord, MigrationRecord, StutterRecord DEF MaintenanceNext, allVars
<1> QED
  BY <1>1, DataHolds, InitRecord, SharedInvariantHolds, PTL DEF MaintenanceSpec

(* Whenever the pool opens, readers find features that follow from the prices and        *)
(* summaries that follow from the features, but for what a process or an overwritten     *)
(* marker took with it (run() of qfq_audit_repair.py).                                   *)
THEOREM OpenedPoolsAreFinished == MaintenanceSpec => []OpenPoolIsFinished
<1>1. SharedInvariant /\ RecordInvariant => OpenPoolIsFinished
  <2> SUFFICES ASSUME SharedInvariant, RecordInvariant, marker = "none"
               PROVE  stale \subseteq forgotten.rows /\ due \subseteq forgotten.days
    BY DEF OpenPoolIsFinished
  <2>1. marker \notin Tasks
    BY ConstantsAssumption
  <2>2. \A t \in Tasks : pc[t] \notin {"dependents", "summaries"}
    BY <2>1, Holder DEF Working
  <2>3. stale \subseteq forgotten.rows
    BY <2>1 DEF RecordInvariant, StaleInvariant
  <2>4. due \subseteq forgotten.days
    BY <2>2 DEF RecordInvariant, DueInvariant, Awaited
  <2> QED
    BY <2>3, <2>4
<1> QED
  BY <1>1, RecordsAreKept, SharedInvariantHolds, PTL

-----------------------------------------------------------------------------
(* What the documentation promises holds for one task as long as nobody is killed. *)

OneTask == \A t, u \in Tasks : t = u

ForgottenInvariant ==
    OneTask /\ crashes = 0 /\ ~baseline => forgotten.rows = {} /\ forgotten.days = {}

LEMMA ForgottenStep ==
    ASSUME SharedInvariant, DataInvariant, RecordInvariant, ForgottenInvariant,
           [MaintenanceNext]_allVars
    PROVE  ForgottenInvariant'
<1> SUFFICES ASSUME OneTask, crashes' = 0, ~baseline'
             PROVE  forgotten'.rows = {} /\ forgotten'.days = {}
  BY DEF ForgottenInvariant
<1>1. crashes \in Nat
  BY ConstantsAssumption DEF DataInvariant, PoolInvariant
<1>2. crashes' \in {crashes, crashes + 1} /\ (baseline => baseline')
  <2> DEFINE Grows == crashes' \in {crashes, crashes + 1} /\ (baseline => baseline')
  <2>1. ASSUME NEW t \in Tasks, Progress(t) PROVE Grows
    <3>1. CASE RollForward(t) \/ Lock(t) \/ WriteMarker(t) \/ Connect(t)
      BY <3>1 DEF RollForward, Lock, WriteMarker, Connect, others, ghosts
    <3>2. CASE RepairDay(t) \/ DayPublished(t) \/ Record(t) \/ NextDay(t)
      BY <3>2 DEF RepairDay, DayPublished, Record, NextDay, others, ghosts
    <3>3. CASE \E s \in Symbols : RepairDependents(t, s)
      BY <3>3 DEF RepairDependents, others, ghosts
    <3>4. CASE DependentsPublished(t) \/ RepairSummary(t) \/ SummaryPublished(t) \/ Finish(t)
      BY <3>4 DEF DependentsPublished, RepairSummary, SummaryPublished, Finish, others, ghosts
    <3> QED
      BY <2>1, <3>1, <3>2, <3>3, <3>4 DEF Progress
  <2>2. ASSUME NEW t \in Tasks, Stop(t) \/ Crash(t) \/ \E batch \in Days \X Days : Check(t, batch)
        PROVE  Grows
    <3>1. CASE Stop(t)
      BY <3>1 DEF Stop, others, ghosts
    <3>2. CASE Crash(t)
      BY <3>2 DEF Crash, others
    <3>3. CASE \E batch \in Days \X Days : Check(t, batch)
      BY <3>3 DEF Check, others, ghosts
    <3> QED
      BY <2>2, <3>1, <3>2, <3>3
  <2>3. CASE (\E r \in Rows : UpdateInterrupted(r)) \/ Recover \/ InstallBaseline \/ CheckPaused
    <3>1. CASE \E r \in Rows : UpdateInterrupted(r)
      BY <3>1 DEF UpdateInterrupted, others
    <3>2. CASE Recover
      BY <3>2 DEF Recover, others, ghosts
    <3>3. CASE InstallBaseline
      BY <3>3 DEF InstallBaseline, ghosts
    <3>4. CASE CheckPaused
      BY <3>4 DEF CheckPaused, ghosts
    <3> QED
      BY <2>3, <3>1, <3>2, <3>3, <3>4
  <2>4. CASE \E some \in SUBSET Symbols : RebuildFactors(some)
    BY <2>4 DEF RebuildFactors
  <2>5. CASE MigrationNext
    BY <2>5 DEF MigrationNext, MoverProgress, Drift, PrepareRecovery, Begin, BeginRestore,
       Move, Restore, EndMove, EndRestore, MoverCrash, repairVars
  <2>6. CASE UNCHANGED allVars
    BY <2>6 DEF allVars, vars, others, ghosts
  <2> QED
    BY <2>1, <2>2, <2>3, <2>4, <2>5, <2>6 DEF MaintenanceNext, Next
<1>3. crashes' = crashes /\ ~baseline
  BY <1>1, <1>2
<1>4. forgotten.rows = {} /\ forgotten.days = {} /\ ~rebuild
  BY <1>1, <1>2, <1>3 DEF ForgottenInvariant, RecordInvariant, NotesInvariant
<1>5. ASSUME NEW t \in Tasks, RollForward(t) PROVE forgotten' = forgotten
  <2>1. marker \in {"none", "migration", t}
    BY DEF OneTask, SharedInvariant, LockInvariant
  <2> QED
    BY <1>5, <2>1 DEF RollForward
<1>6. ASSUME NEW t \in Tasks, WriteMarker(t) PROVE forgotten'.rows = {} /\ forgotten'.days = {}
  <2>1. CASE marker \in {"none", t}
    BY <1>4, <1>6, <2>1 DEF WriteMarker
  <2>2. CASE marker \notin {"none", t}
    <3>1. marker \notin Tasks
      BY <2>2 DEF OneTask
    <3>2. stale = {} /\ intent.stales = {}
      BY <1>4, <3>1 DEF RecordInvariant, StaleInvariant
    <3>3. \A u \in Tasks : pc[u] = "staged"
      BY <1>6 DEF OneTask, WriteMarker
    <3>4. due = {} /\ intent.due = {}
      BY <1>4, <3>3 DEF RecordInvariant, DueInvariant, Awaited
    <3> QED
      BY <1>4, <1>6, <2>2, <3>2, <3>4 DEF WriteMarker
  <2> QED
    BY <2>1, <2>2
<1>7. ASSUME NEW t \in Tasks, Crash(t) PROVE FALSE
  BY <1>1, <1>3, <1>7 DEF Crash
<1>8. ASSUME NEW some \in SUBSET Symbols, RebuildFactors(some) PROVE FALSE
  BY <1>4, <1>8 DEF RebuildFactors
<1>9. CASE \E t \in Tasks : RollForward(t) \/ WriteMarker(t)
  BY <1>4, <1>5, <1>6, <1>9
<1>10. CASE ~\E t \in Tasks : RollForward(t) \/ WriteMarker(t)
  <2>1. forgotten' = forgotten
    BY <1>7, <1>8, <1>10
    DEF MaintenanceNext, MigrationNext, MoverProgress, Drift, PrepareRecovery, Begin, BeginRestore,
       Move, Restore, EndMove, EndRestore, MoverCrash, repairVars, Next, Progress, Check,
       Lock, Connect, RepairDay, DayPublished, Record, NextDay, RepairDependents,
       DependentsPublished, RepairSummary, SummaryPublished, Finish, Stop, UpdateInterrupted,
       Recover, InstallBaseline, CheckPaused, ghosts, allVars, vars
  <2> QED
    BY <1>4, <2>1
<1> QED
  BY <1>9, <1>10

(* docs/ops/qfq_history_audit.md, as long as no process is killed and no task overlaps    *)
(* with another one: the pool opens only over features and summaries that follow, however *)
(* often the task was stopped between two days or run for a part of its window.           *)
THEOREM DependentsFollowUnlessKilled ==
    MaintenanceSpec => [](OneTask /\ crashes = 0 => DependentsFollow)
<1>1. MaintenanceInit => ForgottenInvariant
  BY DEF MaintenanceInit, Init, ForgottenInvariant
<1>2. MaintenanceSpec => []ForgottenInvariant
  BY <1>1, ForgottenStep, RecordsAreKept, DataHolds, SharedInvariantHolds, PTL DEF MaintenanceSpec
<1>3. OpenPoolIsFinished /\ ForgottenInvariant => (OneTask /\ crashes = 0 => DependentsFollow)
  BY DEF OpenPoolIsFinished, ForgottenInvariant, DependentsFollow
<1> QED
  BY <1>2, <1>3, OpenedPoolsAreFinished, PTL
=============================================================================
