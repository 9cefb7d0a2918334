--------------------------- MODULE HistoryRepair ---------------------------
(***************************************************************************)
(* The forward-adjusted history repair of src/aspool/qfq_audit_repair.py:  *)
(* a long maintenance of a layout-3 stock pool that publishes one day at a *)
(* time, keeps every ordinary reader and writer out by a durable marker,   *)
(* and is continued by running the same command again.                     *)
(*                                                                         *)
(* A price that the repair corrects leaves the features of its symbol from *)
(* that day on stale, and with them the market summaries of those days.    *)
(* Which prices were corrected is kept in the receipts of the process and, *)
(* one commit later, in the staging database of the task; which summaries  *)
(* are due is kept in the process alone.                                   *)
(*                                                                         *)
(* A publication is durable as an intent before it is visible (module      *)
(* Publication): here it is prepared in one step and visible in the next.  *)
(***************************************************************************)
EXTENDS Naturals, FiniteSetsExt

CONSTANTS
    Tasks,       \* maintenance tasks: a report directory and a window each
    Window,      \* the first and last day of each task
    Symbols,
    LastDay,     \* bound: market sessions
    MaxCrashes   \* bound: processes killed

ASSUME ConstantsAssumption ==
    /\ Tasks \cap {"none", "migration", "nobody"} = {}
    /\ LastDay \in Nat \ {0} /\ MaxCrashes \in Nat
    /\ Window \in [Tasks -> (1..LastDay) \X (1..LastDay)]

Days == 1..LastDay
Rows == Symbols \X Days

VARIABLES
    wrong,    \* rows whose price differs from what the source observed
    stale,    \* features that do not follow from the prices
    due,      \* days whose market summary does not follow from the features
    baseline, \* an event baseline is installed
    intent,   \* pending-publication.json
    marker,   \* pending-migration.json: whose maintenance keeps the pool closed
    lock,     \* who holds the pool lock
    layout,   \* of the pool: 2 or 3
    pc,       \* what the process of each task is doing
    mem,      \* ... and what it knows
    rebuild,  \* a process of baseline_factors.rebuild() is past its look at the marker
    seen,     \* price_changes, in the staging database of each task
    forgotten, \* features and days whose record died with a process or a marker
    crashes

pool == <<wrong, stale, due>>
gates == <<intent, marker, lock>>
others == <<baseline, rebuild>>
ghosts == <<forgotten, crashes>>
vars == <<wrong, stale, due, baseline, intent, marker, lock, layout, pc, mem, rebuild,
          seen, forgotten, crashes>>

(* An intent: the prices corrected, the features that follow no more and those that do
   again, the summaries computed and those that follow no more. *)
None == [made |-> FALSE, fixes |-> {}, stales |-> {}, fresh |-> {}, sums |-> {}, due |-> {}]
An == [None EXCEPT !.made = TRUE]
Blank == [first |-> 1, last |-> 1, day |-> 1, pending |-> FALSE, based |-> FALSE,
          recovered |-> {}, receipts |-> {}, todo |-> {}, summaries |-> {}]

(* The features that a price is an input of: its own day's and the following ones'. *)
Dependents(rows) == {r \in Rows : \E q \in rows : q[1] = r[1] /\ q[2] <= r[2]}

Working == {"gated", "day", "record", "next", "dependents", "summaries"}

TypeOK ==
    /\ wrong \subseteq Rows /\ stale \subseteq Rows /\ due \subseteq Days
    /\ baseline \in BOOLEAN /\ rebuild \in BOOLEAN /\ layout \in {2, 3} /\ crashes \in 0..MaxCrashes
    /\ intent \in [made : BOOLEAN, fixes : SUBSET Rows, stales : SUBSET Rows,
                  fresh : SUBSET Rows, sums : SUBSET Days, due : SUBSET Days]
    /\ intent.made \/ intent = None
    /\ marker \in Tasks \cup {"none", "migration"}
    /\ lock \in Tasks \cup {"nobody", "migration"}
    /\ pc \in [Tasks -> {"off", "checked", "ready", "staged"} \cup Working]
    /\ \A t \in Tasks :
          /\ DOMAIN mem[t] = DOMAIN Blank
          /\ mem[t].recovered \cup mem[t].receipts \subseteq Rows
          /\ mem[t].todo \subseteq Symbols /\ mem[t].summaries \subseteq Days
          /\ mem[t].day \in Days
          /\ pc[t] = "off" => mem[t] = Blank
          /\ pc[t] \in Working => lock = t
    /\ seen \in [Tasks -> SUBSET Rows]
    /\ forgotten.rows \subseteq Rows /\ forgotten.days \subseteq Days

Init ==
    /\ wrong \in SUBSET Rows
    /\ stale = {} /\ due = {}
    /\ baseline = FALSE /\ rebuild = FALSE
    /\ intent = None /\ marker = "none" /\ lock = "nobody"
    /\ layout \in {2, 3}
    /\ pc = [t \in Tasks |-> "off"]
    /\ mem = [t \in Tasks |-> Blank]
    /\ seen = [t \in Tasks |-> {}]
    /\ forgotten = [rows |-> {}, days |-> {}]
    /\ crashes = 0

-----------------------------------------------------------------------------
(* Publications. *)

(* What is prepared becomes visible. *)
Apply(i) ==
    /\ intent' = None
    /\ wrong' = wrong \ i.fixes
    /\ stale' = (stale \ i.fresh) \cup i.stales
    /\ due' = (due \ i.sums) \cup i.due

(* assert_published(): for everybody but the repair, the marker is a closed gate. *)
Published == intent = None /\ marker = "none"

(* Processes that hold or take the pool lock, which is released when they die. *)
Free == lock = "nobody"

(* The process of a task ends; its memory goes with it. *)
End(t) ==
    /\ pc' = [pc EXCEPT ![t] = "off"]
    /\ mem' = [mem EXCEPT ![t] = Blank]
    /\ lock' = IF lock = t THEN "nobody" ELSE lock

Remember(t, field, value) == [mem EXCEPT ![t] = [@ EXCEPT ![field] = value]]

-----------------------------------------------------------------------------
(* run(): before the pool lock. *)

(* The whole window of the task, or a batch inside it; the marker of other
   maintenance is refused. *)
Check(t, batch) ==
    /\ pc[t] = "off"
    /\ Window[t][1] <= batch[1] /\ batch[1] <= batch[2] /\ batch[2] <= Window[t][2]
    /\ marker \in {"none", t}
    /\ pc' = [pc EXCEPT ![t] = "checked"]
    /\ mem' = [mem EXCEPT ![t] = [Blank EXCEPT !.first = batch[1], !.last = batch[2],
                                               !.day = batch[1], !.pending = marker = t]]
    /\ UNCHANGED <<pool, others, gates, layout, seen, ghosts>>

(* A publication that was interrupted is rolled forward, whoever prepared it; the
   prices in it are noted.  ensure_qfq_schema() wants no other. *)
RollForward(t) ==
    /\ pc[t] = "checked"
    /\ Free
    /\ IF ~intent.made
       THEN /\ pc' = [pc EXCEPT ![t] = "ready"]
            /\ UNCHANGED <<pool, intent, lock, mem, forgotten>>
       ELSE IF marker = "migration"
       THEN End(t) /\ UNCHANGED <<pool, intent, forgotten>>
       ELSE /\ Apply(intent)
            /\ pc' = [pc EXCEPT ![t] = "ready"]
            /\ mem' = Remember(t, "recovered", intent.fixes)
            /\ forgotten' = IF marker \in {"none", t} THEN forgotten
                            ELSE [forgotten EXCEPT !.rows = @ \cup intent.stales]
            /\ UNCHANGED lock
    /\ UNCHANGED <<others, marker, layout, seen, crashes>>

-----------------------------------------------------------------------------
(* run(): under the pool lock. *)

Lock(t) ==
    /\ pc[t] = "ready"
    /\ Free
    /\ lock' = t
    /\ pc' = [pc EXCEPT ![t] = "staged"]
    /\ seen' = [seen EXCEPT ![t] = @ \cup mem[t].recovered]
    /\ mem' = Remember(t, "recovered", {})
    /\ UNCHANGED <<pool, others, intent, marker, layout, ghosts>>

(* The marker is written, whatever it was. *)
WriteMarker(t) ==
    /\ pc[t] = "staged"
    /\ marker' = t
    /\ forgotten' = IF marker \in {"none", t} THEN forgotten
                    ELSE [rows |-> forgotten.rows \cup stale \cup intent.stales,
                          days |-> forgotten.days \cup due \cup intent.due]
    /\ pc' = [pc EXCEPT ![t] = "gated"]
    /\ UNCHANGED <<pool, others, intent, lock, layout, mem, seen, crashes>>

(* stock_connection(): of layout 3 only, and with no publication pending.  A run that
   cannot connect ends here, and leaves its marker. *)
Connect(t) ==
    /\ pc[t] = "gated"
    /\ IF layout = 3 /\ ~intent.made
       THEN /\ pc' = [pc EXCEPT ![t] = "day"]
            /\ mem' = Remember(t, "based", baseline)
            /\ UNCHANGED lock
       ELSE End(t)
    /\ UNCHANGED <<pool, others, intent, marker, layout, seen, ghosts>>

(* repair_day(): every price of the day that differs is corrected, and the summary
   computed from the features as they are. *)
RepairDay(t) ==
    /\ pc[t] = "day"
    /\ mem[t].day <= mem[t].last
    /\ ~intent.made
    /\ LET fixes == {r \in wrong : r[2] = mem[t].day}
       IN  IF fixes = {}
           THEN /\ pc' = [pc EXCEPT ![t] = "next"]
                /\ UNCHANGED intent
           ELSE /\ intent' = [An EXCEPT !.fixes = fixes, !.stales = Dependents(fixes),
                                        !.sums = {mem[t].day}]
                /\ UNCHANGED pc
    /\ UNCHANGED <<pool, others, marker, lock, layout, mem, seen, ghosts>>

DayPublished(t) ==
    /\ pc[t] = "day"
    /\ intent.made
    /\ Apply(intent)
    /\ mem' = Remember(t, "receipts", mem[t].receipts \cup intent.fixes)
    /\ pc' = [pc EXCEPT ![t] = "record"]
    /\ UNCHANGED <<others, marker, lock, layout, seen, ghosts>>

(* stage.commit(). *)
Record(t) ==
    /\ pc[t] = "record"
    /\ seen' = [seen EXCEPT ![t] = @ \cup {r \in mem[t].receipts : r[2] = mem[t].day}]
    /\ pc' = [pc EXCEPT ![t] = "next"]
    /\ UNCHANGED <<pool, others, gates, layout, mem, ghosts>>

(* Fault: the corrections of interrupted runs are not looked up. *)
ReceiptsOnly(t, s) == {r[2] : r \in {q \in mem[t].receipts : q[1] = s}}

(* The days on which a price of the symbol was corrected, as far as the run knows. *)
Corrected(t, s) ==
    LET days(rows) == {r[2] : r \in {q \in rows : q[1] = s}}
        earlier == {d \in days(seen[t]) : d < mem[t].first}
        partial == Window[t] # <<mem[t].first, mem[t].last>>
    IN  days(mem[t].receipts)
        \cup (IF mem[t].pending
              THEN (days(seen[t]) \cap mem[t].first..mem[t].last)
                   \cup (IF partial /\ earlier # {} THEN {Max(earlier)} ELSE {})
              ELSE {})

(* Fault: one day too many. *)
NextDayTooFar(t) ==
    /\ pc[t] = "next"
    /\ IF mem[t].day <= mem[t].last
       THEN pc' = [pc EXCEPT ![t] = "day"] /\ mem' = Remember(t, "day", mem[t].day + 1)
       ELSE pc' = [pc EXCEPT ![t] = "dependents"] /\ UNCHANGED mem
    /\ UNCHANGED <<pool, others, gates, layout, seen, ghosts>>

(* The next day, or, after the last, the symbols whose features have to follow. *)
NextDay(t) ==
    /\ pc[t] = "next"
    /\ IF mem[t].day < mem[t].last
       THEN /\ pc' = [pc EXCEPT ![t] = "day"]
            /\ mem' = Remember(t, "day", mem[t].day + 1)
       ELSE /\ pc' = [pc EXCEPT ![t] = "dependents"]
            /\ mem' = Remember(t, "todo", {s \in Symbols : Corrected(t, s) # {}})
    /\ UNCHANGED <<pool, others, gates, layout, seen, ghosts>>

(* stop_requested(): InterruptedError. *)
Stop(t) ==
    /\ pc[t] = "next"
    /\ End(t)
    /\ UNCHANGED <<pool, others, intent, marker, layout, seen, ghosts>>

(* repair_price_dependents(). *)
RepairDependents(t, s) ==
    /\ pc[t] = "dependents"
    /\ ~intent.made
    /\ s \in mem[t].todo
    /\ LET fresh == {r \in stale : r[1] = s /\ Min(Corrected(t, s)) <= r[2]}
           days == {r[2] : r \in fresh}
           known == mem[t].summaries \cup days \cup Corrected(t, s)
       IN  /\ mem' = [mem EXCEPT ![t] = [@ EXCEPT !.todo = mem[t].todo \ {s},
                                                  !.summaries = known]]
           /\ IF fresh = {} THEN UNCHANGED intent
              ELSE intent' = [An EXCEPT !.fresh = fresh, !.due = days]
    /\ UNCHANGED <<pool, others, marker, lock, layout, pc, seen, ghosts>>

DependentsPublished(t) ==
    /\ pc[t] = "dependents"
    /\ IF intent.made
       THEN Apply(intent) /\ UNCHANGED pc
       ELSE /\ mem[t].todo = {}
            /\ pc' = [pc EXCEPT ![t] = "summaries"]
            /\ UNCHANGED <<pool, intent>>
    /\ UNCHANGED <<others, marker, lock, layout, mem, seen, ghosts>>

(* publish_dependents(), the earliest day first. *)
RepairSummary(t) ==
    /\ pc[t] = "summaries"
    /\ ~intent.made
    /\ mem[t].summaries # {}
    /\ intent' = [An EXCEPT !.sums = {Min(mem[t].summaries)}]
    /\ UNCHANGED <<pool, others, marker, lock, layout, pc, mem, seen, ghosts>>

SummaryPublished(t) ==
    /\ pc[t] = "summaries"
    /\ intent.made
    /\ Apply(intent)
    /\ mem' = Remember(t, "summaries", mem[t].summaries \ intent.sums)
    /\ UNCHANGED <<others, marker, lock, layout, pc, seen, ghosts>>

(* The marker goes, unless this was a batch or factors await their features. *)
Finish(t) ==
    /\ pc[t] = "summaries"
    /\ ~intent.made
    /\ mem[t].summaries = {}
    /\ marker' = IF mem[t].based \/ Window[t] # <<mem[t].first, mem[t].last>>
                 THEN marker ELSE "none"
    /\ End(t)
    /\ UNCHANGED <<pool, others, intent, layout, seen, ghosts>>

-----------------------------------------------------------------------------
(* The process of a task is killed.  What only it knew is forgotten: prices corrected
   and not yet noted in the stage, and summaries it would have computed for features it
   had recomputed, or the recovery will. *)
Crash(t) ==
    /\ pc[t] # "off"
    /\ crashes < MaxCrashes
    /\ crashes' = crashes + 1
    /\ LET known == mem[t].receipts \cup mem[t].recovered
           unnoted == known \ seen[t]
       IN  forgotten' = [rows |-> forgotten.rows \cup (Dependents(unnoted) \cap stale),
                         days |-> forgotten.days \cup (mem[t].summaries \cap (due \cup intent.due))]
    /\ End(t)
    /\ UNCHANGED <<pool, others, intent, marker, layout, seen>>

(* An ordinary canonical writer: it leaves features and summaries as the prices want
   them.  Only one that dies with its publication prepared leaves a trace here. *)
UpdateInterrupted(r) ==
    /\ Published /\ Free
    /\ layout = 3
    /\ crashes < MaxCrashes
    /\ crashes' = crashes + 1
    /\ intent' = [An EXCEPT !.fixes = {r}, !.sums = {r[2]}]
    /\ UNCHANGED <<pool, others, marker, lock, layout, pc, mem, seen, forgotten>>

(* The recovery command, which maintenance refuses. *)
Recover ==
    /\ intent.made
    /\ marker = "none" /\ Free
    /\ Apply(intent)
    /\ UNCHANGED <<others, marker, lock, layout, pc, mem, seen, ghosts>>

(* event_baseline.install(): outside every lock and gate. *)
InstallBaseline ==
    /\ ~baseline
    /\ baseline' = TRUE
    /\ UNCHANGED <<pool, gates, layout, pc, mem, rebuild, seen, ghosts>>

(* baseline_factors.rebuild(): only inside a paused repair, which is looked at before
   the pool lock is asked for. *)
CheckPaused ==
    /\ ~rebuild /\ baseline
    /\ marker \in Tasks /\ ~intent.made
    /\ rebuild' = TRUE
    /\ UNCHANGED <<pool, baseline, gates, layout, pc, mem, seen, ghosts>>

(* The factors of some symbols are replaced, by when it fails of not all; nothing notes
   the features that depend on them, but the baseline itself. *)
RebuildFactors(some) ==
    /\ rebuild
    /\ Free
    /\ rebuild' = FALSE
    /\ IF layout = 3 /\ ~intent.made
       THEN /\ stale' = stale \cup (some \X Days)
            /\ forgotten' = IF marker \in Tasks THEN forgotten
                            ELSE [forgotten EXCEPT !.rows = @ \cup (some \X Days)]
       ELSE UNCHANGED <<stale, forgotten>>
    /\ UNCHANGED <<wrong, due, baseline, gates, layout, pc, mem, seen, crashes>>

-----------------------------------------------------------------------------
Progress(t) ==
    \/ RollForward(t) \/ Lock(t)
    \/ WriteMarker(t) \/ Connect(t)
    \/ RepairDay(t) \/ DayPublished(t) \/ Record(t) \/ NextDay(t)
    \/ \E s \in Symbols : RepairDependents(t, s)
    \/ DependentsPublished(t)
    \/ RepairSummary(t) \/ SummaryPublished(t)
    \/ Finish(t)

Next ==
    \/ \E t \in Tasks :
          \/ \E batch \in Days \X Days : Check(t, batch)
          \/ Progress(t)
          \/ Stop(t)
          \/ Crash(t)
    \/ \E r \in Rows : UpdateInterrupted(r)
    \/ Recover
    \/ InstallBaseline
    \/ CheckPaused
    \/ \E some \in SUBSET Symbols : RebuildFactors(some)

Spec == Init /\ [][Next]_vars

-----------------------------------------------------------------------------
(* Readers find features that follow from the prices, and summaries that follow from  *)
(* the features, whatever was interrupted and continued, unless the record of what    *)
(* had to follow died with a process or with an overwritten marker.  The dependents   *)
(* of a correction are recomputed by the run that removes the marker: it must know    *)
(* the corrections of every run before it (qfq_audit_repair.py, run()).               *)
OpenPoolIsFinished ==
    marker = "none" /\ ~intent.made =>
        stale \subseteq forgotten.rows /\ due \subseteq forgotten.days

(* docs/ops/qfq_history_audit.md: "when raw prices are corrected, the existing MA20,   *)
(* volume ratio, streaks, market and board summaries are updated by their              *)
(* dependencies" (line 65), and after an interruption "the same window, report         *)
(* directory and recovery point can continue" (line 45); with no new factors.          *)
DependentsFollow ==
    marker = "none" /\ ~intent.made /\ ~baseline => stale = {} /\ due = {}
=============================================================================
