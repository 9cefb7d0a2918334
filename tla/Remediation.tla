---------------------------- MODULE Remediation ----------------------------
(***************************************************************************)
(* src/aspool/remediation.py beside the ordinary computations: a plan of   *)
(* days is fixed once and carried out a few days at a time.  How far it is *)
(* is kept twice, in the catalog (the authority) and in a file outside of  *)
(* the pool, and neither is written together with a day's publication.     *)
(***************************************************************************)
EXTENDS LimitEvents

CONSTANTS
    Ranges,  \* bound: the first and the last day that a plan may be asked for
    Chunks   \* bound: the numbers of days that an execution may be asked for

ASSUME PlansAssumption == Ranges \subseteq Days \X Days /\ Chunks \subseteq Nat \ {0}

VARIABLES
    order,    \* the plan: its days, the source it was made of and the state before it
    ledger, previous,   \* remediation_runs: the checkpoint, and the one before it
    file,     \* the external checkpoint
    touched,  \* completed days that somebody has marked or published since
    worker    \* the execution: its next step, the days it is left, the state it carries

remediationVars == <<order, ledger, previous, file, touched, worker>>
allVars == <<vars, remediationVars>>

(* A checkpoint, written or not: the number of completed days, the day that is being
   published, or 0, and whether the days have been marked. *)
Absent == [saved |-> FALSE, next |-> 0, pending |-> 0, initialized |-> FALSE]
Blank == [Absent EXCEPT !.saved = TRUE]

NoOrder == [days |-> {}, source |-> <<>>, prior |-> NoState]
Off == [phase |-> "off", left |-> 0, carried |-> NoState]

(* The days of the plan are completed in their order. *)
Completed(checkpoint) ==
    {d \in order.days : Cardinality({e \in order.days : e < d}) < checkpoint.next}
NextDay(checkpoint) == Min(order.days \ Completed(checkpoint))

RemediationTypeOK ==
    /\ TypeOK
    /\ order.days \subseteq Days
    /\ {ledger, previous, file} \subseteq
           [saved : BOOLEAN, next : 0..LastDay, pending : 0..LastDay, initialized : BOOLEAN]
    /\ ledger.next <= Cardinality(order.days)
    /\ ledger.pending # 0 => ledger.pending = NextDay(ledger)
    /\ touched \subseteq Completed(ledger)
    /\ worker.phase \in {"off", "save", "mark", "marked", "load", "day", "publish", "published"}
    /\ worker.phase = "off" <=> worker = Off
    /\ worker # Off => pc = "idle" /\ replaced = 0

RemediationInit ==
    /\ Init
    /\ order = NoOrder
    /\ ledger = Absent /\ previous = Absent /\ file = Absent
    /\ touched = {}
    /\ worker = Off

-----------------------------------------------------------------------------
(* inputs() *)
Source == <<bars, facts, calendar, market>>

(* plan(): all sessions from a day on, up to the last one published. *)
Order(from, to) ==
    LET axis == {d \in Sessions : d <= Max({to} \cup market)}
        days == axis \cap from..Max({to} \cup Published)
    IN  /\ pc = "idle" /\ worker = Off
        /\ order = NoOrder
        /\ from <= to
        /\ days # {}
        /\ order' = [days |-> days, source |-> Source, prior |-> Previous(Min(days))]
    /\ UNCHANGED <<vars, ledger, previous, file, touched, worker>>

Goto(phase) == worker' = [worker EXCEPT !.phase = phase]

(* Fault: the hash of the checkpoint before is read after it is replaced. *)
WriteLedgerFirst(checkpoint) ==
    /\ ledger' = checkpoint
    /\ previous' = checkpoint
    /\ UNCHANGED file

(* checkpoint(): first the catalog ... *)
WriteLedger(checkpoint) ==
    /\ ledger' = checkpoint
    /\ previous' = ledger
    /\ UNCHANGED file

(* ... and then the file. *)
Save ==
    /\ worker.phase = "save"
    /\ file' = ledger
    /\ Goto(CASE ~ledger.initialized -> "mark"
              [] ledger.pending # 0 -> "publish"
              [] OTHER -> IF ledger.next = 0 THEN "load" ELSE "day")
    /\ UNCHANGED <<vars, order, ledger, previous, touched>>

(* What execute() compares of the plan and of the two checkpoints. *)
Accepted ==
    /\ order # NoOrder
    /\ Source = order.source
    /\ Previous(Min(order.days)) = order.prior
    /\ file.saved => ledger.saved /\ file \in {ledger, previous}

(* execute(): the file follows the catalog; then completed days must be as they were. *)
Execute(n) ==
    /\ Readable /\ worker = Off
    /\ Accepted
    /\ IF ledger.saved
       THEN /\ file' = ledger
            /\ worker' = IF touched # {} \/ Completed(ledger) = order.days THEN Off
                         ELSE [Off EXCEPT !.phase = IF ledger.initialized THEN "load" ELSE "mark",
                                          !.left = n]
            /\ UNCHANGED <<ledger, previous>>
       ELSE /\ WriteLedger(Blank)
            /\ worker' = [Off EXCEPT !.phase = "save", !.left = n]
    /\ UNCHANGED <<vars, order, touched>>

MarkAll ==
    /\ worker.phase = "mark"
    /\ stale' = stale \cup order.days
    /\ Goto("marked")
    /\ UNCHANGED <<data, published, computation, changes, failures,
                   order, ledger, previous, file, touched>>

Initialized ==
    /\ worker.phase = "marked"
    /\ WriteLedger([ledger EXCEPT !.initialized = TRUE])
    /\ Goto("save")
    /\ UNCHANGED <<vars, order, touched>>

(* Fault: every execution starts from the state before the plan. *)
StartDayFromPlan ==
    /\ worker.phase \in {"load", "day"}
    /\ IF worker.left = 0 \/ Completed(ledger) = order.days
       THEN /\ worker' = Off
            /\ UNCHANGED <<ledger, previous, file>>
       ELSE /\ WriteLedger([ledger EXCEPT !.pending = NextDay(ledger)])
            /\ worker' = [worker EXCEPT !.phase = "save",
                   !.carried = IF worker.phase = "load" THEN order.prior ELSE @]
    /\ UNCHANGED <<vars, order, touched>>

(* The next day is noted as pending, or the execution ends.  The state before its first
   day is read from the tables, and carried from then on. *)
StartDay ==
    /\ worker.phase \in {"load", "day"}
    /\ IF worker.left = 0 \/ Completed(ledger) = order.days
       THEN /\ worker' = Off
            /\ UNCHANGED <<ledger, previous, file>>
       ELSE /\ WriteLedger([ledger EXCEPT !.pending = NextDay(ledger)])
            /\ worker' = [worker EXCEPT !.phase = "save",
                   !.carried = IF worker.phase = "load" THEN Previous(NextDay(ledger)) ELSE @]
    /\ UNCHANGED <<vars, order, touched>>

(* _publish_batch() *)
RepublishDay ==
    /\ worker.phase = "publish"
    /\ LET d == ledger.pending
           state == After(d, worker.carried)
       IN  /\ published' = [published EXCEPT ![d] = Row(d, state)]
           /\ stale' = stale \ {d}
           /\ worker' = [worker EXCEPT !.phase = "published", !.carried = state]
    /\ UNCHANGED <<data, computation, changes, failures,
                   order, ledger, previous, file, touched>>

(* Fault: the next day is counted before the one that is pending is published. *)
CompleteDayEarly ==
    /\ worker.phase = "publish"
    /\ WriteLedger([ledger EXCEPT !.next = @ + 1, !.pending = 0])
    /\ worker' = [worker EXCEPT !.phase = "save", !.left = @ - 1]
    /\ UNCHANGED <<vars, order, touched>>

CompleteDay ==
    /\ worker.phase = "published"
    /\ WriteLedger([ledger EXCEPT !.next = @ + 1, !.pending = 0])
    /\ worker' = [worker EXCEPT !.phase = "save", !.left = @ - 1]
    /\ UNCHANGED <<vars, order, touched>>

(* The process is killed. *)
WorkerStops ==
    /\ worker # Off
    /\ failures < MaxFailures
    /\ failures' = failures + 1
    /\ worker' = Off
    /\ UNCHANGED <<data, tables, computation, changes,
                   order, ledger, previous, file, touched>>

-----------------------------------------------------------------------------
(* The ordinary computations and changes.  A completed day that they mark has no longer
   the output_version() that the plan has noted. *)
Others ==
    /\ worker = Off
    /\ Next
    /\ touched' = touched \cup (Completed(ledger) \cap Fresh \cap stale')
    /\ UNCHANGED <<order, ledger, previous, file, worker>>

RemediationNext ==
    \/ Others
    \/ \E range \in Ranges : Order(range[1], range[2])
    \/ \E n \in Chunks : Execute(n)
    \/ Save \/ MarkAll \/ Initialized \/ StartDay \/ RepublishDay \/ CompleteDay
    \/ WorkerStops

RemediationSpec == RemediationInit /\ [][RemediationNext]_allVars

-----------------------------------------------------------------------------
(* An execution that was killed anywhere can be taken up again: the file outside of the *)
(* pool is the checkpoint of the catalog or the one before it, and never there without  *)
(* one (execute(): "External checkpoint differs from authoritative catalog").           *)
CheckpointIsKnown == file.saved => ledger.saved /\ file \in {ledger, previous}

(* A day that the checkpoint says is completed is published and not marked, unless      *)
(* somebody else has marked it since.                                                   *)
CompletedDaysStand == Completed(ledger) \ touched \subseteq Fresh

(* A plan that is completed, in any number of executions and after any number of        *)
(* crashes, leaves what one computation over the whole history would have published,    *)
(* unless days after its own were published beside it, which it does not mark.          *)
PiecesOfThePlan ==
    (ledger.saved => /\ Completed(ledger) = order.days
                     /\ \A d \in Published : d <= Max(order.days))
    => PiecesMakeTheWhole
=============================================================================
