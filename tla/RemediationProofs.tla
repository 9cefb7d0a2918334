------------------------- MODULE RemediationProofs -------------------------
(***************************************************************************)
(* Proofs about Remediation, for any number of days, histories, requests,  *)
(* ranges, changes and failures: an execution that was killed anywhere is  *)
(* never refused for its two checkpoints, what the checkpoint counts is    *)
(* published, a computation leaves no mark behind it, what is published    *)
(* and not marked says what the complete computation does or less, and a   *)
(* history without gaps says exactly that.                                 *)
(***************************************************************************)
EXTENDS Remediation, TLAPS, FiniteSetTheorems, NaturalsInduction, WellFoundedInduction

Phases == {"off", "save", "mark", "marked", "load", "day", "publish", "published"}
Checkpoints == [saved : BOOLEAN, next : Nat, pending : Nat, initialized : BOOLEAN]

(* The days on which somebody trades, those that a computation has left, and its range. *)
LimitTypes ==
    /\ DOMAIN published = Days
    /\ market \subseteq Days /\ plan \subseteq Days
    /\ first \in Days /\ last \in Days
    /\ failures \in Nat

(* What can still be marked of the suffix that is computed is still to be published. *)
SuffixInvariant ==
    /\ replaced # 0 => pc = "idle"
    /\ pc = "running" => plan # {}
    /\ pc = "running" /\ propagate =>
          \A d \in Published \cap Sessions \cap stale :
              first <= d /\ (d <= last \/ \E m \in market : d <= m) => d \in plan

(* The days are marked before any is counted, and the pending one is the next of them. *)
LedgerInvariant ==
    /\ order.days \subseteq Days
    /\ ledger \in Checkpoints
    /\ order = NoOrder => ledger.next = 0
    /\ ~ledger.initialized => ledger.next = 0 /\ ledger.pending = 0
    /\ ledger.pending # 0 =>
          ledger.pending \in order.days \ Completed(ledger) /\ ledger.pending = NextDay(ledger)

(* What each phase of an execution has behind it.  The two checkpoints differ only
   between the two writes. *)
WorkerInvariant ==
    /\ worker = [phase |-> worker.phase, left |-> worker.left, carried |-> worker.carried]
    /\ worker.phase \in Phases
    /\ worker.phase # "off" => ledger.saved /\ pc = "idle"
    /\ worker.phase \notin {"off", "save"} => file = ledger
    /\ worker.phase \in {"mark", "marked"} => ~ledger.initialized
    /\ worker.phase \in {"load", "day", "publish", "published"} => ledger.initialized
    /\ worker.phase \in {"publish", "published"} => ledger.pending # 0
    /\ worker.phase = "published" => ledger.pending \in Fresh

RemediationInvariant ==
    /\ LimitTypes /\ SuffixInvariant /\ LedgerInvariant /\ WorkerInvariant
    /\ CheckpointIsKnown /\ CompletedDaysStand

-----------------------------------------------------------------------------
(* Days. *)

LEMMA DaysFinite == Days \subseteq Nat /\ IsFiniteSet(Days) /\ LastDay \in Nat
  BY ConstantsAssumption, FS_Interval DEF Days

LEMMA Smallest ==
    ASSUME NEW S \in SUBSET Nat, S # {}
    PROVE  \E i \in S : \A j \in S : i <= j
<1> DEFINE R == {ss \in Nat \X Nat : ss[1] < ss[2]}
<1>1. IsWellFoundedOn(R, Nat)
  BY NatLessThanWellFounded DEF OpToRel
<1>2. \E x \in S : \A y \in S : <<y, x>> \notin R
  <2> HIDE DEF R
  <2> QED
    BY <1>1, WFMin
<1>3. PICK x \in S : \A y \in S : <<y, x>> \notin R
  BY <1>2
<1>4. ASSUME NEW y \in S PROVE x <= y
  <2>1. <<y, x>> \notin R /\ x \in Nat /\ y \in Nat
    BY <1>3
  <2>2. ~(y < x)
    BY <2>1
  <2> QED
    BY <2>1, <2>2
<1> QED
  BY <1>4

LEMMA MinIsSmallest ==
    ASSUME NEW S \in SUBSET Nat, S # {}
    PROVE  Min(S) \in S /\ \A j \in S : Min(S) <= j
  BY Smallest DEF Min

LEMMA MaxIsLargest ==
    ASSUME NEW S \in SUBSET (0..LastDay), S # {}
    PROVE  Max(S) \in S /\ \A j \in S : j <= Max(S)
<1> DEFINE T == {LastDay - i : i \in S}
<1>1. T \in SUBSET Nat /\ T # {}
  <2>1. \A i \in 0..LastDay : LastDay - i \in Nat
    BY DaysFinite
  <2> QED
    BY <2>1
<1>2. PICK x \in T : \A y \in T : x <= y
  <2> HIDE DEF T
  <2> QED
    BY <1>1, Smallest
<1>3. PICK i \in S : x = LastDay - i
  BY <1>2
<1>4. ASSUME NEW j \in S PROVE i >= j
  <2>1. LastDay - i <= LastDay - j
    BY <1>2, <1>3
  <2> QED
    BY <2>1, DaysFinite
<1> QED
  BY <1>4, DaysFinite DEF Max

-----------------------------------------------------------------------------
(* The days of a plan are completed one by one. *)

LEMMA NextDayCompletes ==
    ASSUME LedgerInvariant, ledger.pending # 0, order' = order,
           ledger' = [ledger EXCEPT !.next = @ + 1, !.pending = 0]
    PROVE  Completed(ledger)' \subseteq Completed(ledger) \cup {ledger.pending}
<1> DEFINE Before(d) == {e \in order.days : e < d}
           m == ledger.pending
<1>1. /\ ledger.next \in Nat /\ ledger'.next = ledger.next + 1
      /\ order.days \subseteq Nat /\ IsFiniteSet(order.days)
  BY DaysFinite, FS_Subset DEF LedgerInvariant, Checkpoints
<1>2. \A d \in order.days : IsFiniteSet(Before(d)) /\ Cardinality(Before(d)) \in Nat
  BY <1>1, FS_Subset, FS_CardinalityType
<1>3. /\ m \in order.days \ Completed(ledger)
      /\ \A d \in order.days \ Completed(ledger) : m <= d
  BY <1>1, MinIsSmallest DEF LedgerInvariant, NextDay
<1>4. Cardinality(Before(m)) >= ledger.next
  <2>1. m \in order.days /\ ~(Cardinality(Before(m)) < ledger.next)
    BY <1>3 DEF Completed
  <2>2. Cardinality(Before(m)) \in Nat
    BY <1>2, <2>1
  <2> HIDE DEF Before, m
  <2> QED
    BY <1>1, <2>1, <2>2
<1>5. ASSUME NEW d \in order.days, d \notin Completed(ledger), d # m
      PROVE  Cardinality(Before(d)) >= ledger.next + 1
  <2>1. m < d /\ m \notin Before(m)
    BY <1>1, <1>3, <1>5
  <2>2. Before(m) \cup {m} \subseteq Before(d)
    BY <1>1, <1>3, <2>1
  <2>3. /\ IsFiniteSet(Before(m) \cup {m})
        /\ Cardinality(Before(m) \cup {m}) = Cardinality(Before(m)) + 1
    <3> HIDE DEF Before
    <3> QED
      BY <1>2, <1>3, <2>1, FS_AddElement
  <2>4. Cardinality(Before(m) \cup {m}) <= Cardinality(Before(d))
    <3> HIDE DEF Before
    <3> QED
      BY <1>2, <1>5, <2>2, FS_Subset
  <2>5. Cardinality(Before(m)) \in Nat /\ Cardinality(Before(d)) \in Nat
    BY <1>2, <1>3, <1>5
  <2> QED
    BY <1>1, <1>4, <2>3, <2>4, <2>5
<1>6. ASSUME NEW d \in Completed(ledger)', d \notin Completed(ledger)
      PROVE  d = m
  <2>1. d \in order.days /\ Cardinality(Before(d)) < ledger.next + 1
    BY <1>1, <1>6 DEF Completed
  <2> QED
    BY <1>1, <1>2, <1>5, <1>6, <2>1
<1> QED
  BY <1>6
-----------------------------------------------------------------------------
(* The tables and the suffix of a computation. *)

LEMMA RowIsPublished ==
    ASSUME NEW d, NEW state
    PROVE  Row(d, state) # Unpublished
<1>1. Unpublished.class = "none"
  BY DEF Unpublished
<1>2. Row(d, state).class # "none"
  BY DEF Row
<1> QED
  BY <1>1, <1>2

LEMMA PublishedGrows ==
    ASSUME DOMAIN published = Days, NEW d \in Days, NEW state,
           published' = [published EXCEPT ![d] = Row(d, state)]
    PROVE  DOMAIN published' = Days /\ Published' = Published \cup {d}
  BY RowIsPublished DEF Published

LEMMA InitTables == Init => LimitTypes /\ SuffixInvariant
<1> SUFFICES ASSUME Init PROVE LimitTypes /\ SuffixInvariant
  OBVIOUS
<1>1. PICK h \in Histories : market = h.market
  BY DEF Init
<1>2. h.market \subseteq Days
  BY HistoriesAssumption
<1>3. 1 \in Days
  BY ConstantsAssumption DEF Days
<1> QED
  BY <1>1, <1>2, <1>3 DEF Init, LimitTypes, SuffixInvariant

LEMMA PlanStep ==
    ASSUME LimitTypes, SuffixInvariant, Plan
    PROVE  LimitTypes' /\ SuffixInvariant' /\ Published' = Published
<1> DEFINE axis == {d \in Sessions : d <= Max({last} \cup market)}
           end == Max({last} \cup (IF propagate THEN axis \cap Published ELSE {}))
           days == axis \cap first..end
<1>1. CASE axis \cap first..last = {}
  <2>1. Rest /\ UNCHANGED <<data, published, failures>>
    BY <1>1 DEF Plan
  <2>2. 1 \in Days
    BY ConstantsAssumption DEF Days
  <2> QED
    BY <2>1, <2>2 DEF Rest, data, LimitTypes, SuffixInvariant, Published
<1>2. CASE axis \cap first..last # {}
  <2>1. /\ pc' = "running" /\ plan' = days
        /\ UNCHANGED <<first, last, propagate, data, published>>
    BY <1>2 DEF Plan
  <2>2. Days \subseteq Nat /\ Sessions \subseteq Days
    BY DaysFinite DEF Sessions, LimitTypes
  <2>3. /\ Max({last} \cup market) \in Days
        /\ \A d \in {last} \cup market : d <= Max({last} \cup market)
    <3> DEFINE S == {last} \cup market
    <3>1. S \in SUBSET Days /\ S # {}
      BY DEF LimitTypes
    <3>2. Max(S) \in S /\ \A j \in S : j <= Max(S)
      <4> HIDE DEF S
      <4> QED
        BY <3>1, MaxIsLargest DEF Days
    <3> QED
      BY <3>1, <3>2
  <2>4. /\ end \in Days /\ last <= end
        /\ propagate => \A d \in axis \cap Published : d <= end
    <3> DEFINE S == {last} \cup (IF propagate THEN axis \cap Published ELSE {})
    <3>1. S \in SUBSET Days /\ S # {} /\ last \in S
      BY DEF LimitTypes, Published
    <3>2. Max(S) \in S /\ \A j \in S : j <= Max(S)
      <4> HIDE DEF S
      <4> QED
        BY <3>1, MaxIsLargest DEF Days
    <3> QED
      BY <3>1, <3>2
  <2>5. days \subseteq Days /\ days # {}
    <3>1. PICK d \in Sessions : d \in axis \cap first..last
      BY <1>2
    <3>2. d \in first..end
      <4>1. /\ d \in Nat /\ first \in Nat /\ last \in Nat /\ end \in Nat
            /\ first <= d /\ d <= last /\ last <= end
        <5>1. d \in first..last /\ d \in Days
          BY <2>2, <3>1
        <5>2. first \in Nat /\ last \in Nat /\ end \in Nat /\ last <= end
          BY <2>2, <2>4 DEF LimitTypes
        <5> HIDE DEF end
        <5> QED
          BY <2>2, <5>1, <5>2
      <4> HIDE DEF end
      <4> QED
        BY <4>1
    <3> QED
      BY <2>2, <3>1, <3>2
  <2>6. ASSUME propagate, NEW d \in Published \cap Sessions, first <= d,
               d <= last \/ \E m \in market : d <= m
        PROVE  d \in days
    <3>1. d \in axis
      <4> DEFINE top == Max({last} \cup market)
      <4>1. d \in Nat /\ top \in Nat /\ last \in Nat /\ market \subseteq Nat
        BY <2>2, <2>3, <2>6 DEF LimitTypes
      <4>2. last <= top /\ \A m \in market : m <= top
        BY <2>3
      <4>3. d <= top
        <5> HIDE DEF top
        <5> QED
          BY <4>1, <4>2, <2>6
      <4> QED
        BY <4>3
    <3>2. d <= end
      BY <2>4, <2>6, <3>1
    <3>3. d \in Nat /\ first \in Nat /\ end \in Nat
      BY <2>2, <2>4, <2>6 DEF LimitTypes
    <3>4. d \in first..end
      <4> HIDE DEF end
      <4> QED
        BY <2>6, <3>2, <3>3
    <3> QED
      BY <3>1, <3>4
  <2>7. Published' = Published /\ Sessions' = Sessions /\ market' = market
    BY <2>1 DEF data, Published, Sessions
  <2> HIDE DEF days
  <2> QED
    <3>1. LimitTypes' /\ replaced' = 0
      BY <2>1, <2>5, <2>7 DEF LimitTypes, SuffixInvariant, Plan, data
    <3>2. SuffixInvariant'
      BY <2>1, <2>5, <2>6, <2>7, <3>1 DEF SuffixInvariant
    <3> QED
      BY <2>7, <3>1, <3>2
<1> QED
  BY <1>1, <1>2

LEMMA PublishDayStep ==
    ASSUME LimitTypes, SuffixInvariant, PublishDay
    PROVE  /\ LimitTypes' /\ SuffixInvariant'
           /\ Published \subseteq Published' /\ stale' \subseteq stale
           /\ pc' = "idle" /\ propagate =>
                 \A d \in Published' \cap Sessions :
                    first <= d /\ (d <= last \/ \E m \in market : d <= m) => d \notin stale'
<1> DEFINE d == Min(plan)
           state == After(d, prior)
<1>1. d \in plan /\ d \in Days
  BY DaysFinite, MinIsSmallest DEF LimitTypes, SuffixInvariant, PublishDay
<1>2. /\ published' = [published EXCEPT ![d] = Row(d, state)]
      /\ stale' = stale \ {d} /\ UNCHANGED <<data, failures>> /\ pc = "running"
      /\ IF plan = {d} THEN Rest
         ELSE plan' = plan \ {d} /\ UNCHANGED <<pc, first, last, propagate>>
  BY DEF PublishDay
<1>3. DOMAIN published' = Days /\ Published' = Published \cup {d}
  <2> HIDE DEF d, state
  <2> QED
    BY <1>1, <1>2, PublishedGrows DEF LimitTypes
<1>4. Sessions' = Sessions /\ market' = market
  BY <1>2 DEF data, Sessions
<1>5. 1 \in Days
  BY ConstantsAssumption DEF Days
<1> HIDE DEF d, state
<1>6. LimitTypes'
  BY <1>2, <1>3, <1>4, <1>5 DEF LimitTypes, Rest
<1>7. SuffixInvariant'
  <2>1. replaced' = replaced
    BY <1>2 DEF data
  <2> QED
    BY <1>1, <1>2, <1>3, <1>4, <2>1 DEF SuffixInvariant, Rest
<1>8. ASSUME pc' = "idle", propagate, NEW x \in Published' \cap Sessions,
             first <= x, x <= last \/ \E m \in market : x <= m
      PROVE  x \notin stale'
  <2>1. plan = {d}
    BY <1>2, <1>8
  <2> QED
    BY <1>2, <1>3, <1>8, <2>1 DEF SuffixInvariant
<1> QED
  BY <1>2, <1>3, <1>6, <1>7, <1>8

LEMMA TablesStep ==
    ASSUME LimitTypes, SuffixInvariant, Next
    PROVE  LimitTypes' /\ SuffixInvariant' /\ Published \subseteq Published'
<1>1. ASSUME NEW d \in Days, NEW kind, ReplaceFile(d, kind)
      PROVE  LimitTypes' /\ SuffixInvariant' /\ Published' = Published
  BY <1>1 DEF ReplaceFile, Changed, computation, LimitTypes, SuffixInvariant, Published
<1>2. ASSUME NEW d \in Days, PublishFact(d)
      PROVE  LimitTypes' /\ SuffixInvariant' /\ Published' = Published
  BY <1>2 DEF PublishFact, Changed, computation, LimitTypes, SuffixInvariant, Published
<1>3. ASSUME NEW d \in Days, NEW value, PublishCalendar(d, value)
      PROVE  LimitTypes' /\ SuffixInvariant' /\ Published' = Published
  BY <1>3 DEF PublishCalendar, Changed, computation, LimitTypes, SuffixInvariant, Published
<1>4. ASSUME Record PROVE LimitTypes' /\ SuffixInvariant' /\ Published' = Published
  BY <1>4 DEF Record, computation, LimitTypes, SuffixInvariant, Published
<1>5. ASSUME NEW r \in Requests, Request(r[1], r[2], r[3])
      PROVE  LimitTypes' /\ SuffixInvariant' /\ Published' = Published
  <2>1. r[1] \in Days /\ r[2] \in Days
    BY ConstantsAssumption DEF Days
  <2> QED
    BY <1>5, <2>1 DEF Request, data, LimitTypes, SuffixInvariant, Published
<1>6. ASSUME Fail PROVE LimitTypes' /\ SuffixInvariant' /\ Published' = Published
  <2>1. 1 \in Days
    BY ConstantsAssumption DEF Days
  <2> QED
    BY <1>6, <2>1 DEF Fail, Rest, data, tables, LimitTypes, SuffixInvariant, Published
<1> QED
  BY <1>1, <1>2, <1>3, <1>4, <1>5, <1>6, PlanStep, PublishDayStep DEF Next

-----------------------------------------------------------------------------
(* The plan and its execution. *)

LEMMA TablesKept ==
    ASSUME LimitTypes, SuffixInvariant, UNCHANGED vars
    PROVE  LimitTypes' /\ SuffixInvariant' /\ pc' = pc /\ Published' = Published /\ Fresh' = Fresh
  BY DEF vars, data, tables, computation, LimitTypes, SuffixInvariant, Sessions, Published, Fresh

LEMMA LedgerKept ==
    ASSUME LedgerInvariant, UNCHANGED <<order, ledger>>
    PROVE  LedgerInvariant' /\ Completed(ledger)' = Completed(ledger)
<1>1. Completed(ledger)' = Completed(ledger)
  BY DEF Completed
<1>2. NextDay(ledger)' = NextDay(ledger)
  BY <1>1 DEF NextDay
<1> QED
  BY <1>1, <1>2 DEF LedgerInvariant

(* What is not counted cannot be marked or unpublished. *)
LEMMA NothingCompleted ==
    ASSUME NEW checkpoint, checkpoint.next = 0, order.days \subseteq Days
    PROVE  Completed(checkpoint) = {}
<1>1. ASSUME NEW d \in order.days
      PROVE  ~(Cardinality({e \in order.days : e < d}) < 0)
  <2>1. IsFiniteSet({e \in order.days : e < d})
    BY DaysFinite, FS_Subset
  <2>2. Cardinality({e \in order.days : e < d}) \in Nat
    BY <2>1, FS_CardinalityType
  <2> QED
    BY <2>2
<1> QED
  BY <1>1 DEF Completed

LEMMA OthersStep ==
    ASSUME RemediationInvariant, Others
    PROVE  RemediationInvariant'
<1>1. /\ LimitTypes' /\ SuffixInvariant' /\ Published \subseteq Published'
      /\ UNCHANGED <<order, ledger, previous, file, worker>>
      /\ touched' = touched \cup (Completed(ledger) \cap Fresh \cap stale')
      /\ worker = Off
  BY TablesStep DEF RemediationInvariant, Others
<1>2. LedgerInvariant' /\ Completed(ledger)' = Completed(ledger)
  BY <1>1, LedgerKept DEF RemediationInvariant
<1>3. WorkerInvariant'
  <2>1. worker.phase = "off"
    BY <1>1 DEF Off
  <2> QED
    BY <1>1, <2>1 DEF RemediationInvariant, WorkerInvariant
<1>4. CheckpointIsKnown'
  BY <1>1 DEF RemediationInvariant, CheckpointIsKnown
<1>5. CompletedDaysStand'
  BY <1>1, <1>2 DEF RemediationInvariant, CompletedDaysStand, Fresh
<1> QED
  BY <1>1, <1>2, <1>3, <1>4, <1>5 DEF RemediationInvariant

LEMMA OrderStep ==
    ASSUME RemediationInvariant, NEW from, NEW to, Order(from, to)
    PROVE  RemediationInvariant'
<1>1. /\ UNCHANGED <<vars, ledger, previous, file, touched, worker>>
      /\ order = NoOrder /\ order'.days \subseteq Sessions
  BY DEF Order
<1>2. LimitTypes' /\ SuffixInvariant' /\ pc' = pc /\ Fresh' = Fresh /\ Sessions \subseteq Days
  BY <1>1, TablesKept DEF RemediationInvariant, LimitTypes, Sessions
<1>3. ledger'.next = 0 /\ ledger.pending = 0
  BY <1>1 DEF RemediationInvariant, LedgerInvariant, NoOrder
<1>4. Completed(ledger)' = {}
  <2>1. \A d \in order'.days : IsFiniteSet({e \in order'.days : e < d})
    BY <1>1, <1>2, DaysFinite, FS_Subset
  <2>2. \A d \in order'.days : ~(Cardinality({e \in order'.days : e < d}) < 0)
    BY <2>1, FS_CardinalityType
  <2> QED
    BY <1>3, <2>2 DEF Completed
<1>5. LedgerInvariant'
  BY <1>1, <1>2, <1>3 DEF RemediationInvariant, LedgerInvariant
<1>6. WorkerInvariant' /\ CheckpointIsKnown' /\ CompletedDaysStand'
  BY <1>1, <1>2, <1>4 DEF RemediationInvariant, WorkerInvariant, CheckpointIsKnown,
                          CompletedDaysStand
<1> QED
  BY <1>2, <1>5, <1>6 DEF RemediationInvariant

LEMMA SaveStep ==
    ASSUME RemediationInvariant, Save
    PROVE  RemediationInvariant'
<1>1. /\ UNCHANGED <<vars, order, ledger, previous, touched>> /\ file' = ledger
      /\ worker.phase = "save"
      /\ \E phase \in {"mark", "publish", "load", "day"} :
            /\ worker' = [worker EXCEPT !.phase = phase]
            /\ phase = "mark" <=> ~ledger.initialized
            /\ phase = "publish" => ledger.pending # 0
  <2>1. CASE ~ledger.initialized
    <3>1. ledger.pending = 0
      BY <2>1 DEF RemediationInvariant, LedgerInvariant
    <3> QED
      BY <2>1, <3>1 DEF Save, Goto
  <2>2. CASE ledger.initialized /\ ledger.pending # 0
    BY <2>2 DEF Save, Goto
  <2>3. CASE ledger.initialized /\ ledger.pending = 0
    BY <2>3 DEF Save, Goto
  <2> QED
    BY <2>1, <2>2, <2>3
<1>2. LimitTypes' /\ SuffixInvariant' /\ pc' = pc /\ Fresh' = Fresh
  BY <1>1, TablesKept DEF RemediationInvariant
<1>3. LedgerInvariant' /\ Completed(ledger)' = Completed(ledger)
  BY <1>1, LedgerKept DEF RemediationInvariant
<1>4. WorkerInvariant'
  BY <1>1, <1>2 DEF RemediationInvariant, WorkerInvariant, Phases
<1>5. CheckpointIsKnown' /\ CompletedDaysStand'
  BY <1>1, <1>2, <1>3 DEF RemediationInvariant, WorkerInvariant, CheckpointIsKnown,
                          CompletedDaysStand
<1> QED
  BY <1>2, <1>3, <1>4, <1>5 DEF RemediationInvariant

LEMMA ExecuteStep ==
    ASSUME RemediationInvariant, NEW n, Execute(n)
    PROVE  RemediationInvariant'
<1>1. /\ UNCHANGED <<vars, order, touched>> /\ worker = Off /\ pc = "idle"
      /\ file.saved => ledger.saved /\ file \in {ledger, previous}
  BY DEF Execute, Accepted, Readable
<1>2. LimitTypes' /\ SuffixInvariant' /\ pc' = pc /\ Fresh' = Fresh
  BY <1>1, TablesKept DEF RemediationInvariant
<1>3. CASE ledger.saved
  <2>1. /\ file' = ledger /\ UNCHANGED <<ledger, previous>>
        /\ \/ worker' = Off
           \/ worker' = [Off EXCEPT !.phase = "load", !.left = n] /\ ledger.initialized
           \/ worker' = [Off EXCEPT !.phase = "mark", !.left = n] /\ ~ledger.initialized
    BY <1>3 DEF Execute
  <2>2. LedgerInvariant' /\ Completed(ledger)' = Completed(ledger)
    BY <1>1, <2>1, LedgerKept DEF RemediationInvariant
  <2>3. WorkerInvariant'
    <3>1. CASE worker' = Off
      BY <3>1 DEF WorkerInvariant, Phases, Off
    <3>2. CASE worker' = [Off EXCEPT !.phase = "load", !.left = n] /\ ledger.initialized
      BY <1>1, <1>2, <1>3, <2>1, <3>2 DEF WorkerInvariant, Phases, Off
    <3>3. CASE worker' = [Off EXCEPT !.phase = "mark", !.left = n] /\ ~ledger.initialized
      BY <1>1, <1>2, <1>3, <2>1, <3>3 DEF WorkerInvariant, Phases, Off
    <3> QED
      BY <2>1, <3>1, <3>2, <3>3
  <2>4. CheckpointIsKnown' /\ CompletedDaysStand'
    BY <1>1, <1>2, <1>3, <2>1, <2>2 DEF RemediationInvariant, CheckpointIsKnown, CompletedDaysStand
  <2> QED
    BY <1>2, <2>2, <2>3, <2>4 DEF RemediationInvariant
<1>4. CASE ~ledger.saved
  <2>1. /\ ledger' = Blank /\ UNCHANGED file /\ ~file.saved
        /\ worker' = [Off EXCEPT !.phase = "save", !.left = n]
    BY <1>1, <1>4 DEF Execute, WriteLedger
  <2>2. Completed(ledger)' = {}
    <3>1. Blank.next = 0 /\ order.days \subseteq Days
      BY DEF Blank, Absent, RemediationInvariant, LedgerInvariant
    <3>2. Completed(Blank) = {}
      BY <3>1, NothingCompleted
    <3> QED
      BY <1>1, <2>1, <3>2 DEF Completed
  <2>3. LedgerInvariant'
    BY <1>1, <2>1 DEF RemediationInvariant, LedgerInvariant, Checkpoints, Blank, Absent
  <2>4. WorkerInvariant'
    BY <1>1, <1>2, <2>1 DEF WorkerInvariant, Phases, Off, Blank, Absent
  <2>5. CheckpointIsKnown' /\ CompletedDaysStand'
    BY <2>1, <2>2 DEF CheckpointIsKnown, CompletedDaysStand
  <2> QED
    BY <1>2, <2>3, <2>4, <2>5 DEF RemediationInvariant
<1> QED
  BY <1>3, <1>4

LEMMA MarkAllStep ==
    ASSUME RemediationInvariant, MarkAll
    PROVE  RemediationInvariant'
<1>1. /\ UNCHANGED <<data, published, computation, failures, order, ledger, previous, file, touched>>
      /\ worker.phase = "mark" /\ worker' = [worker EXCEPT !.phase = "marked"]
      /\ pc = "idle" /\ ~ledger.initialized
  BY DEF MarkAll, Goto, RemediationInvariant, WorkerInvariant
<1>2. LimitTypes' /\ SuffixInvariant' /\ pc' = pc
  BY <1>1 DEF RemediationInvariant, LimitTypes, SuffixInvariant, data, computation
<1>3. LedgerInvariant' /\ Completed(ledger)' = Completed(ledger)
  BY <1>1, LedgerKept DEF RemediationInvariant
<1>4. Completed(ledger) = {}
  BY <1>1, NothingCompleted DEF RemediationInvariant, LedgerInvariant
<1>5. WorkerInvariant' /\ CheckpointIsKnown' /\ CompletedDaysStand'
  BY <1>1, <1>2, <1>3, <1>4 DEF RemediationInvariant, WorkerInvariant, Phases,
                               CheckpointIsKnown, CompletedDaysStand
<1> QED
  BY <1>2, <1>3, <1>5 DEF RemediationInvariant

LEMMA InitializedStep ==
    ASSUME RemediationInvariant, Initialized
    PROVE  RemediationInvariant'
<1>1. /\ UNCHANGED <<vars, order, touched, file>>
      /\ ledger' = [ledger EXCEPT !.initialized = TRUE] /\ previous' = ledger
      /\ worker.phase = "marked" /\ worker' = [worker EXCEPT !.phase = "save"]
      /\ pc = "idle" /\ ledger.saved /\ file = ledger /\ ~ledger.initialized
  BY DEF Initialized, WriteLedger, Goto, RemediationInvariant, WorkerInvariant
<1>2. LimitTypes' /\ SuffixInvariant' /\ pc' = pc /\ Fresh' = Fresh
  BY <1>1, TablesKept DEF RemediationInvariant
<1>3. /\ ledger' \in Checkpoints /\ ledger'.initialized /\ ledger'.saved
      /\ ledger'.next = 0 /\ ledger'.pending = 0
  BY <1>1 DEF RemediationInvariant, LedgerInvariant, Checkpoints
<1>4. LedgerInvariant'
  BY <1>1, <1>3 DEF RemediationInvariant, LedgerInvariant
<1>5. Completed(ledger)' = Completed(ledger)
  BY <1>1, <1>3 DEF RemediationInvariant, LedgerInvariant, Completed
<1>6. WorkerInvariant' /\ CheckpointIsKnown' /\ CompletedDaysStand'
  BY <1>1, <1>2, <1>3, <1>5 DEF RemediationInvariant, WorkerInvariant, Phases,
                               CheckpointIsKnown, CompletedDaysStand
<1> QED
  BY <1>2, <1>4, <1>6 DEF RemediationInvariant

LEMMA StartDayStep ==
    ASSUME RemediationInvariant, StartDay
    PROVE  RemediationInvariant'
<1>1. /\ UNCHANGED <<vars, order, touched, file>> /\ worker.phase \in {"load", "day"}
      /\ pc = "idle" /\ ledger.saved /\ ledger.initialized /\ file = ledger
  BY DEF StartDay, WriteLedger, RemediationInvariant, WorkerInvariant
<1>2. LimitTypes' /\ SuffixInvariant' /\ pc' = pc /\ Fresh' = Fresh
  BY <1>1, TablesKept DEF RemediationInvariant
<1>3. CASE worker.left = 0 \/ Completed(ledger) = order.days
  <2>1. worker' = Off /\ UNCHANGED <<ledger, previous>>
    BY <1>3 DEF StartDay
  <2>2. LedgerInvariant' /\ Completed(ledger)' = Completed(ledger)
    BY <1>1, <2>1, LedgerKept DEF RemediationInvariant
  <2>3. WorkerInvariant' /\ CheckpointIsKnown' /\ CompletedDaysStand'
    BY <1>1, <1>2, <2>1, <2>2 DEF RemediationInvariant, WorkerInvariant, Phases, Off,
                                 CheckpointIsKnown, CompletedDaysStand
  <2> QED
    BY <1>2, <2>2, <2>3 DEF RemediationInvariant
<1>4. CASE ~(worker.left = 0 \/ Completed(ledger) = order.days)
  <2>1. /\ ledger' = [ledger EXCEPT !.pending = NextDay(ledger)] /\ previous' = ledger
        /\ \E state : worker' = [worker EXCEPT !.phase = "save", !.carried = state]
    BY <1>4 DEF StartDay, WriteLedger
  <2>2. NextDay(ledger) \in order.days \ Completed(ledger) /\ NextDay(ledger) \in Nat
    <3>1. order.days \ Completed(ledger) # {} /\ order.days \subseteq Nat
      BY <1>4, DaysFinite DEF RemediationInvariant, LedgerInvariant, Completed
    <3> QED
      BY <3>1, MinIsSmallest DEF NextDay
  <2>3. /\ ledger' \in Checkpoints /\ ledger'.next = ledger.next /\ ledger'.initialized
        /\ ledger'.pending = NextDay(ledger) /\ ledger'.saved
    BY <1>1, <2>1, <2>2 DEF RemediationInvariant, LedgerInvariant, Checkpoints
  <2>4. Completed(ledger)' = Completed(ledger) /\ NextDay(ledger)' = NextDay(ledger)
    <3>1. Completed(ledger)' = Completed(ledger)
      BY <1>1, <2>3 DEF Completed
    <3> QED
      BY <1>1, <3>1 DEF NextDay
  <2>5. LedgerInvariant'
    BY <1>1, <2>2, <2>3, <2>4 DEF RemediationInvariant, LedgerInvariant
  <2>6. WorkerInvariant' /\ CheckpointIsKnown' /\ CompletedDaysStand'
    BY <1>1, <1>2, <2>1, <2>3, <2>4 DEF RemediationInvariant, WorkerInvariant, Phases,
                                       CheckpointIsKnown, CompletedDaysStand
  <2> QED
    BY <1>2, <2>5, <2>6 DEF RemediationInvariant
<1> QED
  BY <1>3, <1>4

LEMMA RepublishDayStep ==
    ASSUME RemediationInvariant, RepublishDay
    PROVE  RemediationInvariant'
<1> DEFINE d == ledger.pending
           state == After(d, worker.carried)
<1>1. /\ published' = [published EXCEPT ![d] = Row(d, state)] /\ stale' = stale \ {d}
      /\ worker.phase = "publish"
      /\ worker' = [worker EXCEPT !.phase = "published", !.carried = state]
      /\ UNCHANGED <<data, computation, failures, order, ledger, previous, file, touched>>
      /\ pc = "idle" /\ ledger.saved /\ ledger.initialized /\ file = ledger /\ d # 0
  BY DEF RepublishDay, RemediationInvariant, WorkerInvariant
<1>2. d \in Days
  BY <1>1 DEF RemediationInvariant, LedgerInvariant
<1>3. DOMAIN published' = Days /\ Published' = Published \cup {d}
  <2> HIDE DEF d, state
  <2> QED
    BY <1>1, <1>2, PublishedGrows DEF RemediationInvariant, LimitTypes
<1> HIDE DEF state
<1>4. LimitTypes' /\ SuffixInvariant' /\ pc' = pc
  BY <1>1, <1>3 DEF RemediationInvariant, LimitTypes, SuffixInvariant, data, computation
<1>5. LedgerInvariant' /\ Completed(ledger)' = Completed(ledger)
  BY <1>1, LedgerKept DEF RemediationInvariant
<1>6. d \in Fresh' /\ Fresh \subseteq Fresh'
  BY <1>1, <1>3 DEF Fresh
<1>7. WorkerInvariant' /\ CheckpointIsKnown' /\ CompletedDaysStand'
  BY <1>1, <1>4, <1>5, <1>6 DEF RemediationInvariant, WorkerInvariant, Phases,
                               CheckpointIsKnown, CompletedDaysStand
<1> QED
  BY <1>4, <1>5, <1>7 DEF RemediationInvariant

LEMMA CompleteDayStep ==
    ASSUME RemediationInvariant, CompleteDay
    PROVE  RemediationInvariant'
<1>1. /\ UNCHANGED <<vars, order, touched, file>> /\ previous' = ledger
      /\ ledger' = [ledger EXCEPT !.next = @ + 1, !.pending = 0]
      /\ worker.phase = "published"
      /\ worker' = [worker EXCEPT !.phase = "save", !.left = @ - 1]
      /\ pc = "idle" /\ ledger.saved /\ ledger.initialized /\ file = ledger
      /\ ledger.pending # 0 /\ ledger.pending \in Fresh
  BY DEF CompleteDay, WriteLedger, RemediationInvariant, WorkerInvariant
<1>2. LimitTypes' /\ SuffixInvariant' /\ pc' = pc /\ Fresh' = Fresh
  BY <1>1, TablesKept DEF RemediationInvariant
<1>3. Completed(ledger)' \subseteq Completed(ledger) \cup {ledger.pending}
  BY <1>1, NextDayCompletes DEF RemediationInvariant
<1>4. /\ ledger' \in Checkpoints /\ ledger'.initialized /\ ledger'.saved /\ ledger'.pending = 0
  <2>1. ledger \in Checkpoints /\ ledger.next + 1 \in Nat
    BY DEF RemediationInvariant, LedgerInvariant, Checkpoints
  <2> QED
    BY <1>1, <2>1 DEF Checkpoints
<1>5. LedgerInvariant'
  <2>1. order # NoOrder
    BY <1>1 DEF RemediationInvariant, LedgerInvariant, NoOrder
  <2> QED
    BY <1>1, <1>4, <2>1 DEF RemediationInvariant, LedgerInvariant
<1>6. WorkerInvariant' /\ CheckpointIsKnown' /\ CompletedDaysStand'
  BY <1>1, <1>2, <1>3, <1>4 DEF RemediationInvariant, WorkerInvariant, Phases,
                               CheckpointIsKnown, CompletedDaysStand
<1> QED
  BY <1>2, <1>5, <1>6 DEF RemediationInvariant

LEMMA WorkerStopsStep ==
    ASSUME RemediationInvariant, WorkerStops
    PROVE  RemediationInvariant'
<1>1. /\ UNCHANGED <<data, tables, computation, order, ledger, previous, file, touched>>
      /\ worker' = Off /\ failures' = failures + 1
  BY DEF WorkerStops
<1>2. LimitTypes' /\ SuffixInvariant' /\ pc' = pc /\ Fresh' = Fresh
  BY <1>1 DEF RemediationInvariant, LimitTypes, SuffixInvariant, data, tables, computation,
              Published, Fresh, Sessions
<1>3. LedgerInvariant' /\ Completed(ledger)' = Completed(ledger)
  BY <1>1, LedgerKept DEF RemediationInvariant
<1>4. WorkerInvariant' /\ CheckpointIsKnown' /\ CompletedDaysStand'
  BY <1>1, <1>2, <1>3 DEF RemediationInvariant, WorkerInvariant, Phases, Off,
                         CheckpointIsKnown, CompletedDaysStand
<1> QED
  BY <1>2, <1>3, <1>4 DEF RemediationInvariant

-----------------------------------------------------------------------------
(* The invariant holds at first and after every step. *)

LEMMA InitHolds == RemediationInit => RemediationInvariant
<1> SUFFICES ASSUME RemediationInit PROVE RemediationInvariant
  OBVIOUS
<1>1. /\ order = NoOrder /\ ledger = Absent /\ file = Absent /\ worker = Off
      /\ LimitTypes /\ SuffixInvariant
  BY InitTables DEF RemediationInit
<1>2. LedgerInvariant
  BY <1>1 DEF LedgerInvariant, Checkpoints, Absent, NoOrder
<1>3. WorkerInvariant
  BY <1>1 DEF WorkerInvariant, Phases, Off
<1>4. CheckpointIsKnown
  BY <1>1 DEF CheckpointIsKnown, Absent
<1>5. Completed(ledger) = {}
  BY <1>1, NothingCompleted DEF Absent, NoOrder
<1> QED
  BY <1>1, <1>2, <1>3, <1>4, <1>5 DEF RemediationInvariant, CompletedDaysStand

LEMMA StepHolds ==
    RemediationInvariant /\ [RemediationNext]_allVars => RemediationInvariant'
<1> SUFFICES ASSUME RemediationInvariant, [RemediationNext]_allVars PROVE RemediationInvariant'
  OBVIOUS
<1>1. CASE UNCHANGED allVars
  <2>1. UNCHANGED <<vars, order, ledger, previous, file, touched, worker>>
    BY <1>1 DEF allVars, remediationVars
  <2>2. LimitTypes' /\ SuffixInvariant' /\ pc' = pc /\ Fresh' = Fresh
    BY <2>1, TablesKept DEF RemediationInvariant
  <2>3. LedgerInvariant' /\ Completed(ledger)' = Completed(ledger)
    BY <2>1, LedgerKept DEF RemediationInvariant
  <2>4. WorkerInvariant' /\ CheckpointIsKnown' /\ CompletedDaysStand'
    BY <2>1, <2>2, <2>3 DEF RemediationInvariant, WorkerInvariant,
                           CheckpointIsKnown, CompletedDaysStand
  <2> QED
    BY <2>2, <2>3, <2>4 DEF RemediationInvariant
<1>2. ASSUME NEW range \in Ranges, Order(range[1], range[2]) PROVE RemediationInvariant'
  BY <1>2, OrderStep
<1>3. ASSUME NEW n \in Chunks, Execute(n) PROVE RemediationInvariant'
  BY <1>3, ExecuteStep
<1> QED
  BY <1>1, <1>2, <1>3, OthersStep, SaveStep, MarkAllStep, InitializedStep, StartDayStep,
     RepublishDayStep, CompleteDayStep, WorkerStopsStep DEF RemediationNext

(* The inductive invariant of computations, changes, plans and executions. *)
THEOREM InvariantHolds == RemediationSpec => []RemediationInvariant
<1>1. RemediationInit => RemediationInvariant
  BY InitHolds
<1>2. RemediationInvariant /\ [RemediationNext]_allVars => RemediationInvariant'
  BY StepHolds
<1> QED
  BY <1>1, <1>2, PTL DEF RemediationSpec

(* An execution that was killed between any two writes can be taken up again: execute() *)
(* finds the file to be the checkpoint of the catalog or the one before it.             *)
THEOREM CheckpointsAgree == RemediationSpec => []CheckpointIsKnown
<1>1. RemediationInvariant => CheckpointIsKnown
  BY DEF RemediationInvariant
<1> QED
  BY <1>1, InvariantHolds, PTL

(* A day that the checkpoint counts is published and not marked, unless a computation   *)
(* or a change has marked it since.                                                     *)
THEOREM CountedDaysArePublished == RemediationSpec => []CompletedDaysStand
<1>1. RemediationInvariant => CompletedDaysStand
  BY DEF RemediationInvariant
<1> QED
  BY <1>1, InvariantHolds, PTL

(* A computation that runs to its end has published again every session that was marked *)
(* from its first day on (compute_limit_events()).                                      *)
THEOREM SuffixesAreRedone == RemediationSpec => SuffixIsRedone
<1> DEFINE Finished ==
      pc = "running" /\ pc' = "idle" /\ failures' = failures /\ propagate =>
          \A d \in Published' \cap Sessions :
              first <= d /\ (d <= last \/ \E m \in market : d <= m) => d \notin stale'
<1>1. RemediationInvariant /\ [RemediationNext]_allVars => [Finished]_vars
  <2> SUFFICES ASSUME RemediationInvariant, [RemediationNext]_allVars,
                      pc = "running", pc' = "idle", failures' = failures, propagate
               PROVE  Finished
    OBVIOUS
  <2>1. worker.phase = "off"
    BY DEF RemediationInvariant, WorkerInvariant
  <2>2. Next
    <3>1. CASE UNCHANGED allVars
      BY <3>1 DEF allVars, vars, computation
    <3>2. CASE Others
      BY <3>2 DEF Others
    <3>3. ASSUME NEW range \in Ranges, Order(range[1], range[2]) PROVE FALSE
      BY <3>3 DEF Order
    <3>4. ASSUME NEW n \in Chunks, Execute(n) PROVE FALSE
      BY <3>4 DEF Execute, Readable
    <3> QED
      BY <2>1, <3>1, <3>2, <3>3, <3>4 DEF RemediationNext, Save, MarkAll, Initialized, StartDay,
         RepublishDay, CompleteDay, WorkerStops, tables, computation
  <2>3. PublishDay
    <3>1. ASSUME NEW r \in Requests, Request(r[1], r[2], r[3]) PROVE FALSE
      BY <3>1 DEF Request
    <3>2. ~Plan /\ ~Record
      BY DEF Plan, Record, RemediationInvariant, SuffixInvariant
    <3>3. ~Fail
      BY DEF Fail, RemediationInvariant, LimitTypes
    <3> QED
      BY <2>2, <3>1, <3>2, <3>3 DEF Next, ReplaceFile, PublishFact, PublishCalendar, Changed
  <2> QED
    BY <2>3, PublishDayStep DEF RemediationInvariant
<1>2. RemediationSpec => [][Finished]_vars
  BY <1>1, InvariantHolds, PTL DEF RemediationSpec
<1> QED
  BY <1>2 DEF SuffixIsRedone

-----------------------------------------------------------------------------
(* The complete computation. *)

(* Up to any day there is one, as its days are taken one by one. *)
LEMMA CompleteUpTo ==
    ASSUME NEW n \in 0..LastDay
    PROVE  \E f : f = [d \in 0..n |-> IF d = 0 THEN NoState
                                      ELSE IF d \in Sessions THEN After(d, f[d - 1])
                                      ELSE f[d - 1]]
<1> DEFINE Is(f, m) == f = [d \in 0..m |-> IF d = 0 THEN NoState
                                          ELSE IF d \in Sessions THEN After(d, f[d - 1])
                                          ELSE f[d - 1]]
           Missing == {m \in 0..LastDay : ~\E f : Is(f, m)}
<1>1. SUFFICES ASSUME Missing # {} PROVE FALSE
  BY DEF Missing
<1>2. LastDay \in Nat
  BY DaysFinite
<1>3. PICK m \in Missing : \A k \in Missing : m <= k
  <2>1. Missing \in SUBSET Nat
    BY <1>2
  <2> HIDE DEF Missing
  <2> QED
    BY <1>1, <2>1, Smallest
<1>4. m # 0
  <2>1. Is([d \in 0..0 |-> NoState], 0)
    OBVIOUS
  <2> HIDE DEF Is
  <2> QED
    BY <2>1
<1>5. m - 1 \in 0..LastDay /\ m - 1 \notin Missing
  BY <1>2, <1>3, <1>4
<1>6. PICK f : Is(f, m - 1)
  BY <1>5
<1> DEFINE g == [d \in 0..m |-> IF d = m THEN IF m \in Sessions THEN After(m, f[m - 1])
                                            ELSE f[m - 1]
                                ELSE f[d]]
<1>7. \A d \in 0..(m - 1) : g[d] = f[d]
  BY <1>5
<1>8. \A d \in 0..(m - 1) : f[d] = IF d = 0 THEN NoState
                                  ELSE IF d \in Sessions THEN After(d, f[d - 1]) ELSE f[d - 1]
  BY <1>6
<1>9. ASSUME NEW d \in 0..m
      PROVE  g[d] = IF d = 0 THEN NoState
                    ELSE IF d \in Sessions THEN After(d, g[d - 1]) ELSE g[d - 1]
  <2>1. d = m \/ d \in 0..(m - 1)
    BY <1>5
  <2>2. CASE d = m
    <3>1. m - 1 \in 0..(m - 1) /\ m \in 0..m
      BY <1>5
    <3>2. g[m - 1] = f[m - 1] /\ g[m] = IF m \in Sessions THEN After(m, f[m - 1]) ELSE f[m - 1]
      BY <1>7, <3>1
    <3> HIDE DEF g
    <3> QED
      BY <1>4, <2>2, <3>2
  <2>3. CASE d \in 0..(m - 1)
    <3>1. g[d] = f[d] /\ (d # 0 => g[d - 1] = f[d - 1])
      BY <1>5, <1>7, <2>3
    <3> HIDE DEF g
    <3> QED
      BY <1>8, <2>3, <3>1
  <2> QED
    BY <2>1, <2>2, <2>3
<1>10. Is(g, m)
  <2> DEFINE h == [d \in 0..m |-> IF d = 0 THEN NoState
                                  ELSE IF d \in Sessions THEN After(d, g[d - 1]) ELSE g[d - 1]]
  <2>1. \A d \in 0..m : g[d] = h[d]
    <3> HIDE DEF g
    <3> QED
      BY <1>9
  <2> QED
    BY <2>1
<1> HIDE DEF Is
<1> QED
  BY <1>3, <1>10

LEMMA CompleteEquation ==
    \A d \in 0..LastDay :
        Complete[d] = IF d = 0 THEN NoState
                      ELSE IF d \in Sessions THEN After(d, Complete[d - 1]) ELSE Complete[d - 1]
<1>1. LastDay \in 0..LastDay
  BY DaysFinite
<1>2. \E f : f = [d \in 0..LastDay |-> IF d = 0 THEN NoState
                                       ELSE IF d \in Sessions THEN After(d, f[d - 1])
                                       ELSE f[d - 1]]
  BY <1>1, CompleteUpTo
<1>3. Complete = [d \in 0..LastDay |-> IF d = 0 THEN NoState
                                       ELSE IF d \in Sessions THEN After(d, Complete[d - 1])
                                       ELSE Complete[d - 1]]
  BY <1>2 DEF Complete
<1> QED
  BY <1>3

-----------------------------------------------------------------------------
(* States of a security, and what they say of each other. *)

States == {s \in [day : 0..LastDay, up : {"yes", "no", "unknown"},
                  n : Nat \cup {Unknown}, gaps : Nat] :
              /\ s.up = "unknown" => s.n = Unknown
              /\ s.n = Unknown => s.gaps = 0}

(* A state says what another one does, or less; or exactly as much. *)
Within(s, t) ==
    s.up = "unknown" \/ (s.up = t.up /\ (s.n = Unknown \/ (s.n = t.n /\ s.gaps = t.gaps)))
Same(s, t) == s = t \/ (s.up = "unknown" /\ t.up = "unknown")

(* The same of published rows, as KnownStreaksAreRight allows it. *)
RowWithin(row, full) ==
    \/ row = full
    \/ /\ row.n = Unknown /\ row.gaps = 0
       /\ <<row.class, full.class>> \in {<<"event", "event">>, <<"unknown", "gap">>}

(* The data of a pool: nothing is traded on a closed day. *)
DataTypes ==
    /\ bars \in [Days -> Kinds] /\ facts \subseteq Days /\ market \subseteq Days
    /\ calendar \in [Days -> {"open", "closed", "none"}]
    /\ \A d \in market : calendar[d] # "closed"

LEMMA StatusType == ASSUME DataTypes, NEW d \in Days PROVE Status(d) \in Kinds
  BY DEF DataTypes, Status, Kinds

LEMMA AfterType ==
    ASSUME DataTypes, NEW d \in Days, NEW s \in States
    PROVE  After(d, s) \in States /\ After(d, s).day = d
<1>1. Status(d) \in Kinds /\ d \in 0..LastDay
  BY StatusType, DaysFinite DEF Days
<1>2. CASE Status(d) = "halted"
  BY <1>1, <1>2 DEF After, States, UnknownState, State, Unknown
<1>3. CASE Status(d) = "absent"
  BY <1>1, <1>3 DEF After, WithoutBar, States, UnknownState, State, Unknown
<1>4. CASE Status(d) = "bad"
  BY <1>1, <1>4 DEF After, States, UnknownState, State, Unknown
<1>5. CASE Status(d) \in {"debut", "flat"}
  BY <1>1, <1>5 DEF After, States, State, Unknown
<1>6. CASE Status(d) = "up"
  BY <1>1, <1>6 DEF After, States, State, Unknown
<1> QED
  BY <1>1, <1>2, <1>3, <1>4, <1>5, <1>6 DEF Kinds

(* A state that says less gives a state and a row that say less. *)
LEMMA AfterWithin ==
    ASSUME DataTypes, NEW d \in Days, NEW s \in States, NEW t \in States,
           t.day = PreviousSession(d), s.day = t.day => Within(s, t)
    PROVE  /\ Within(After(d, s), After(d, t))
           /\ RowWithin(Row(d, After(d, s)), Row(d, After(d, t)))
<1>1. Status(d) \in Kinds
  BY StatusType
<1>2. CASE Status(d) = "halted"
  BY <1>2 DEF After, Row, Carried, Within, RowWithin, States, UnknownState, State, Unknown
<1>3. CASE Status(d) = "absent"
  BY <1>3 DEF After, Row, WithoutBar, Carried, Within, RowWithin, States, UnknownState, State, Unknown
<1>4. CASE Status(d) = "bad"
  BY <1>4 DEF After, Row, Within, RowWithin, States, UnknownState, State, Unknown
<1>5. CASE Status(d) \in {"debut", "flat"}
  BY <1>5 DEF After, Row, Within, RowWithin, States, State, Unknown
<1>6. CASE Status(d) = "up"
  BY <1>6 DEF After, Row, Carried, Within, RowWithin, States, State, Unknown
<1> QED
  BY <1>1, <1>2, <1>3, <1>4, <1>5, <1>6 DEF Kinds

(* A state that says the same gives the same. *)
LEMMA AfterSame ==
    ASSUME DataTypes, NEW d \in Days, NEW s \in States, NEW t \in States,
           t.day = PreviousSession(d), Same(s, t)
    PROVE  After(d, s) = After(d, t)
<1>1. Status(d) \in Kinds
  BY StatusType
<1>2. CASE Status(d) = "halted"
  <2>1. CASE s = t
    BY <2>1
  <2>2. CASE s.up = "unknown" /\ t.up = "unknown"
    <3>1. s.n = Unknown /\ s.gaps = 0 /\ t.n = Unknown /\ t.gaps = 0
      BY <2>2 DEF States
    <3>2. [s EXCEPT !.day = d] = State(d, "unknown", Unknown, 0)
      BY <2>2, <3>1 DEF States, State
    <3>3. [t EXCEPT !.day = d] = State(d, "unknown", Unknown, 0)
      BY <2>2, <3>1 DEF States, State
    <3> QED
      BY <1>2, <3>2, <3>3 DEF After, UnknownState
  <2> QED
    BY <2>1, <2>2 DEF Same
<1>3. CASE Status(d) # "halted"
  BY <1>3, <1>1 DEF After, WithoutBar, Carried, Same, Kinds
<1> QED
  BY <1>2, <1>3

(* What is reloaded of a day, from a row that is right. *)
LEMMA LoadedWithin ==
    ASSUME DataTypes, NEW d \in Days, NEW t \in States,
           RowWithin(published[d], Row(d, After(d, t))), published[d].class # "outside"
    PROVE  /\ Loaded(d) \in States /\ Loaded(d).day = d /\ Within(Loaded(d), After(d, t))
           /\ published[d] = Row(d, After(d, t)) => Loaded(d) = After(d, t)
           /\ Status(d) # "halted"
<1> DEFINE full == After(d, t)
<1>0. full \in States /\ full.day = d /\ d \in 0..LastDay
  BY AfterType, DaysFinite DEF Days
<1>1. Status(d) \in Kinds
  BY StatusType
<1>2. CASE Status(d) = "halted"
  <2>1. Row(d, full).class = "outside"
    BY <1>2 DEF Row
  <2>2. published[d] = Row(d, full)
    BY <2>1 DEF RowWithin
  <2> QED
    BY <2>1, <2>2
<1>3. CASE Status(d) = "absent"
  <2>1. full = UnknownState(d) \/ (full.up = "yes" /\ full.n > 0)
    BY <1>3 DEF After, WithoutBar, State
  <2>2. CASE full.up = "yes"
    <3>1. Row(d, full) = [class |-> "gap", n |-> full.n, gaps |-> full.gaps]
      BY <1>3, <2>2 DEF Row
    <3>2. CASE published[d] = Row(d, full)
      <4>1. Loaded(d) = State(d, "yes", full.n, full.gaps)
        BY <3>1, <3>2 DEF Loaded
      <4>2. Loaded(d) = full
        BY <1>0, <2>2, <4>1 DEF State, States
      <4> QED
        BY <1>0, <1>3, <4>2 DEF Within
    <3>3. CASE published[d] # Row(d, full)
      <4>1. published[d].class = "unknown"
        BY <3>1, <3>3 DEF RowWithin
      <4>2. Loaded(d) = State(d, "unknown", Unknown, 0)
        BY <4>1 DEF Loaded
      <4> QED
        BY <1>0, <1>3, <3>3, <4>2 DEF State, States, Within, Unknown
    <3> QED
      BY <3>2, <3>3
  <2>3. CASE full = UnknownState(d)
    <3>1. Row(d, full).class = "unknown"
      BY <1>3, <2>3 DEF Row, UnknownState, State
    <3>2. published[d].class = "unknown"
      BY <3>1 DEF RowWithin
    <3>3. Loaded(d) = full
      BY <2>3, <3>2 DEF Loaded, UnknownState
    <3> QED
      BY <1>0, <1>3, <3>3 DEF Within
  <2> QED
    BY <2>1, <2>2, <2>3
<1>4. CASE Status(d) = "bad"
  <2>1. full = UnknownState(d) /\ Row(d, full).class = "unknown"
    BY <1>4 DEF After, Row
  <2>2. published[d].class = "unknown"
    BY <2>1 DEF RowWithin
  <2>3. Loaded(d) = full
    BY <2>1, <2>2 DEF Loaded, UnknownState
  <2> QED
    BY <1>0, <1>4, <2>3 DEF Within
<1>5. CASE Status(d) \in {"debut", "flat"}
  <2>1. full = State(d, "no", 0, 0) /\ Row(d, full).class \in {"debut", "quiet"}
    BY <1>5 DEF After, Row
  <2>2. published[d].class \in {"debut", "quiet"}
    BY <2>1 DEF RowWithin
  <2>3. Loaded(d) = full
    BY <2>1, <2>2 DEF Loaded
  <2> QED
    BY <1>0, <1>5, <2>3 DEF Within
<1>6. CASE Status(d) = "up"
  <2>1. full.up = "yes" /\ Row(d, full) = [class |-> "event", n |-> full.n, gaps |-> full.gaps]
    BY <1>6 DEF After, Row, State
  <2>2. CASE published[d] = Row(d, full)
    <3>1. Loaded(d) = State(d, "yes", full.n, full.gaps)
      BY <2>1, <2>2 DEF Loaded
    <3>2. Loaded(d) = full
      BY <1>0, <2>1, <3>1 DEF State, States
    <3> QED
      BY <1>0, <1>6, <3>2 DEF Within
  <2>3. CASE published[d] # Row(d, full)
    <3>1. published[d].class = "event" /\ published[d].n = Unknown /\ published[d].gaps = 0
      BY <2>1, <2>3 DEF RowWithin
    <3>2. Loaded(d) = State(d, "yes", Unknown, 0)
      BY <3>1 DEF Loaded
    <3> QED
      BY <1>0, <1>6, <2>1, <2>3, <3>2 DEF State, States, Within, Unknown
  <2> QED
    BY <2>2, <2>3
<1> QED
  BY <1>1, <1>2, <1>3, <1>4, <1>5, <1>6 DEF Kinds

-----------------------------------------------------------------------------
(* Sessions, and the complete computation over them. *)

LEMMA SessionsAreDays ==
    ASSUME DataTypes
    PROVE  Sessions \subseteq Days /\ \A s \in Sessions : s \in Nat
  BY DaysFinite DEF DataTypes, Sessions

LEMMA SessionBefore ==
    ASSUME DataTypes, NEW d \in Days
    PROVE  /\ PreviousSession(d) \in {0} \cup Sessions
           /\ PreviousSession(d) \in 0..LastDay /\ PreviousSession(d) < d
           /\ \A s \in Sessions : s < d => s <= PreviousSession(d)
<1> DEFINE S == {0} \cup {s \in Sessions : s < d}
<1>1. S \in SUBSET (0..LastDay) /\ S # {} /\ d \in Nat /\ 0 < d
  BY SessionsAreDays, DaysFinite DEF Days
<1>2. Max(S) \in S /\ \A j \in S : j <= Max(S)
  <2> HIDE DEF S
  <2> QED
    BY <1>1, MaxIsLargest
<1>3. PreviousSession(d) = Max(S)
  BY DEF PreviousSession
<1>4. \A i \in S : i \in {0} \cup Sessions /\ i < d /\ i \in 0..LastDay
  BY <1>1
<1> QED
  <2> HIDE DEF S
  <2> QED
    <3>1. \A s \in Sessions : s < d => s \in S
      BY DEF S
    <3> QED
      BY <1>2, <1>3, <1>4, <3>1

LEMMA SessionBeforeIs ==
    ASSUME DataTypes, NEW d \in Days, NEW p \in {0} \cup Sessions, p < d,
           \A s \in Sessions : s < d => s <= p
    PROVE  p = PreviousSession(d)
<1>1. p \in Nat /\ Sessions \subseteq Nat
  BY SessionsAreDays
<1>2. PreviousSession(d) <= p
  BY <1>1, SessionBefore
<1>3. p <= PreviousSession(d)
  BY <1>1, SessionBefore
<1> QED
  BY <1>1, <1>2, <1>3, SessionBefore

LEMMA CompleteTypes ==
    ASSUME DataTypes
    PROVE  \A d \in 0..LastDay :
              /\ Complete[d] \in States
              /\ Complete[d].day \in {0} \cup Sessions /\ Complete[d].day <= d
              /\ \A s \in Sessions : s <= d => s <= Complete[d].day
<1> DEFINE Fine(d) == /\ Complete[d] \in States
                      /\ Complete[d].day \in {0} \cup Sessions /\ Complete[d].day <= d
                      /\ \A s \in Sessions : s <= d => s <= Complete[d].day
           Wrong == {d \in 0..LastDay : ~Fine(d)}
<1>1. SUFFICES ASSUME Wrong # {} PROVE FALSE
  BY DEF Wrong
<1>2. LastDay \in Nat /\ Sessions \subseteq Days
  BY DaysFinite, SessionsAreDays
<1>3. PICK d \in Wrong : \A k \in Wrong : d <= k
  <2>1. Wrong \in SUBSET Nat
    BY <1>2
  <2> HIDE DEF Wrong
  <2> QED
    BY <1>1, <2>1, Smallest
<1>4. d \in 0..LastDay /\ ~Fine(d)
  BY <1>3
<1>5. CASE d = 0
  <2>1. Complete[d] = NoState
    BY <1>4, <1>5, CompleteEquation
  <2>2. \A s \in Sessions : ~(s <= d)
    BY <1>2, <1>5 DEF Days
  <2> QED
    BY <1>2, <1>4, <1>5, <2>1, <2>2 DEF NoState, State, States, Unknown
<1>6. CASE d # 0
  <2>1. d \in Days /\ d - 1 \in 0..LastDay /\ Fine(d - 1)
    <3>1. d \in Days /\ d - 1 \in 0..LastDay /\ ~(d <= d - 1)
      BY <1>2, <1>4, <1>6 DEF Days
    <3>2. d - 1 \notin Wrong
      BY <1>3, <3>1
    <3> HIDE DEF Fine
    <3> QED
      BY <3>1, <3>2
  <2>2. CASE d \in Sessions
    <3>1. Complete[d] = After(d, Complete[d - 1])
      BY <1>4, <1>6, <2>2, CompleteEquation
    <3>2. Complete[d] \in States /\ Complete[d].day = d
      BY <2>1, <3>1, AfterType
    <3> QED
      BY <1>2, <1>4, <2>1, <2>2, <3>2 DEF Days
  <2>3. CASE d \notin Sessions
    <3>1. Complete[d] = Complete[d - 1]
      BY <1>4, <1>6, <2>3, CompleteEquation
    <3>2. \A s \in Sessions : s <= d => s <= d - 1
      BY <1>2, <2>1, <2>3 DEF Days
    <3>3. Complete[d - 1].day \in Nat
      BY <2>1 DEF States
    <3> QED
      BY <1>2, <1>4, <2>1, <3>1, <3>2, <3>3 DEF Days
  <2> QED
    BY <2>2, <2>3
<1> QED
  BY <1>5, <1>6

LEMMA CompleteOfSession ==
    ASSUME DataTypes, NEW d \in Days
    PROVE  /\ Complete[d - 1] \in States /\ Complete[d - 1].day = PreviousSession(d)
           /\ d \in Sessions => Complete[d] = After(d, Complete[d - 1])
<1>1. d \in 0..LastDay /\ d - 1 \in 0..LastDay /\ d # 0 /\ d \in Nat
  BY DaysFinite DEF Days
<1>2. /\ Complete[d - 1] \in States
      /\ Complete[d - 1].day \in {0} \cup Sessions /\ Complete[d - 1].day <= d - 1
      /\ \A s \in Sessions : s <= d - 1 => s <= Complete[d - 1].day
  BY <1>1, CompleteTypes
<1>3. \A s \in Sessions : s < d => s <= d - 1
  BY <1>1, SessionsAreDays, DaysFinite
<1>4. Complete[d - 1].day < d
  BY <1>1, <1>2 DEF States
<1>5. Complete[d - 1].day = PreviousSession(d)
  <2> DEFINE p == Complete[d - 1].day
  <2>1. p \in {0} \cup Sessions /\ p < d /\ \A s \in Sessions : s < d => s <= p
    BY <1>2, <1>3, <1>4
  <2> HIDE DEF p
  <2>2. p = PreviousSession(d)
    BY <2>1, SessionBeforeIs
  <2> QED
    BY <2>2 DEF p
<1> QED
  BY <1>1, <1>2, <1>5, CompleteEquation

(* Suspended sessions leave the state before them. *)
LEMMA SuspensionsKeep ==
    ASSUME DataTypes, NEW c \in 0..LastDay, NEW e \in 0..LastDay, c <= e,
           \A s \in Sessions : c < s /\ s <= e => Status(s) = "halted"
    PROVE  /\ Complete[e].up = Complete[c].up /\ Complete[e].n = Complete[c].n
           /\ Complete[e].gaps = Complete[c].gaps
<1> DEFINE Kept(x) == /\ Complete[x].up = Complete[c].up /\ Complete[x].n = Complete[c].n
                      /\ Complete[x].gaps = Complete[c].gaps
           Wrong == {x \in c..e : ~Kept(x)}
<1>1. SUFFICES ASSUME Wrong # {} PROVE FALSE
  BY DEF Wrong
<1>2. LastDay \in Nat /\ Sessions \subseteq Days
  BY DaysFinite, SessionsAreDays
<1>3. PICK x \in Wrong : \A k \in Wrong : x <= k
  <2>1. Wrong \in SUBSET Nat
    BY <1>2
  <2> HIDE DEF Wrong
  <2> QED
    BY <1>1, <2>1, Smallest
<1>4. x \in c..e /\ ~Kept(x) /\ x # c
  BY <1>3
<1>5. x \in Days /\ x - 1 \in c..e /\ x - 1 \in 0..LastDay /\ ~(x <= x - 1) /\ x \in 0..LastDay
  BY <1>2, <1>4 DEF Days
<1>6. Kept(x - 1)
  <2>1. x - 1 \notin Wrong
    BY <1>3, <1>5
  <2> HIDE DEF Kept
  <2> QED
    BY <1>5, <2>1
<1>7. CASE x \in Sessions
  <2>1. Status(x) = "halted"
    BY <1>2, <1>4, <1>7, <1>5
  <2>2. /\ Complete[x] = After(x, Complete[x - 1]) /\ Complete[x - 1] \in States
        /\ Carried(x, Complete[x - 1])
    BY <1>5, <1>7, CompleteOfSession DEF Carried
  <2>3. Complete[x] = [Complete[x - 1] EXCEPT !.day = x]
    BY <2>1, <2>2 DEF After
  <2>4. /\ Complete[x].up = Complete[x - 1].up /\ Complete[x].n = Complete[x - 1].n
        /\ Complete[x].gaps = Complete[x - 1].gaps
    BY <2>2, <2>3 DEF States
  <2> QED
    BY <1>4, <1>6, <2>4
<1>8. CASE x \notin Sessions
  <2>1. Complete[x] = Complete[x - 1]
    BY <1>5, <1>8, CompleteEquation DEF Days
  <2> QED
    BY <1>4, <1>6, <2>1
<1> QED
  BY <1>7, <1>8

(* The state before a session is that of the session before it. *)
LEMMA CompleteOfPrevious ==
    ASSUME DataTypes, NEW d \in Days
    PROVE  Complete[PreviousSession(d)] = Complete[d - 1]
<1> DEFINE p == PreviousSession(d)
<1>1. /\ p \in 0..LastDay /\ d - 1 \in 0..LastDay /\ p <= d - 1
      /\ \A s \in Sessions : p < s /\ s <= d - 1 => FALSE
  <2>1. /\ p \in 0..LastDay /\ p < d /\ d \in 1..LastDay
        /\ \A s \in Sessions : s < d => s <= p
    BY SessionBefore DEF Days
  <2>2. Sessions \subseteq Nat /\ LastDay \in Nat
    BY DaysFinite, SessionsAreDays
  <2> HIDE DEF p
  <2> QED
    BY <2>1, <2>2
<1>2. /\ Complete[d - 1].up = Complete[p].up /\ Complete[d - 1].n = Complete[p].n
      /\ Complete[d - 1].gaps = Complete[p].gaps
  <2> HIDE DEF p
  <2> QED
    BY <1>1, SuspensionsKeep
<1>3. Complete[d - 1] \in States /\ Complete[d - 1].day = p
  BY CompleteOfSession
<1>4. Complete[p] \in States /\ Complete[p].day = p
  <2>1. /\ Complete[p] \in States /\ Complete[p].day <= p
        /\ \A s \in Sessions : s <= p => s <= Complete[p].day
    <3> HIDE DEF p
    <3> QED
      BY <1>1, CompleteTypes
  <2>2. p = 0 \/ p \in Sessions
    BY SessionBefore
  <2> HIDE DEF p
  <2> QED
    BY <1>1, <2>1, <2>2 DEF States
<1>5. Complete[p] = Complete[d - 1]
  <2> HIDE DEF p
  <2> QED
    BY <1>2, <1>3, <1>4 DEF States
<1> QED
  BY <1>5

-----------------------------------------------------------------------------
(* What changes from a day on leaves what is before it. *)

LEMMA CompleteEquationNext ==
    (\A d \in 0..LastDay :
        Complete[d] = IF d = 0 THEN NoState
                      ELSE IF d \in Sessions THEN After(d, Complete[d - 1]) ELSE Complete[d - 1])'
  BY CompleteEquation, PTL

LEMMA DaysBeforeKeep ==
    ASSUME DataTypes, DataTypes', NEW r \in Nat,
           \A d \in Days : d < r => Status(d)' = Status(d) /\ (d \in Sessions' <=> d \in Sessions)
    PROVE  /\ \A d \in Days : d < r => \A s : After(d, s)' = After(d, s) /\ Row(d, s)' = Row(d, s)
           /\ \A d \in 0..LastDay : d < r => Complete'[d] = Complete[d]
<1>1. LastDay \in Nat /\ Sessions \subseteq Days /\ Sessions' \subseteq Days /\ Days \subseteq Nat
  BY DaysFinite, SessionsAreDays DEF DataTypes, Sessions
<1>2. ASSUME NEW d \in Days, d < r
      PROVE  \A s : After(d, s)' = After(d, s) /\ Row(d, s)' = Row(d, s)
  <2>1. {s \in Sessions' : s < d} = {s \in Sessions : s < d}
    <3>1. \A s \in Days : s < d => s < r
      BY <1>1, <1>2
    <3>2. \A s \in Days : s < d => (s \in Sessions' <=> s \in Sessions)
      BY <3>1
    <3> QED
      BY <1>1, <3>2
  <2>2. PreviousSession(d)' = PreviousSession(d)
    BY <2>1 DEF PreviousSession
  <2>3. Status(d)' = Status(d)
    BY <1>2
  <2>4. ASSUME NEW s PROVE Carried(d, s)' = Carried(d, s)
    BY <2>2 DEF Carried
  <2>5. ASSUME NEW s PROVE After(d, s)' = After(d, s)
    BY <2>3, <2>4 DEF After, WithoutBar, UnknownState, State
  <2>6. ASSUME NEW s PROVE Row(d, s)' = Row(d, s)
    BY <2>3 DEF Row
  <2> QED
    BY <2>5, <2>6
<1> DEFINE Wrong == {d \in 0..LastDay : d < r /\ Complete'[d] # Complete[d]}
<1>3. ASSUME Wrong # {} PROVE FALSE
  <2>1. Wrong \in SUBSET Nat
    BY <1>1
  <2>2. PICK d \in Wrong : \A k \in Wrong : d <= k
    <3> HIDE DEF Wrong
    <3> QED
      BY <1>3, <2>1, Smallest
  <2>3. d \in 0..LastDay /\ d < r /\ Complete'[d] # Complete[d]
    BY <2>2
  <2>4. /\ Complete[d] = IF d = 0 THEN NoState
                         ELSE IF d \in Sessions THEN After(d, Complete[d - 1]) ELSE Complete[d - 1]
        /\ Complete'[d] = IF d = 0 THEN NoState
                          ELSE IF d \in Sessions' THEN After(d, Complete[d - 1])'
                          ELSE Complete'[d - 1]
    BY <2>3, CompleteEquation, CompleteEquationNext DEF NoState, State
  <2>5. d # 0
    BY <2>3, <2>4
  <2>6. d \in Days /\ d - 1 \in 0..LastDay /\ ~(d <= d - 1) /\ d - 1 < r
    BY <1>1, <2>3, <2>5 DEF Days
  <2>7. Complete'[d - 1] = Complete[d - 1]
    BY <2>2, <2>6
  <2> QED
    BY <1>2, <2>3, <2>4, <2>5, <2>6, <2>7
<1> QED
  BY <1>2, <1>3

-----------------------------------------------------------------------------
(* The state before a computation, from what earlier ones have published. *)

LEMMA FreshBefore ==
    ASSUME NEW d \in Days
    PROVE  /\ LatestFresh(d) \in {0} \cup Fresh
           /\ LatestFresh(d) \in 0..LastDay /\ LatestFresh(d) < d
           /\ \A p \in Fresh : p < d => p <= LatestFresh(d)
<1> DEFINE S == {0} \cup {p \in Fresh : p < d}
<1>1. S \in SUBSET (0..LastDay) /\ S # {} /\ d \in Nat /\ 0 < d
  BY DaysFinite DEF Days, Fresh, Published
<1>2. Max(S) \in S /\ \A j \in S : j <= Max(S)
  <2> HIDE DEF S
  <2> QED
    BY <1>1, MaxIsLargest
<1>3. LatestFresh(d) = Max(S)
  BY DEF LatestFresh
<1>4. /\ \A i \in S : i \in {0} \cup Fresh /\ i < d /\ i \in 0..LastDay
      /\ \A p \in Fresh : p < d => p \in S
  BY <1>1
<1> QED
  <2> HIDE DEF S
  <2> QED
    BY <1>2, <1>3, <1>4

(* Days before a suspension that the facts and the calendar know. *)
Suspending(c, p) == IsSuspension(c, p) /\ LatestFresh(Min(Suspended(c, p))) = c

LEMMA FirstSuspended ==
    ASSUME DataTypes, NEW p \in Days, NEW c \in 1..(p - 1), IsSuspension(c, p)
    PROVE  /\ Min(Suspended(c, p)) \in Suspended(c, p) /\ Min(Suspended(c, p)) \in Days
           /\ c < Min(Suspended(c, p)) /\ Min(Suspended(c, p)) <= p
           /\ \A x \in Suspended(c, p) : Min(Suspended(c, p)) <= x
<1> DEFINE S == Suspended(c, p)
<1>1. p \in Nat /\ LastDay \in Nat /\ p \in 1..LastDay /\ c \in Nat
  BY DaysFinite DEF Days
<1>2. p \in S
  BY <1>1 DEF Suspended, IsSuspension
<1>3. /\ S \in SUBSET Nat
      /\ \A x \in S : x \in Days /\ c < x /\ x <= p
  BY <1>1 DEF Suspended, Days
<1>4. Min(S) \in S /\ \A j \in S : Min(S) <= j
  <2> HIDE DEF S
  <2> QED
    BY <1>2, <1>3, MinIsSmallest
<1> HIDE DEF S
<1>5. Min(S) \in S /\ Min(S) \in Days /\ c < Min(S) /\ Min(S) <= p
  BY <1>3, <1>4
<1> QED
  BY <1>4, <1>5 DEF S

(* The sessions of a suspension are suspended. *)
LEMMA SuspensionHalts ==
    ASSUME DataTypes, NEW p \in Days, NEW c \in 1..(p - 1), IsSuspension(c, p),
           NEW s \in Sessions, c < s, s <= p
    PROVE  Status(s) = "halted"
<1>1. p \in Nat /\ c \in Nat /\ s \in Nat
  BY DaysFinite, SessionsAreDays
<1>2. CASE s = p
  BY <1>2 DEF IsSuspension, Status
<1>3. CASE s # p
  <2>1. s \in (c + 1)..(p - 1)
    BY <1>1, <1>3
  <2>2. calendar[s] # "closed"
    BY DEF Sessions, DataTypes
  <2> QED
    BY <2>1, <2>2 DEF IsSuspension, Status
<1> QED
  BY <1>2, <1>3

LEMMA SuspendingIsFresh ==
    ASSUME DataTypes, NEW p \in Days, NEW c \in 1..(p - 1), Suspending(c, p)
    PROVE  c \in Fresh /\ c \in Days /\ c < p
<1>1. p \in Nat /\ c \in Nat /\ c # 0 /\ c < p /\ c \in Days
  BY DaysFinite DEF Days
<1>2. Min(Suspended(c, p)) \in Days
  BY FirstSuspended DEF Suspending
<1>3. c \in {0} \cup Fresh
  BY <1>2, FreshBefore DEF Suspending
<1> QED
  BY <1>1, <1>3

LEMMA PreviousCases ==
    ASSUME DataTypes, NEW d \in Days
    PROVE  LET p == LatestFresh(d)
               before == {c \in 1..(p - 1) : Suspending(c, p)}
           IN  \/ Previous(d) = NoState
                  /\ (p = 0 \/ (published[p].class = "outside"
                                /\ (before = {} \/ Loaded(Max(before)) = NoState)))
               \/ Previous(d) = Loaded(p) /\ p # 0 /\ published[p].class # "outside"
               \/ /\ Previous(d) = [Loaded(Max(before)) EXCEPT !.day = p]
                  /\ p # 0 /\ before # {} /\ Loaded(Max(before)) # NoState
                  /\ published[p].class = "outside"
  BY DEF Previous, Suspending

LEMMA LatestSuspending ==
    ASSUME DataTypes, NEW p \in Days,
           {c \in 1..(p - 1) : Suspending(c, p)} # {}
    PROVE  LET before == {c \in 1..(p - 1) : Suspending(c, p)}
           IN  /\ Max(before) \in 1..(p - 1) /\ Suspending(Max(before), p)
               /\ \A c \in before : c <= Max(before)
<1> DEFINE before == {c \in 1..(p - 1) : Suspending(c, p)}
<1>1. before \in SUBSET (0..LastDay)
  BY DaysFinite DEF Days
<1>2. Max(before) \in before /\ \A j \in before : j <= Max(before)
  <2> HIDE DEF before
  <2> QED
    BY <1>1, MaxIsLargest DEF before
<1> QED
  BY <1>2

(* It says what the complete computation does, or less. *)
LEMMA PreviousWithin ==
    ASSUME DataTypes, Fresh \subseteq Sessions, NEW d \in Days,
           \A e \in Fresh : e < d => RowWithin(published[e], Row(e, Complete[e]))
    PROVE  Previous(d) \in States /\ Within(Previous(d), Complete[Previous(d).day])
<1> DEFINE p == LatestFresh(d)
           before == {c \in 1..(p - 1) : Suspending(c, p)}
<1>1. CASE Previous(d) = NoState
  BY <1>1, DaysFinite DEF NoState, State, States, Unknown, Within
<1>2. ASSUME NEW e \in Fresh, e < d, published[e].class # "outside"
      PROVE  /\ Loaded(e) \in States /\ Loaded(e).day = e /\ Within(Loaded(e), Complete[e])
             /\ e \in 0..LastDay
  <2>1. e \in Sessions /\ e \in Days /\ e \in 0..LastDay
    BY DaysFinite DEF Fresh, Published, Days
  <2>2. Complete[e - 1] \in States /\ Complete[e] = After(e, Complete[e - 1])
    BY <2>1, CompleteOfSession
  <2>3. RowWithin(published[e], Row(e, After(e, Complete[e - 1])))
    BY <1>2, <2>2
  <2> QED
    BY <1>2, <2>1, <2>2, <2>3, LoadedWithin
<1>3. CASE Previous(d) = Loaded(p) /\ p # 0 /\ published[p].class # "outside"
  <2>1. p \in Fresh /\ p < d
    BY <1>3, FreshBefore
  <2> HIDE DEF p
  <2> QED
    BY <1>2, <1>3, <2>1
<1>4. CASE /\ Previous(d) = [Loaded(Max(before)) EXCEPT !.day = p]
           /\ p # 0 /\ before # {} /\ Loaded(Max(before)) # NoState
  <2> DEFINE c == Max(before)
  <2>1. p \in Fresh /\ p < d /\ p \in Days /\ p \in 0..LastDay
    BY <1>4, FreshBefore DEF Fresh, Published
  <2>2. c \in 1..(p - 1) /\ Suspending(c, p)
    <3> HIDE DEF p
    <3> QED
      BY <1>4, <2>1, LatestSuspending
  <2> HIDE DEF c, p
  <2>3. c \in Fresh /\ c \in Days /\ c < p /\ IsSuspension(c, p)
    BY <2>1, <2>2, SuspendingIsFresh DEF Suspending
  <2>4. published[c].class # "outside"
    BY <1>4 DEF Loaded, c
  <2>5. c < d
    BY <2>1, <2>3, DaysFinite
  <2>6. Loaded(c) \in States /\ Loaded(c).day = c /\ Within(Loaded(c), Complete[c])
    BY <1>2, <2>3, <2>4, <2>5
  <2>7. \A s \in Sessions : c < s /\ s <= p => Status(s) = "halted"
    BY <2>1, <2>2, <2>3, SuspensionHalts
  <2>8. /\ Complete[p].up = Complete[c].up /\ Complete[p].n = Complete[c].n
        /\ Complete[p].gaps = Complete[c].gaps
    <3>1. c \in 0..LastDay /\ c <= p
      BY <2>1, <2>3, DaysFinite DEF Days
    <3> QED
      BY <2>1, <2>7, <3>1, SuspensionsKeep
  <2>9. Previous(d) = [Loaded(c) EXCEPT !.day = p]
    BY <1>4 DEF c
  <2>10. /\ Previous(d) \in States /\ Previous(d).day = p /\ Previous(d).up = Loaded(c).up
         /\ Previous(d).n = Loaded(c).n /\ Previous(d).gaps = Loaded(c).gaps
    BY <2>1, <2>6, <2>9 DEF States
  <2> QED
    BY <2>6, <2>8, <2>10 DEF Within
<1> QED
  BY <1>1, <1>3, <1>4, PreviousCases

(* Up to a day, the calendar knows the days, and the facts the suspensions. *)
WellKnown(d) ==
    \A x \in 1..d : calendar[x] # "none" /\ (bars[x] = "halted" => x \in facts)

(* After a history without a missing or marked day, it says the same. *)
LEMMA PreviousSame ==
    ASSUME DataTypes, Fresh \subseteq Sessions, NEW d \in Days, WellKnown(d - 1),
           \A s \in Sessions : s < d => s \in Fresh,
           \A e \in Fresh : e < d => published[e] = Row(e, Complete[e])
    PROVE  Same(Previous(d), Complete[d - 1])
<1> DEFINE p == LatestFresh(d)
           before == {c \in 1..(p - 1) : Suspending(c, p)}
<1>1. p = PreviousSession(d) /\ p \in {0} \cup Fresh /\ p \in 0..LastDay /\ p < d
  <2>1. /\ p \in {0} \cup Fresh /\ p \in 0..LastDay /\ p < d
        /\ \A s \in Fresh : s < d => s <= p
    BY FreshBefore
  <2>2. \A s \in Sessions : s < d => s <= p
    BY <2>1
  <2> HIDE DEF p
  <2> QED
    BY <2>1, <2>2, SessionBeforeIs
<1>2. Complete[d - 1] = Complete[p]
  BY <1>1, CompleteOfPrevious
<1> HIDE DEF p
<1>3. d \in Nat /\ LastDay \in Nat /\ p \in Nat /\ d \in Days
  BY <1>1, DaysFinite
<1>4. ASSUME NEW e \in Fresh, e < d
      PROVE  /\ e \in Days /\ e \in Sessions /\ e \in 1..(d - 1)
             /\ published[e].class = "outside" <=> Status(e) = "halted"
             /\ Status(e) # "halted" => Loaded(e) = Complete[e]
             /\ Complete[e] \in States /\ Complete[e].day = e
  <2>1. e \in Sessions /\ e \in Days /\ e \in 1..(d - 1)
    BY <1>3, <1>4 DEF Fresh, Published, Days
  <2>2. Complete[e - 1] \in States /\ Complete[e] = After(e, Complete[e - 1])
    BY <2>1, CompleteOfSession
  <2>3. published[e] = Row(e, Complete[e])
    BY <1>4
  <2>4. published[e].class = "outside" <=> Status(e) = "halted"
    BY <2>3 DEF Row
  <2>5. Status(e) # "halted" => Loaded(e) = Complete[e]
    BY <2>1, <2>2, <2>3, <2>4, LoadedWithin DEF RowWithin
  <2> QED
    BY <2>1, <2>2, <2>4, <2>5, AfterType
<1>5. CASE p = 0
  <2>1. Previous(d) = NoState
    BY <1>5 DEF Previous, p
  <2>2. Complete[0] = NoState
    BY <1>3, CompleteEquation
  <2> QED
    BY <1>2, <1>5, <2>1, <2>2 DEF Same
<1>6. ASSUME p # 0 PROVE p \in Fresh /\ p < d
  BY <1>1, <1>6
<1>7. CASE p # 0 /\ published[p].class # "outside"
  <2>1. Previous(d) = Loaded(p)
    BY <1>7 DEF Previous, p
  <2> QED
    BY <1>2, <1>4, <1>6, <1>7, <2>1 DEF Same
<1>8. CASE p # 0 /\ published[p].class = "outside"
  <2>1. p \in Fresh /\ p < d /\ p \in Days /\ p \in Sessions /\ Status(p) = "halted"
    BY <1>4, <1>6, <1>8
  <2>2. ASSUME NEW s \in Sessions, s < d, Status(s) = "halted" PROVE s \in facts
    <3>1. s \in 1..(d - 1)
      BY <1>4, <2>2
    <3> QED
      BY <2>2, <3>1 DEF WellKnown, Status
  <2>3. ASSUME NEW s \in Sessions, s < d PROVE calendar[s] = "open" /\ s \in Fresh /\ s \in Nat
    <3>1. s \in 1..(d - 1) /\ s \in Fresh
      BY <1>4, <2>3
    <3>2. calendar[s] # "none" /\ calendar[s] # "closed"
      BY <3>1 DEF WellKnown, Sessions, DataTypes
    <3> QED
      BY <3>1, <3>2, SessionsAreDays DEF DataTypes
  <2> DEFINE N == {s \in Sessions : s < p /\ Status(s) # "halted"}
  <2>4. ASSUME NEW c \in before PROVE c \in N
    <3>1. c \in Fresh /\ c \in Days /\ c < p /\ c \notin facts
      BY <2>1, SuspendingIsFresh DEF Suspending, IsSuspension
    <3>2. c \in Sessions /\ c < d
      <4>1. c \in Sessions
        BY <3>1
      <4> QED
        BY <1>1, <1>3, <3>1, <4>1, SessionsAreDays
    <3> QED
      BY <2>2, <3>1, <3>2
  <2>5. CASE N = {}
    <3>1. before = {}
      BY <2>4, <2>5
    <3>2. Previous(d) = NoState
      BY <1>8, <3>1 DEF Previous, Suspending, p
    <3>3. \A s \in Sessions : 0 < s /\ s <= p => Status(s) = "halted"
      BY <1>3, <2>1, <2>5, SessionsAreDays
    <3>4. Complete[p].up = Complete[0].up
      <4>1. 0 \in 0..LastDay /\ 0 <= p
        BY <1>3
      <4> QED
        BY <1>1, <3>3, <4>1, SuspensionsKeep
    <3>5. Complete[0] = NoState
      BY <1>3, CompleteEquation
    <3> QED
      BY <1>2, <3>2, <3>4, <3>5 DEF Same, NoState, State
  <2>6. CASE N # {}
    <3> DEFINE c == Max(N)
    <3>1. c \in N /\ \A s \in N : s <= c
      <4>1. N \in SUBSET (0..LastDay)
        BY SessionsAreDays, DaysFinite DEF Days
      <4> HIDE DEF N
      <4> QED
        BY <2>6, <4>1, MaxIsLargest
    <3> HIDE DEF c
    <3>2. /\ c \in Sessions /\ c < p /\ Status(c) # "halted" /\ c \in Nat /\ c < d
          /\ c \in Fresh /\ calendar[c] = "open" /\ c \in Days
      <4>1. c \in Sessions /\ c < p /\ Status(c) # "halted" /\ c \in Nat /\ c \in Days
        BY <3>1, SessionsAreDays
      <4>2. c < d
        BY <1>1, <1>3, <4>1
      <4> QED
        BY <2>3, <4>1, <4>2
    <3>3. c \in 1..(p - 1)
      BY <1>3, <3>2 DEF Days
    <3>4. ASSUME NEW s \in Sessions, c < s, s <= p
          PROVE  Status(s) = "halted" /\ s \in facts /\ s < d
      <4>1. Status(s) = "halted"
        <5>1. s = p \/ s < p
          BY <1>3, <3>4, SessionsAreDays
        <5>2. ~(s <= c)
          BY <3>2, <3>4, SessionsAreDays
        <5> QED
          BY <2>1, <3>1, <5>1, <5>2
      <4>2. s < d
        BY <1>1, <1>3, <3>4, SessionsAreDays
      <4> QED
        BY <2>2, <4>1, <4>2
    <3>5. IsSuspension(c, p)
      <4>1. c \notin facts /\ p \in facts
        BY <2>1, <2>2, <3>2 DEF Status
      <4>2. ASSUME NEW x \in (c + 1)..(p - 1)
            PROVE  calendar[x] = "closed" \/ (calendar[x] = "open" /\ x \in facts)
        <5>1. x \in 1..(d - 1) /\ x \in Days /\ c < x /\ x <= p
          BY <1>1, <1>3, <3>2, <3>3 DEF Days
        <5>2. calendar[x] \in {"open", "closed"}
          BY <5>1 DEF WellKnown, DataTypes
        <5>3. ASSUME calendar[x] = "open" PROVE x \in Sessions
          <6>1. PICK m \in market : m <= c
            <7>1. c \in market \/ \E m \in market : m <= c
              BY <3>2 DEF Sessions
            <7> QED
              BY <3>2, <7>1
          <6>2. m <= x
            <7>1. m \in Nat /\ x \in Nat
              BY <5>1, DaysFinite DEF DataTypes
            <7> QED
              BY <3>2, <5>1, <6>1, <7>1
          <6> QED
            BY <5>1, <5>3, <6>1, <6>2 DEF Sessions
        <5> QED
          BY <3>4, <5>1, <5>2, <5>3
      <4> QED
        BY <3>2, <4>1, <4>2 DEF IsSuspension
    <3>6. LatestFresh(Min(Suspended(c, p))) = c
      <4> DEFINE m == Min(Suspended(c, p))
      <4>1. /\ m \in Days /\ c < m /\ m <= p /\ m \in Nat
            /\ \A x \in Suspended(c, p) : m <= x
        BY <2>1, <3>3, <3>5, FirstSuspended, DaysFinite
      <4> HIDE DEF m
      <4>2. /\ LatestFresh(m) \in {0} \cup Fresh /\ LatestFresh(m) < m
            /\ LatestFresh(m) \in 0..LastDay /\ c <= LatestFresh(m)
        BY <3>2, <4>1, FreshBefore
      <4>3. ASSUME c < LatestFresh(m) PROVE FALSE
        <5> DEFINE s == LatestFresh(m)
        <5>1. s \in Nat /\ s # 0 /\ s \in Fresh
          BY <1>3, <3>2, <4>2, <4>3
        <5>2. s \in Sessions /\ s < p /\ s <= p /\ s < d /\ s < m /\ c < s
          BY <1>1, <1>3, <4>1, <4>2, <4>3, <5>1
        <5> HIDE DEF s
        <5>3. s \in facts /\ calendar[s] = "open"
          BY <2>3, <3>4, <5>2
        <5>4. s \in Suspended(c, p)
          BY <1>3, <3>2, <5>1, <5>2, <5>3 DEF Suspended
        <5> QED
          BY <4>1, <5>1, <5>2, <5>4
      <4>4. LatestFresh(m) = c
        BY <1>3, <3>2, <4>2, <4>3
      <4> QED
        BY <4>4 DEF m
    <3>7. c \in before
      BY <3>3, <3>5, <3>6 DEF Suspending
    <3>8. Max(before) = c
      <4>1. /\ Max(before) \in before /\ \A x \in before : x <= Max(before)
        <5>1. before # {}
          BY <3>7
        <5> QED
          BY <2>1, <5>1, LatestSuspending
      <4>2. Max(before) \in N
        BY <2>4, <4>1
      <4>3. Max(before) <= c /\ c <= Max(before) /\ Max(before) \in Nat
        BY <3>1, <3>7, <4>1, <4>2, SessionsAreDays
      <4> HIDE DEF before
      <4> QED
        BY <3>2, <4>3
    <3>9. Loaded(c) = Complete[c] /\ Complete[c] \in States /\ Complete[c].day = c
      BY <1>4, <3>2
    <3>10. Loaded(c) # NoState
      BY <3>3, <3>9 DEF NoState, State
    <3>11. Previous(d) = [Complete[c] EXCEPT !.day = p]
      <4>1. before # {}
        BY <3>7
      <4> QED
        BY <1>8, <3>8, <3>9, <3>10, <4>1 DEF Previous, Suspending, p
    <3>12. /\ Complete[p].up = Complete[c].up /\ Complete[p].n = Complete[c].n
           /\ Complete[p].gaps = Complete[c].gaps
      <4>1. c \in 0..LastDay /\ c <= p
        BY <1>3, <3>2 DEF Days
      <4> QED
        BY <1>1, <3>4, <4>1, SuspensionsKeep
    <3>13. Complete[p] \in States /\ Complete[p].day = p
      BY <1>4, <1>6, <1>8
    <3>14. Complete[p] = [Complete[c] EXCEPT !.day = p]
      BY <3>9, <3>12, <3>13 DEF States
    <3> QED
      BY <1>2, <3>11, <3>14 DEF Same
  <2> QED
    BY <2>5, <2>6
<1> QED
  BY <1>5, <1>7, <1>8

-----------------------------------------------------------------------------
(* The published rows and the states that are carried. *)

Settled(d) == replaced = 0 \/ d < replaced

RowsAreRight == \A d \in Fresh : Settled(d) => RowWithin(published[d], Row(d, Complete[d]))
StateIsRight(s) == s \in States /\ Within(s, Complete[s.day])

(* What is published says what the complete computation does, or less, except behind a
   replaced file that is not recorded yet; and so does what a computation carries. *)
StreakInvariant ==
    /\ DataTypes /\ replaced \in 0..LastDay
    /\ Fresh \subseteq Sessions
    /\ pc = "running" => plan \subseteq Sessions
    /\ RowsAreRight
    /\ StateIsRight(prior)
    /\ pc # "running" => prior = NoState

(* No session up to a day is missing or marked, and the calendar and the facts know. *)
Gapless(d) == Sessions \cap 1..d \subseteq Fresh /\ WellKnown(d)

(* Of the days in D, those without a gap before them say the same; and a computation has
   nothing fresh before it that it does not start from. *)
ExactIn(D) ==
    \A d \in D \cap Fresh : Settled(d) /\ Gapless(d) => published[d] = Row(d, Complete[d])

WholeIn(D) ==
    /\ ExactIn(D)
    /\ pc = "marked" => \A d \in Fresh : d < first
    /\ pc = "running" => \A d \in Fresh : d < Min(plan)
    /\ pc = "running" /\ Min(plan) \in D /\ Gapless(Min(plan) - 1) =>
          Same(prior, Complete[Min(plan) - 1])

(* The data before a day are as they were. *)
SameBefore(r) ==
    \A x \in Days : x < r => /\ bars'[x] = bars[x] /\ calendar'[x] = calendar[x]
                             /\ x \in facts' <=> x \in facts
                             /\ x \in market' <=> x \in market

LEMMA SameBeforeKeeps ==
    ASSUME DataTypes, DataTypes', NEW r \in Nat, SameBefore(r)
    PROVE  /\ \A d \in Days : d < r => /\ (d \in Sessions' <=> d \in Sessions)
                                       /\ \A s : After(d, s)' = After(d, s) /\ Row(d, s)' = Row(d, s)
           /\ \A d \in 0..LastDay : d < r => /\ Complete'[d] = Complete[d]
                                             /\ WellKnown(d)' <=> WellKnown(d)
<1>1. LastDay \in Nat /\ Days \subseteq Nat /\ Days = 1..LastDay
  BY DaysFinite DEF Days
<1>2. ASSUME NEW d \in Days, d < r
      PROVE  Status(d)' = Status(d) /\ (d \in Sessions' <=> d \in Sessions)
  <2>1. Status(d)' = Status(d)
    BY <1>2 DEF SameBefore, Status
  <2>2. ASSUME NEW m \in Days, m <= d PROVE m \in market' <=> m \in market
    BY <1>1, <1>2, <2>2 DEF SameBefore
  <2>3. (\E m \in market' : m <= d) <=> (\E m \in market : m <= d)
    BY <2>2 DEF DataTypes
  <2> QED
    BY <1>2, <2>1, <2>3 DEF SameBefore, Sessions
<1>3. ASSUME NEW d \in 0..LastDay, d < r PROVE WellKnown(d)' <=> WellKnown(d)
  <2>1. \A x \in 1..d : x \in Days /\ x < r
    BY <1>1, <1>3
  <2> QED
    BY <2>1 DEF SameBefore, WellKnown
<1> QED
  BY <1>2, <1>3, DaysBeforeKeep

(* Rows stand where neither they nor the data before them change. *)
LEMMA RowsStand ==
    ASSUME DataTypes, DataTypes', NEW r \in Nat, SameBefore(r),
           published' = published, Fresh' \subseteq Fresh,
           \A d \in Fresh' : Settled(d)' => d < r /\ Settled(d)
    PROVE  /\ RowsAreRight => RowsAreRight'
           /\ \A D : ExactIn(D) => ExactIn(D)'
<1>1. Fresh \subseteq Days /\ Days \subseteq 0..LastDay /\ Days \subseteq Nat /\ LastDay \in Nat
  BY DaysFinite DEF Fresh, Published, Days
<1>2. ASSUME NEW d \in Fresh', Settled(d)'
      PROVE  /\ d \in Fresh /\ Settled(d) /\ published'[d] = published[d]
             /\ Row(d, Complete[d])' = Row(d, Complete[d])
             /\ Gapless(d)' => Gapless(d)
  <2>1. d \in Fresh /\ Settled(d) /\ d < r /\ d \in Days /\ d \in 0..LastDay /\ d \in Nat
    BY <1>1, <1>2
  <2>2. Complete'[d] = Complete[d] /\ (WellKnown(d)' <=> WellKnown(d))
    BY <2>1, SameBeforeKeeps
  <2>3. Row(d, Complete[d])' = Row(d, Complete[d])
    BY <2>1, <2>2, SameBeforeKeeps
  <2>4. ASSUME NEW s \in Sessions \cap 1..d PROVE s \in Sessions'
    <3>1. s \in Days /\ s < r
      BY <1>1, <2>1 DEF Days
    <3> QED
      BY <3>1, SameBeforeKeeps
  <2> QED
    BY <2>1, <2>2, <2>3, <2>4 DEF Gapless
<1> QED
  BY <1>2 DEF RowsAreRight, ExactIn

LEMMA AllBefore ==
    ASSUME DataTypes, UNCHANGED <<bars, facts, calendar, market>>
    PROVE  /\ DataTypes' /\ Sessions' = Sessions
           /\ SameBefore(LastDay + 1) /\ LastDay + 1 \in Nat
           /\ \A d \in Days : d < LastDay + 1
           /\ \A d \in 0..LastDay : Complete'[d] = Complete[d] /\ (WellKnown(d)' <=> WellKnown(d))
<1>1. DataTypes' /\ Sessions' = Sessions /\ SameBefore(LastDay + 1) /\ LastDay + 1 \in Nat
  BY DaysFinite DEF DataTypes, Sessions, SameBefore
<1>2. \A d \in 0..LastDay : d < LastDay + 1
  BY DaysFinite
<1> QED
  BY <1>1, <1>2, SameBeforeKeeps DEF Days

LEMMA StateStands ==
    ASSUME DataTypes, UNCHANGED <<bars, facts, calendar, market>>, NEW s, StateIsRight(s)
    PROVE  StateIsRight(s)'
<1>1. s.day \in 0..LastDay
  BY DEF StateIsRight, States
<1>2. Complete'[s.day] = Complete[s.day]
  BY <1>1, AllBefore
<1> QED
  BY <1>2 DEF StateIsRight, Within, States

LEMMA NoStateIsRight == StateIsRight(NoState) /\ StateIsRight(NoState)'
  BY DaysFinite DEF StateIsRight, NoState, State, States, Unknown, Within

(* A row that is published after a state that is right is right. *)
LEMMA PublishedIsRight ==
    ASSUME DataTypes, DOMAIN published = Days, replaced = 0,
           UNCHANGED data, Fresh \subseteq Sessions, RowsAreRight,
           NEW d \in Sessions, NEW s, StateIsRight(s), NEW state, state = After(d, s),
           published' = [published EXCEPT ![d] = Row(d, state)], stale' = stale \ {d}
    PROVE  /\ Fresh' = Fresh \cup {d} /\ Fresh' \subseteq Sessions' /\ RowsAreRight'
           /\ StateIsRight(state)' /\ state \in States /\ state.day = d
<1>1. d \in Days /\ d \in 0..LastDay
  BY SessionsAreDays, DaysFinite DEF Days
<1>2. /\ UNCHANGED <<bars, facts, calendar, market, replaced>>
      /\ DataTypes' /\ Sessions' = Sessions
      /\ \A e \in 0..LastDay : Complete'[e] = Complete[e]
  BY AllBefore DEF data
<1>3. Fresh' = Fresh \cup {d}
  BY <1>1, PublishedGrows DEF Fresh
<1>4. /\ s \in States
      /\ Complete[d - 1] \in States /\ Complete[d - 1].day = PreviousSession(d)
      /\ Complete[d] = After(d, Complete[d - 1])
  BY <1>1, CompleteOfSession DEF StateIsRight
<1>5. s.day = Complete[d - 1].day => Within(s, Complete[d - 1])
  BY <1>1, <1>4, CompleteOfPrevious DEF StateIsRight
<1>6. /\ Within(state, Complete[d])
      /\ RowWithin(Row(d, state), Row(d, Complete[d]))
  BY <1>1, <1>4, <1>5, AfterWithin
<1>7. state \in States /\ state.day = d
  BY <1>1, <1>4, AfterType
<1>8. StateIsRight(state)'
  <2>1. Complete'[d] = Complete[d] /\ States' = States
    BY <1>1, <1>2 DEF States
  <2> QED
    BY <1>6, <1>7, <2>1 DEF StateIsRight, Within
<1>9. ASSUME NEW e \in Fresh' PROVE RowWithin(published[e], Row(e, Complete[e]))'
  <2>1. e \in Days /\ e \in 0..LastDay
    BY <1>1, <1>3, <1>9, DaysFinite DEF Fresh, Published, Days
  <2>2. Row(e, Complete[e])' = Row(e, Complete[e])
    BY <1>2, <2>1, SameBeforeKeeps, AllBefore
  <2>3. CASE e = d
    <3>1. published'[d] = Row(d, state)
      BY <1>1
    <3> QED
      BY <1>6, <2>2, <2>3, <3>1 DEF RowWithin
  <2>4. CASE e # d
    <3>1. published'[e] = published[e] /\ e \in Fresh
      BY <1>3, <2>1, <2>4
    <3>2. RowWithin(published[e], Row(e, Complete[e]))
      BY <3>1 DEF RowsAreRight, Settled
    <3> QED
      BY <2>2, <3>1, <3>2 DEF RowWithin
  <2> QED
    BY <2>3, <2>4
<1> QED
  BY <1>2, <1>3, <1>7, <1>8, <1>9 DEF RowsAreRight

(* After a state that says the same, it says the same; later days are not in D. *)
LEMMA PublishedIsExact ==
    ASSUME DataTypes, DOMAIN published = Days, replaced = 0,
           UNCHANGED data, Fresh \subseteq Sessions,
           NEW d \in Sessions, NEW s \in States,
           published' = [published EXCEPT ![d] = Row(d, After(d, s))], stale' = stale \ {d},
           NEW D, d \in D /\ Gapless(d - 1) => Same(s, Complete[d - 1]),
           \A e \in D \cap Fresh : e <= d,
           \A e \in D \cap Fresh : e < d /\ Gapless(e) => published[e] = Row(e, Complete[e])
    PROVE  ExactIn(D)' /\ (d \in D /\ Gapless(d)' => After(d, s) = Complete'[d])
<1>1. d \in Days /\ d \in 0..LastDay /\ d \in Nat /\ LastDay \in Nat /\ Days \subseteq Nat
  BY SessionsAreDays, DaysFinite DEF Days
<1>2. /\ UNCHANGED <<bars, facts, calendar, market, replaced>>
      /\ Sessions' = Sessions
      /\ \A e \in 0..LastDay : Complete'[e] = Complete[e] /\ (WellKnown(e)' <=> WellKnown(e))
  BY AllBefore DEF data
<1>3. Fresh' = Fresh \cup {d}
  BY <1>1, PublishedGrows DEF Fresh
<1>4. ASSUME NEW e \in Days, e <= d, Gapless(e)' PROVE Gapless(e - 1)
  <2>1. e \in 0..LastDay /\ e - 1 \in 0..LastDay /\ e \in Nat
    BY <1>1, <1>4 DEF Days
  <2>2. WellKnown(e - 1)
    BY <1>2, <1>4, <2>1 DEF Gapless, WellKnown
  <2>3. \A x \in Sessions \cap 1..(e - 1) : x \in Fresh
    <3>1. \A x \in Sessions \cap 1..(e - 1) : x \in Sessions' \cap 1..e /\ x # d
      BY <1>1, <1>2, <1>4, <2>1
    <3> QED
      BY <1>3, <1>4, <3>1 DEF Gapless
  <2> QED
    BY <2>2, <2>3 DEF Gapless
<1>5. ASSUME d \in D, Gapless(d)' PROVE After(d, s) = Complete[d]
  <2>1. Same(s, Complete[d - 1])
    BY <1>1, <1>4, <1>5
  <2>2. /\ Complete[d - 1] \in States /\ Complete[d - 1].day = PreviousSession(d)
        /\ Complete[d] = After(d, Complete[d - 1])
    BY <1>1, CompleteOfSession
  <2> QED
    BY <1>1, <2>1, <2>2, AfterSame
<1>6. ASSUME NEW e \in D \cap Fresh', Gapless(e)' PROVE published'[e] = Row(e, Complete[e])'
  <2>1. e \in Days /\ e \in 0..LastDay /\ e \in Nat
    BY <1>1, <1>3, <1>6 DEF Fresh, Published, Days
  <2>2. Row(e, Complete[e])' = Row(e, Complete[e])
    BY <1>2, <2>1, SameBeforeKeeps, AllBefore
  <2>3. CASE e = d
    <3>1. published'[d] = Row(d, After(d, s))
      BY <1>1
    <3> QED
      BY <1>5, <1>6, <2>2, <2>3, <3>1
  <2>4. CASE e # d
    <3>1. published'[e] = published[e] /\ e \in Fresh /\ e < d
      BY <1>1, <1>3, <1>6, <2>1, <2>4
    <3>2. Gapless(e)
      <4>1. WellKnown(e)
        BY <1>2, <1>6, <2>1 DEF Gapless
      <4>2. \A x \in Sessions \cap 1..e : x \in Fresh
        <5>1. \A x \in Sessions \cap 1..e : x \in Sessions' \cap 1..e /\ x # d
          BY <1>1, <1>2, <2>1, <3>1
        <5> QED
          BY <1>3, <1>6, <5>1 DEF Gapless
      <4> QED
        BY <4>1, <4>2 DEF Gapless
    <3> QED
      BY <1>6, <2>2, <3>1, <3>2
  <2> QED
    BY <2>3, <2>4
<1> QED
  BY <1>1, <1>2, <1>5, <1>6 DEF ExactIn

-----------------------------------------------------------------------------
(* Changes and computations. *)

LEMMA DayTypes ==
    /\ LastDay \in Nat
    /\ \A d \in Days : d \in Nat /\ d # 0 /\ d \in 0..LastDay /\ d - 1 \in 0..LastDay
  BY DaysFinite DEF Days

LEMMA ChangeKeepsStreaks ==
    ASSUME StreakInvariant, pc = "idle", pc' = "idle", prior' = prior,
           DataTypes', replaced' \in 0..LastDay, NEW r \in Nat, SameBefore(r),
           published' = published, Fresh' \subseteq Fresh, Sessions \subseteq Sessions' \/ Fresh' = {},
           \A d \in Fresh' : Settled(d)' => d < r /\ Settled(d),
           NEW D, WholeIn(D)
    PROVE  StreakInvariant' /\ WholeIn(D)'
<1>1. RowsAreRight' /\ ExactIn(D)'
  BY RowsStand DEF StreakInvariant, WholeIn
<1>2. prior' = NoState /\ StateIsRight(prior)'
  <2>1. prior' = NoState
    BY DEF StreakInvariant
  <2> QED
    BY <2>1, NoStateIsRight DEF StateIsRight
<1> QED
  BY <1>1, <1>2 DEF StreakInvariant, WholeIn

LEMMA ReplaceFileStreaks ==
    ASSUME StreakInvariant, NEW d \in Days, NEW kind \in Kinds, ReplaceFile(d, kind),
           NEW D, WholeIn(D)
    PROVE  StreakInvariant' /\ WholeIn(D)'
<1>1. /\ pc = "idle" /\ replaced = 0 /\ calendar[d] # "closed" /\ replaced' = d
      /\ bars' = [bars EXCEPT ![d] = kind] /\ market' = market \cup {d}
      /\ UNCHANGED <<facts, calendar, stale, published, pc, prior>>
      /\ d \in Nat /\ d # 0 /\ d \in 0..LastDay
  BY DaysFinite DEF ReplaceFile, Changed, computation, Days
<1>2. DataTypes' /\ SameBefore(d)
  BY <1>1, DaysFinite DEF StreakInvariant, DataTypes, SameBefore
<1>3. Fresh' = Fresh /\ Sessions \subseteq Sessions'
  BY <1>1 DEF Fresh, Published, Sessions
<1>4. \A e \in Fresh' : Settled(e)' => e < d /\ Settled(e)
  BY <1>1 DEF Settled
<1> QED
  BY <1>1, <1>2, <1>3, <1>4, ChangeKeepsStreaks

LEMMA PublishFactStreaks ==
    ASSUME StreakInvariant, NEW d \in Days, PublishFact(d), NEW D, WholeIn(D)
    PROVE  StreakInvariant' /\ WholeIn(D)'
<1>1. /\ pc = "idle" /\ replaced = 0 /\ replaced' = 0 /\ replaced' \in 0..LastDay
      /\ facts' = IF d \in facts THEN facts \ {d} ELSE facts \cup {d}
      /\ stale' = stale \cup (Published \cap From(d))
      /\ UNCHANGED <<bars, calendar, market, published, pc, prior>> /\ d \in Nat
  BY DaysFinite DEF PublishFact, Changed, computation
<1>2. DataTypes' /\ SameBefore(d)
  BY <1>1, DaysFinite DEF StreakInvariant, DataTypes, SameBefore
<1>3. /\ Fresh' \subseteq Fresh /\ Sessions' = Sessions
      /\ \A e \in Fresh' : e < d /\ e \in Days
  <2>1. Published' = Published
    BY <1>1 DEF Published
  <2>2. \A e \in Fresh' : e \in Days /\ ~(d <= e)
    BY <1>1, <2>1 DEF Fresh, Published, From
  <2>3. ASSUME NEW e \in Fresh' PROVE e < d
    <3>1. e \in Nat /\ d \in Nat /\ ~(d <= e)
      BY <2>2, DayTypes
    <3> QED
      BY <3>1
  <2>4. Fresh' \subseteq Fresh /\ Sessions' = Sessions
    BY <1>1, <2>1 DEF Fresh, Sessions
  <2> QED
    BY <2>2, <2>3, <2>4
<1>4. \A e \in Fresh' : Settled(e)' => e < d /\ Settled(e)
  BY <1>1, <1>3 DEF Settled
<1> QED
  BY <1>1, <1>2, <1>3, <1>4, ChangeKeepsStreaks

LEMMA PublishCalendarStreaks ==
    ASSUME StreakInvariant, NEW d \in Days, NEW value \in {"open", "closed"},
           PublishCalendar(d, value), NEW D, WholeIn(D)
    PROVE  StreakInvariant' /\ WholeIn(D)'
<1>1. /\ pc = "idle" /\ replaced' = replaced /\ (value = "closed" => d \notin market)
      /\ calendar' = [calendar EXCEPT ![d] = value]
      /\ stale' = stale \cup Published
      /\ UNCHANGED <<bars, facts, market, published, pc, prior>>
  BY DEF PublishCalendar, Changed, computation
<1>2. DataTypes' /\ SameBefore(0) /\ 0 \in Nat
  <2>1. DataTypes'
    BY <1>1 DEF StreakInvariant, DataTypes
  <2>2. SameBefore(0)
    BY DaysFinite DEF SameBefore, Days
  <2> QED
    BY <2>1, <2>2
<1>3. Fresh' = {}
  BY <1>1 DEF Fresh, Published
<1> QED
  BY <1>1, <1>2, <1>3, ChangeKeepsStreaks DEF StreakInvariant

LEMMA RecordStreaks ==
    ASSUME SuffixInvariant, StreakInvariant, Record, NEW D, WholeIn(D)
    PROVE  StreakInvariant' /\ WholeIn(D)'
<1>1. /\ pc = "idle" /\ replaced # 0 /\ replaced' = 0 /\ replaced' \in 0..LastDay
      /\ stale' = stale \cup (Published \cap From(replaced))
      /\ UNCHANGED <<bars, facts, calendar, market, published, pc, prior>>
  BY DaysFinite DEF Record, computation, SuffixInvariant
<1>2. /\ DataTypes' /\ Sessions' = Sessions /\ SameBefore(LastDay + 1) /\ LastDay + 1 \in Nat
      /\ \A e \in Days : e < LastDay + 1
  BY <1>1, AllBefore DEF StreakInvariant
<1>3. Fresh' \subseteq Fresh /\ \A e \in Fresh' : e \in Days /\ e < replaced
  <2>1. Published' = Published /\ replaced \in Nat
    BY <1>1, DaysFinite DEF Published, StreakInvariant
  <2>2. \A e \in Fresh' : e \in Days /\ ~(replaced <= e)
    BY <1>1, <2>1 DEF Fresh, Published, From
  <2> QED
    BY <1>1, <2>1, <2>2, DayTypes DEF Fresh
<1>4. \A e \in Fresh' : Settled(e)' => e < LastDay + 1 /\ Settled(e)
  BY <1>2, <1>3 DEF Settled
<1> QED
  BY <1>1, <1>2, <1>3, <1>4, ChangeKeepsStreaks

(* Marks only take away. *)
LEMMA MarksKeep ==
    ASSUME StreakInvariant, UNCHANGED <<data, published>>, stale \subseteq stale'
    PROVE  /\ DataTypes' /\ replaced' \in 0..LastDay /\ Sessions' = Sessions
           /\ Published' = Published /\ Fresh' \subseteq Fresh /\ Fresh' \subseteq Sessions'
           /\ RowsAreRight' /\ \A D : ExactIn(D) => ExactIn(D)'
           /\ \A d \in 0..LastDay : Complete'[d] = Complete[d] /\ (Gapless(d)' => Gapless(d))
<1>1. UNCHANGED <<bars, facts, calendar, market, replaced, published>>
  BY DEF data
<1>2. Published' = Published /\ Fresh' \subseteq Fresh
  BY <1>1 DEF Published, Fresh
<1>3. /\ DataTypes' /\ Sessions' = Sessions /\ SameBefore(LastDay + 1) /\ LastDay + 1 \in Nat
      /\ \A e \in Days : e < LastDay + 1
      /\ \A d \in 0..LastDay : Complete'[d] = Complete[d] /\ (WellKnown(d)' <=> WellKnown(d))
  BY <1>1, AllBefore DEF StreakInvariant
<1>4. \A e \in Fresh' : Settled(e)' => e < LastDay + 1 /\ Settled(e)
  BY <1>1, <1>3 DEF Settled, Fresh, Published
<1>5. RowsAreRight' /\ \A D : ExactIn(D) => ExactIn(D)'
  BY <1>1, <1>2, <1>3, <1>4, RowsStand DEF StreakInvariant
<1> QED
  BY <1>1, <1>2, <1>3, <1>5 DEF StreakInvariant, Gapless

LEMMA RequestStreaks ==
    ASSUME StreakInvariant, NEW r \in Requests, Request(r[1], r[2], r[3]), NEW D, WholeIn(D)
    PROVE  StreakInvariant' /\ WholeIn(D)'
<1>1. /\ UNCHANGED <<data, published, prior>> /\ pc = "idle" /\ pc' = "marked" /\ first' = r[1]
      /\ stale' = stale \cup {r[1], r[2]} \cup (Published \cap From(r[1])) /\ r[1] \in Nat
  BY ConstantsAssumption, DaysFinite DEF Request, Days
<1>2. /\ DataTypes' /\ replaced' \in 0..LastDay /\ Fresh' \subseteq Sessions'
      /\ RowsAreRight' /\ ExactIn(D)' /\ Published' = Published
  BY <1>1, MarksKeep DEF WholeIn
<1>3. prior' = NoState /\ StateIsRight(prior)'
  <2>1. prior' = NoState
    BY <1>1 DEF StreakInvariant
  <2> QED
    BY <2>1, NoStateIsRight DEF StateIsRight
<1>4. \A d \in Fresh' : d < first'
  <2>1. \A d \in Fresh' : d \in Days /\ ~(r[1] <= d)
    BY <1>1, <1>2 DEF Fresh, Published, From
  <2> QED
    BY <1>1, <2>1, DayTypes
<1> QED
  BY <1>1, <1>2, <1>3, <1>4 DEF StreakInvariant, WholeIn

LEMMA FailStreaks ==
    ASSUME StreakInvariant, Fail, NEW D, WholeIn(D)
    PROVE  StreakInvariant' /\ WholeIn(D)'
<1>1. /\ UNCHANGED <<data, published, stale>> /\ pc' = "idle" /\ prior' = NoState
  BY DEF Fail, Rest, tables
<1>2. /\ DataTypes' /\ replaced' \in 0..LastDay /\ Fresh' \subseteq Sessions'
      /\ RowsAreRight' /\ ExactIn(D)'
  BY <1>1, MarksKeep DEF WholeIn
<1>3. StateIsRight(prior)'
  BY <1>1, NoStateIsRight DEF StateIsRight
<1> QED
  BY <1>1, <1>2, <1>3 DEF StreakInvariant, WholeIn

LEMMA PlanStreaks ==
    ASSUME LimitTypes, SuffixInvariant, StreakInvariant, Plan, NEW D, WholeIn(D),
           \A e \in D : \A d \in Days : d < e => d \in D
    PROVE  StreakInvariant' /\ WholeIn(D)'
<1> DEFINE axis == {d \in Sessions : d <= Max({last} \cup market)}
           end == Max({last} \cup (IF propagate THEN axis \cap Published ELSE {}))
           days == axis \cap first..end
<1>1. UNCHANGED <<data, published>> /\ pc = "marked"
  BY DEF Plan
<1>2. CASE axis \cap first..last = {}
  <2>1. stale' = stale /\ pc' = "idle" /\ prior' = NoState
    BY <1>2 DEF Plan, Rest
  <2>2. /\ DataTypes' /\ replaced' \in 0..LastDay /\ Fresh' \subseteq Sessions'
        /\ RowsAreRight' /\ ExactIn(D)'
    BY <1>1, <2>1, MarksKeep DEF WholeIn
  <2>3. StateIsRight(prior)'
    BY <2>1, NoStateIsRight DEF StateIsRight
  <2> QED
    BY <2>1, <2>2, <2>3 DEF StreakInvariant, WholeIn
<1>3. CASE axis \cap first..last # {}
  <2>1. /\ stale' = stale \cup days /\ pc' = "running" /\ plan' = days
        /\ prior' = Previous(Min(days))
    BY <1>3 DEF Plan
  <2>2. days \subseteq Sessions /\ \A d \in days : first <= d
    BY SessionsAreDays, DaysFinite DEF LimitTypes, StreakInvariant
  <2>3. days # {}
    BY <2>1, PlanStep DEF SuffixInvariant
  <2> HIDE DEF days
  <2>m. PICK m : m = Min(days)
    OBVIOUS
  <2>4. m \in days /\ m \in Days /\ m \in Sessions /\ first <= m
    <3>1. days \in SUBSET Nat
      BY <2>2, SessionsAreDays DEF StreakInvariant
    <3>2. m \in days
      BY <2>3, <2>m, <3>1, MinIsSmallest
    <3> QED
      BY <2>2, <3>2, SessionsAreDays DEF StreakInvariant
  <2>5. /\ DataTypes' /\ replaced' \in 0..LastDay /\ Fresh' \subseteq Fresh
        /\ Sessions' = Sessions /\ Fresh' \subseteq Sessions' /\ RowsAreRight' /\ ExactIn(D)'
        /\ \A d \in 0..LastDay : Complete'[d] = Complete[d] /\ (Gapless(d)' => Gapless(d))
    BY <1>1, <2>1, MarksKeep DEF WholeIn
  <2>6. \A d \in Fresh : d < m
    <3>1. \A d \in Fresh : d < first /\ d \in Days
      BY <1>1 DEF WholeIn, Fresh, Published
    <3> QED
      BY <2>4, <3>1, DayTypes DEF LimitTypes
  <2>7. prior' = Previous(m) /\ plan' = days /\ Min(plan') = m
    BY <2>1, <2>m
  <2>8. \A e \in Fresh : Settled(e)
    BY <1>1 DEF Settled, SuffixInvariant, LimitTypes
  <2>9. Previous(m) \in States /\ Within(Previous(m), Complete[Previous(m).day])
    BY <2>4, <2>8, PreviousWithin DEF StreakInvariant, RowsAreRight
  <2>10. StateIsRight(prior)'
    <3>1. Previous(m).day \in 0..LastDay
      BY <2>9 DEF States
    <3> QED
      BY <2>5, <2>7, <2>9, <3>1 DEF StateIsRight, Within, States
  <2>11. ASSUME m \in D, Gapless(m - 1)' PROVE Same(prior, Complete[m - 1])'
    <3>1. m - 1 \in 0..LastDay /\ m \in Nat
      BY <2>4, DaysFinite DEF Days
    <3>2. Gapless(m - 1)
      BY <2>5, <2>11, <3>1
    <3>3. \A s \in Sessions : s < m => s \in Fresh
      <4>1. \A s \in Sessions : s < m => s \in Sessions \cap 1..(m - 1)
        BY <3>1, SessionsAreDays, DaysFinite DEF StreakInvariant, Days
      <4> QED
        BY <3>2, <4>1 DEF Gapless
    <3>4. ASSUME NEW e \in Fresh, e < m PROVE published[e] = Row(e, Complete[e])
      <4>1. e \in D /\ e \in Nat /\ e <= m - 1
        BY <2>4, <2>11, <3>1, <3>4, DaysFinite DEF Fresh, Published
      <4>2. Gapless(e)
        <5>1. 1..e \subseteq 1..(m - 1)
          BY <3>1, <4>1
        <5> QED
          BY <3>2, <5>1 DEF Gapless, WellKnown
      <4> QED
        BY <2>8, <4>1, <4>2 DEF WholeIn, ExactIn
    <3>5. Same(Previous(m), Complete[m - 1])
      BY <2>4, <3>2, <3>3, <3>4, PreviousSame DEF StreakInvariant, Gapless
    <3> QED
      BY <2>5, <2>7, <3>1, <3>5 DEF Same
  <2> QED
    BY <1>1, <2>1, <2>2, <2>5, <2>6, <2>7, <2>10, <2>11 DEF StreakInvariant, WholeIn
<1> QED
  BY <1>2, <1>3

LEMMA PublishDayStreaks ==
    ASSUME LimitTypes, SuffixInvariant, StreakInvariant, PublishDay, NEW D, WholeIn(D),
           \A e \in D : \A d \in Days : d < e => d \in D
    PROVE  StreakInvariant' /\ WholeIn(D)'
<1>d. PICK d : d = Min(plan)
  OBVIOUS
<1>s. PICK state : state = After(d, prior)
  OBVIOUS
<1>1. d \in plan /\ d \in Days /\ d \in Sessions /\ \A x \in plan : d <= x
  BY <1>d, DaysFinite, MinIsSmallest DEF LimitTypes, SuffixInvariant, StreakInvariant, PublishDay
<1>2. /\ published' = [published EXCEPT ![d] = Row(d, state)]
      /\ stale' = stale \ {d} /\ UNCHANGED data /\ pc = "running" /\ replaced = 0
      /\ IF plan = {d} THEN pc' = "idle" /\ prior' = NoState
         ELSE plan' = plan \ {d} /\ pc' = "running" /\ prior' = state
  BY <1>d, <1>s DEF PublishDay, Rest, SuffixInvariant
<1>3. /\ Fresh' = Fresh \cup {d} /\ Fresh' \subseteq Sessions' /\ RowsAreRight'
      /\ StateIsRight(state)'
  BY <1>1, <1>2, <1>s, PublishedIsRight DEF LimitTypes, StreakInvariant
<1>4. /\ DataTypes' /\ replaced' \in 0..LastDay /\ Sessions' = Sessions
      /\ \A e \in 0..LastDay : Complete'[e] = Complete[e] /\ (WellKnown(e)' <=> WellKnown(e))
  BY <1>2, AllBefore DEF data, StreakInvariant
<1>5. \A e \in Fresh : e < d /\ e \in Days /\ Settled(e)
  BY <1>2, <1>d DEF WholeIn, Fresh, Published, Settled
<1>6. prior \in States
  BY DEF StreakInvariant, StateIsRight
<1>7. d \in D /\ Gapless(d - 1) => Same(prior, Complete[d - 1])
  BY <1>2, <1>d DEF WholeIn
<1>8. ExactIn(D)' /\ (d \in D /\ Gapless(d)' => state = Complete'[d])
  <2>1. \A e \in D \cap Fresh : e < d /\ Gapless(e) => published[e] = Row(e, Complete[e])
    BY <1>5 DEF WholeIn, ExactIn
  <2>2. \A e \in D \cap Fresh : e <= d
    BY <1>1, <1>5, DayTypes
  <2> QED
    BY <1>1, <1>2, <1>6, <1>7, <1>s, <2>1, <2>2, PublishedIsExact DEF LimitTypes, StreakInvariant
<1>9. CASE plan = {d}
  <2>1. StateIsRight(prior)'
    BY <1>2, <1>9, NoStateIsRight DEF StateIsRight
  <2> QED
    BY <1>2, <1>3, <1>4, <1>8, <1>9, <2>1 DEF StreakInvariant, WholeIn
<1>10. CASE plan # {d}
  <2>m. PICK m : m = Min(plan')
    OBVIOUS
  <2>1. plan' = plan \ {d} /\ plan' # {} /\ plan' \in SUBSET Nat /\ pc' = "running" /\ prior' = state
    BY <1>1, <1>2, <1>10, DaysFinite DEF LimitTypes
  <2>2. m \in plan' /\ m \in plan /\ m \in Days /\ d < m /\ m \in Nat
    <3>1. m \in plan'
      BY <2>1, <2>m, MinIsSmallest
    <3> QED
      BY <1>1, <2>1, <3>1, DayTypes DEF LimitTypes
  <2>3. ASSUME NEW e \in Fresh' PROVE e < m /\ e <= d
    <3>1. e = d \/ (e < d /\ e \in Days)
      BY <1>3, <1>5
    <3>2. e \in Nat /\ d \in Nat /\ m \in Nat /\ d < m
      BY <1>1, <2>2, <3>1, DayTypes
    <3> QED
      BY <3>1, <3>2
  <2>4. ASSUME m \in D, Gapless(m - 1)' PROVE Same(prior, Complete[m - 1])'
    <3>1. \A s \in Sessions : s < m => s <= d
      <4>1. \A s \in Sessions : s < m => s \in Sessions' \cap 1..(m - 1)
        BY <1>4, <2>2, SessionsAreDays DEF StreakInvariant, Days
      <4> QED
        BY <2>3, <2>4, <4>1 DEF Gapless
    <3>2. d = PreviousSession(m)
      BY <1>1, <2>2, <3>1, SessionBeforeIs DEF StreakInvariant
    <3>3. Complete[m - 1] = Complete[d] /\ m - 1 \in 0..LastDay /\ d \in 0..LastDay
      BY <1>1, <2>2, <3>2, CompleteOfPrevious, DaysFinite DEF StreakInvariant, Days
    <3>4. Gapless(d)' /\ d \in D
      <4>1. 1..d \subseteq 1..(m - 1)
        BY <1>1, <2>2, DaysFinite
      <4> QED
        BY <1>1, <2>2, <2>4, <4>1 DEF Gapless, WellKnown
    <3> QED
      BY <1>4, <1>8, <2>1, <3>3, <3>4 DEF Same
  <2>5. StreakInvariant'
    BY <1>2, <1>3, <1>4, <2>1 DEF StreakInvariant, StateIsRight
  <2> QED
    BY <1>8, <2>1, <2>3, <2>4, <2>5, <2>m DEF WholeIn
<1> QED
  BY <1>9, <1>10

LEMMA StreaksStep ==
    ASSUME LimitTypes, SuffixInvariant, StreakInvariant, Next, NEW D, WholeIn(D),
           \A e \in D : \A d \in Days : d < e => d \in D
    PROVE  StreakInvariant' /\ WholeIn(D)'
<1>1. ASSUME NEW d \in Days, NEW kind \in Kinds, ReplaceFile(d, kind)
      PROVE  StreakInvariant' /\ WholeIn(D)'
  BY <1>1, ReplaceFileStreaks
<1>2. ASSUME NEW d \in Days, PublishFact(d)
      PROVE  StreakInvariant' /\ WholeIn(D)'
  BY <1>2, PublishFactStreaks
<1>3. ASSUME NEW d \in Days, NEW value \in {"open", "closed"}, PublishCalendar(d, value)
      PROVE  StreakInvariant' /\ WholeIn(D)'
  BY <1>3, PublishCalendarStreaks
<1>4. ASSUME NEW r \in Requests, Request(r[1], r[2], r[3])
      PROVE  StreakInvariant' /\ WholeIn(D)'
  BY <1>4, RequestStreaks
<1> QED
  BY <1>1, <1>2, <1>3, <1>4, RecordStreaks, PlanStreaks, PublishDayStreaks, FailStreaks DEF Next

-----------------------------------------------------------------------------
(* Plans: what they publish, and what of it a history without gaps makes exact. *)

LEMMA CompleteIsFunction == Complete = [d \in 0..LastDay |-> Complete[d]]
<1>1. LastDay \in 0..LastDay
  BY DaysFinite
<1>2. \E f : f = [d \in 0..LastDay |-> IF d = 0 THEN NoState
                                       ELSE IF d \in Sessions THEN After(d, f[d - 1])
                                       ELSE f[d - 1]]
  BY <1>1, CompleteUpTo
<1>3. Complete = [d \in 0..LastDay |-> IF d = 0 THEN NoState
                                       ELSE IF d \in Sessions THEN After(d, Complete[d - 1])
                                       ELSE Complete[d - 1]]
  BY <1>2 DEF Complete
<1> QED
  BY <1>3

LEMMA CompleteIsFunctionNext == (Complete = [d \in 0..LastDay |-> Complete[d]])'
  BY CompleteIsFunction, PTL

LEMMA CompleteStands ==
    ASSUME DataTypes, UNCHANGED <<bars, facts, calendar, market>>
    PROVE  Complete' = Complete
<1>1. \A d \in 0..LastDay : Complete'[d] = Complete[d]
  BY AllBefore
<1> QED
  BY <1>1, CompleteIsFunction, CompleteIsFunctionNext

LEMMA TablesStand ==
    ASSUME StreakInvariant, UNCHANGED <<data, tables, pc, first, plan, prior>>
    PROVE  /\ StreakInvariant' /\ Fresh' = Fresh /\ Sessions' = Sessions
           /\ \A D : WholeIn(D) => WholeIn(D)'
           /\ \A d : (Gapless(d)' <=> Gapless(d)) /\ Complete' = Complete
<1>1. /\ UNCHANGED <<bars, facts, calendar, market, replaced, published, stale>>
  BY DEF data, tables
<1>2. /\ DataTypes' /\ Sessions' = Sessions /\ SameBefore(LastDay + 1) /\ LastDay + 1 \in Nat
      /\ \A e \in Days : e < LastDay + 1
      /\ Complete' = Complete
  BY <1>1, AllBefore, CompleteStands DEF StreakInvariant
<1>3. Published' = Published /\ Fresh' = Fresh
  BY <1>1 DEF Published, Fresh
<1>4. \A e \in Fresh' : Settled(e)' => e < LastDay + 1 /\ Settled(e)
  BY <1>1, <1>2, <1>3 DEF Settled, Fresh, Published
<1>5. RowsAreRight' /\ \A D : ExactIn(D) => ExactIn(D)'
  BY <1>1, <1>2, <1>3, <1>4, RowsStand DEF StreakInvariant
<1>6. \A d : Gapless(d)' <=> Gapless(d)
  BY <1>1, <1>2, <1>3 DEF Gapless, WellKnown
<1>7. StateIsRight(prior)'
  BY <1>2 DEF StreakInvariant, StateIsRight, Within, States
<1>8. ASSUME NEW D, WholeIn(D) PROVE WholeIn(D)'
  <2>1. Min(plan') = Min(plan) /\ pc' = pc /\ first' = first /\ prior' = prior
    OBVIOUS
  <2> QED
    BY <1>2, <1>3, <1>5, <1>6, <1>8, <2>1 DEF WholeIn, Same
<1>9. StreakInvariant'
  BY <1>1, <1>2, <1>3, <1>5, <1>7 DEF StreakInvariant
<1> QED
  BY <1>2, <1>3, <1>6, <1>8, <1>9

(* The sessions of the data that the plan was made of. *)
SessionsOf(source) ==
    source[4] \cup {d \in Days : source[3][d] = "open" /\ \E m \in source[4] : m <= d}

LEMMA SessionsOfSource == SessionsOf(Source) = Sessions
  BY DEF SessionsOf, Source, Sessions

(* A plan has all sessions between its first and its last; an execution finds its data. *)
PlanInvariant ==
    /\ order # NoOrder =>
          /\ order.days # {} /\ order.days \subseteq SessionsOf(order.source)
          /\ \A s \in SessionsOf(order.source) :
                \A a, b \in order.days : a <= s /\ s <= b => s \in order.days
    /\ ledger.saved => order # NoOrder
    /\ worker.phase # "off" => Source = order.source /\ replaced = 0
    /\ worker.phase = "off" => worker = Off
    /\ StateIsRight(worker.carried)

(* The days of the plan that are done, the last perhaps not counted yet, and all days
   that no later one of them comes before.  A plan does not mark the others. *)
Redone == Completed(ledger) \cup (IF worker.phase = "published" THEN {ledger.pending} ELSE {})
Remaining == order.days \ Redone
Covered ==
    {d \in Days : ledger.saved => /\ \A x \in Remaining : d < x
                                  /\ \E x \in order.days : d <= x}

(* Once it has read the state before its first day, an execution carries the next one. *)
HasState ==
    \/ worker.phase \in {"publish", "published", "day"}
    \/ worker.phase = "save" /\ ledger.initialized /\ (ledger.pending # 0 \/ ledger.next # 0)
CarriedIsExact ==
    HasState /\ Remaining # {} /\ Gapless(Min(Remaining) - 1) =>
        Same(worker.carried, Complete[Min(Remaining) - 1])

PiecesInvariant ==
    StreakInvariant /\ PlanInvariant /\ WholeIn(Covered) /\ CarriedIsExact

LEMMA CompletedInOrder ==
    ASSUME LedgerInvariant, NEW x \in order.days, NEW e \in Completed(ledger), x < e
    PROVE  x \in Completed(ledger)
<1> DEFINE Before(d) == {y \in order.days : y < d}
<1>1. /\ ledger.next \in Nat /\ order.days \subseteq Nat /\ IsFiniteSet(order.days)
      /\ e \in order.days /\ Cardinality(Before(e)) < ledger.next
  BY DaysFinite, FS_Subset DEF LedgerInvariant, Checkpoints, Completed
<1>2. Before(x) \subseteq Before(e)
  BY <1>1
<1>3. IsFiniteSet(Before(e)) /\ IsFiniteSet(Before(x))
  BY <1>1, FS_Subset
<1>4. /\ Cardinality(Before(x)) <= Cardinality(Before(e))
      /\ Cardinality(Before(x)) \in Nat /\ Cardinality(Before(e)) \in Nat
  <2> HIDE DEF Before
  <2> QED
    BY <1>2, <1>3, FS_Subset, FS_CardinalityType
<1>5. Cardinality(Before(x)) < ledger.next
  <2> HIDE DEF Before
  <2> QED
    BY <1>1, <1>4
<1> QED
  BY <1>5 DEF Completed

LEMMA NextDayIsCompleted ==
    ASSUME LedgerInvariant, ledger.pending # 0, order' = order,
           ledger' = [ledger EXCEPT !.next = @ + 1, !.pending = 0]
    PROVE  Completed(ledger)' = Completed(ledger) \cup {ledger.pending}
<1> DEFINE Before(d) == {e \in order.days : e < d}
<1>0. PICK m : m = ledger.pending
  OBVIOUS
<1>1. /\ ledger.next \in Nat /\ ledger'.next = ledger.next + 1
      /\ order.days \subseteq Nat /\ IsFiniteSet(order.days) /\ order.days \subseteq 0..LastDay
      /\ m \in order.days \ Completed(ledger) /\ m = Min(order.days \ Completed(ledger))
  BY <1>0, DaysFinite, FS_Subset DEF LedgerInvariant, Checkpoints, NextDay, Days
<1>2. \A d \in order.days : IsFiniteSet(Before(d)) /\ Cardinality(Before(d)) \in Nat
  BY <1>1, FS_Subset, FS_CardinalityType
<1>3. \A d \in Completed(ledger) : d \in Completed(ledger)'
  <2>1. ASSUME NEW d \in Completed(ledger) PROVE Cardinality(Before(d)) < ledger.next + 1
    <3>1. d \in order.days /\ Cardinality(Before(d)) < ledger.next
      BY DEF Completed
    <3>2. Cardinality(Before(d)) \in Nat
      BY <1>2, <3>1
    <3> HIDE DEF Before
    <3> QED
      BY <1>1, <3>1, <3>2
  <2> QED
    BY <1>1, <2>1 DEF Completed
<1>4. \A d \in order.days : d < m => d \in Completed(ledger)
  <2>1. order.days \ Completed(ledger) \in SUBSET Nat
    BY <1>1
  <2>2. \A d \in order.days \ Completed(ledger) : m <= d
    BY <1>1, <2>1, MinIsSmallest
  <2> QED
    BY <1>1, <2>2
<1>5. Cardinality(Before(m)) <= ledger.next
  <2>1. CASE Before(m) = {}
    <3>1. Cardinality(Before(m)) = 0
      BY <2>1, FS_EmptySet
    <3> HIDE DEF Before
    <3> QED
      BY <1>1, <3>1
  <2>2. CASE Before(m) # {}
    <3>1. PICK c : c = Max(Before(m))
      OBVIOUS
    <3>2. c \in Before(m) /\ \A e \in Before(m) : e <= c
      <4>1. Before(m) \in SUBSET (0..LastDay)
        BY <1>1
      <4> HIDE DEF Before
      <4> QED
        BY <2>2, <3>1, <4>1, MaxIsLargest
    <3>3. c \in Completed(ledger) /\ c \in order.days /\ c < m
      BY <1>4, <3>2
    <3>4. Cardinality(Before(c)) < ledger.next
      BY <3>3 DEF Completed
    <3>5. Before(m) = Before(c) \cup {c} /\ c \notin Before(c)
      <4>1. \A e \in Before(m) : e < c \/ e = c
        BY <1>1, <3>2, <3>3
      <4>2. \A e \in Before(c) : e < m
        BY <1>1, <3>3
      <4> QED
        BY <1>1, <3>3, <4>1, <4>2
    <3>6. Cardinality(Before(m)) = Cardinality(Before(c)) + 1
      <4> HIDE DEF Before
      <4> QED
        BY <1>2, <3>3, <3>5, FS_AddElement
    <3> HIDE DEF Before
    <3> QED
      BY <1>1, <1>2, <3>3, <3>4, <3>6
  <2> QED
    BY <2>1, <2>2
<1>6. m \in Completed(ledger)'
  <2>1. Cardinality(Before(m)) < ledger.next + 1
    <3>1. Cardinality(Before(m)) \in Nat
      BY <1>1, <1>2
    <3> HIDE DEF Before
    <3> QED
      BY <1>1, <1>5, <3>1
  <2> QED
    BY <1>1, <2>1 DEF Completed
<1> QED
  BY <1>0, <1>3, <1>6, NextDayCompletes

LEMMA RemainingDays ==
    ASSUME RemediationInvariant
    PROVE  /\ Remaining \subseteq order.days /\ Remaining \subseteq Days /\ Remaining \in SUBSET Nat
           /\ Remaining # {} => /\ Min(Remaining) \in Remaining
                                /\ \A x \in Remaining : Min(Remaining) <= x
<1>1. Remaining \subseteq order.days /\ Remaining \subseteq Days /\ Remaining \in SUBSET Nat
  BY DaysFinite DEF Remaining, RemediationInvariant, LedgerInvariant
<1> QED
  BY <1>1, MinIsSmallest

(* A step of an execution that publishes nothing and counts nothing new. *)
LEMMA TablesStandForPlan ==
    ASSUME StreakInvariant, WholeIn(Covered), pc = "idle",
           UNCHANGED <<data, tables, computation>>, Covered' \subseteq Covered
    PROVE  StreakInvariant' /\ WholeIn(Covered)'
<1>1. UNCHANGED <<pc, first, plan, prior>>
  BY DEF computation
<1>2. PICK D : D = Covered
  OBVIOUS
<1>3. StreakInvariant' /\ WholeIn(D)'
  BY <1>1, <1>2, TablesStand
<1>4. PICK E : E = Covered'
  OBVIOUS
<1>5. E \subseteq D
  BY <1>2, <1>4
<1>6. WholeIn(E)'
  BY <1>1, <1>3, <1>5 DEF WholeIn, ExactIn
<1> QED
  BY <1>3, <1>4, <1>6 DEF WholeIn, ExactIn

LEMMA CarriedStands ==
    ASSUME StreakInvariant, UNCHANGED data, StateIsRight(worker.carried),
           worker'.carried \in {worker.carried, NoState}
    PROVE  StateIsRight(worker.carried)'
<1>1. UNCHANGED <<bars, facts, calendar, market>>
  BY DEF data
<1>2. PICK s : s = worker'.carried
  OBVIOUS
<1>3. StateIsRight(s)
  BY <1>2, NoStateIsRight
<1>4. StateIsRight(s)'
  BY <1>1, <1>3, StateStands DEF StreakInvariant
<1> QED
  BY <1>2, <1>4 DEF StateIsRight

LEMMA OthersPieces ==
    ASSUME RemediationInvariant, PiecesInvariant, Others
    PROVE  PiecesInvariant'
<1>1. UNCHANGED <<order, ledger, previous, file, worker>> /\ worker = Off /\ Next
  BY DEF Others
<1>2. PICK D : D = Covered
  OBVIOUS
<1>3. \A e \in D : \A d \in Days : d < e => d \in D
  <2>1. ASSUME NEW e \in D, NEW d \in Days, d < e PROVE d \in Covered
    <3>1. \A x \in order.days : x \in Nat
      BY DaysFinite DEF RemediationInvariant, LedgerInvariant
    <3>2. d \in Nat /\ e \in Nat
      BY <1>2, DaysFinite DEF Covered
    <3>3. \A x \in Remaining : e < x => d < x
      BY <2>1, <3>1, <3>2 DEF Remaining
    <3>4. \A x \in order.days : e <= x => d <= x
      BY <2>1, <3>1, <3>2
    <3> QED
      BY <1>2, <3>3, <3>4 DEF Covered
  <2> QED
    BY <1>2, <2>1
<1>4. StreakInvariant' /\ WholeIn(D)'
  BY <1>1, <1>2, <1>3, StreaksStep DEF RemediationInvariant, PiecesInvariant
<1>5. Covered' = D
  BY <1>1, <1>2 DEF Covered, Remaining, Redone, Completed
<1>6. WholeIn(Covered)'
  BY <1>4, <1>5 DEF WholeIn, ExactIn
<1>7. PlanInvariant' /\ CarriedIsExact'
  <2>1. worker'.phase = "off" /\ worker' = Off /\ worker'.carried = NoState
    BY <1>1 DEF Off
  <2>2. StateIsRight(worker.carried)'
    BY <2>1, NoStateIsRight DEF StateIsRight
  <2>3. PlanInvariant'
    BY <1>1, <2>1, <2>2 DEF PiecesInvariant, PlanInvariant, SessionsOf
  <2>4. ~HasState'
    BY <2>1 DEF HasState
  <2> QED
    BY <2>3, <2>4 DEF CarriedIsExact
<1> QED
  BY <1>4, <1>6, <1>7 DEF PiecesInvariant

LEMMA OrderPieces ==
    ASSUME RemediationInvariant, PiecesInvariant, NEW from \in Days, NEW to \in Days, Order(from, to)
    PROVE  PiecesInvariant'
<1>1. /\ UNCHANGED <<vars, ledger, previous, file, touched, worker>>
      /\ pc = "idle" /\ worker = Off /\ order = NoOrder
  BY DEF Order
<1>2. ~ledger.saved /\ ~ledger'.saved
  BY <1>1 DEF PiecesInvariant, PlanInvariant
<1>3. StreakInvariant' /\ WholeIn(Covered)'
  <2>1. Covered' \subseteq Covered
    BY <1>2 DEF Covered
  <2> QED
    BY <1>1, <2>1, TablesStandForPlan DEF vars, PiecesInvariant
<1>4. /\ order'.days # {} /\ order'.days \subseteq Sessions /\ order'.source = Source
      /\ \A s \in Sessions : \A a, b \in order'.days : a <= s /\ s <= b => s \in order'.days
  <2>1. PICK top : top = Max({to} \cup market)
    OBVIOUS
  <2>2. PICK end : end = Max({to} \cup Published)
    OBVIOUS
  <2>3. top \in Nat /\ end \in Nat
    <3>1. /\ {to} \cup market \in SUBSET Days /\ {to} \cup market # {}
          /\ {to} \cup Published \in SUBSET Days
      BY DEF RemediationInvariant, LimitTypes, Published
    <3>2. Days \subseteq 0..LastDay /\ 0..LastDay \subseteq Nat
      BY DaysFinite DEF Days
    <3> QED
      BY <2>1, <2>2, <3>1, <3>2, MaxIsLargest
  <2> DEFINE days == {d \in Sessions : d <= top} \cap from..end
  <2>4. days # {} /\ order' = [days |-> days, source |-> Source, prior |-> Previous(Min(days))]
    BY <2>1, <2>2 DEF Order
  <2>5. ASSUME NEW s \in Sessions, NEW a \in days, NEW b \in days, a <= s, s <= b
        PROVE  s \in days
    <3>1. /\ from <= a /\ b <= end /\ b <= top /\ s \in Nat /\ a \in Nat /\ b \in Nat
          /\ from \in Nat
      BY <2>3, SessionsAreDays, DaysFinite DEF PiecesInvariant, StreakInvariant
    <3>2. s <= top /\ from <= s /\ s <= end
      BY <2>3, <2>5, <3>1
    <3> QED
      BY <2>3, <3>1, <3>2
  <2>6. days \subseteq Sessions
    OBVIOUS
  <2> HIDE DEF days
  <2> QED
    BY <2>4, <2>5, <2>6
<1>5. worker'.phase = "off" /\ worker' = Off /\ UNCHANGED data
  BY <1>1 DEF Off, vars
<1>6. StateIsRight(worker.carried)'
  BY <1>1, <1>5, CarriedStands DEF PiecesInvariant, PlanInvariant
<1>7. PlanInvariant'
  <2>1. SessionsOf(Source) = Sessions
    BY SessionsOfSource
  <2>2. SessionsOf(order.source)' = Sessions
    BY <1>4, <2>1 DEF SessionsOf
  <2> QED
    BY <1>2, <1>4, <1>5, <1>6, <2>2 DEF PlanInvariant
<1>8. CarriedIsExact'
  BY <1>5 DEF CarriedIsExact, HasState
<1> QED
  BY <1>3, <1>7, <1>8 DEF PiecesInvariant

(* Steps after which an execution has no state yet, or is over. *)
LEMMA NoStatePieces ==
    ASSUME RemediationInvariant, PiecesInvariant, pc = "idle",
           UNCHANGED <<data, tables, computation, order>>,
           ledger.saved => ledger'.saved, ledger'.saved => order # NoOrder,
           Completed(ledger)' \subseteq Completed(ledger),
           worker'.phase # "published", ~HasState',
           worker'.phase # "off" => Source = order.source /\ replaced = 0,
           worker'.phase = "off" => worker' = Off,
           worker'.carried \in {worker.carried, NoState}
    PROVE  PiecesInvariant'
<1>1. Covered' \subseteq Covered
  <2>1. Redone' \subseteq Redone
    BY DEF Redone
  <2> QED
    BY <2>1 DEF Covered, Remaining
<1>2. StreakInvariant' /\ WholeIn(Covered)'
  BY <1>1, TablesStandForPlan DEF PiecesInvariant
<1>3. StateIsRight(worker.carried)'
  BY CarriedStands DEF PiecesInvariant, PlanInvariant
<1>4. Source' = Source /\ replaced' = replaced
  BY DEF data, Source
<1>5. PlanInvariant'
  BY <1>3, <1>4 DEF PiecesInvariant, PlanInvariant, SessionsOf
<1>6. CarriedIsExact'
  BY DEF CarriedIsExact
<1> QED
  BY <1>2, <1>5, <1>6 DEF PiecesInvariant

LEMMA ExecutePieces ==
    ASSUME RemediationInvariant, PiecesInvariant, NEW n, Execute(n)
    PROVE  PiecesInvariant'
<1>1. /\ UNCHANGED <<data, tables, computation, order>> /\ pc = "idle" /\ replaced = 0
      /\ worker = Off /\ order # NoOrder /\ Source = order.source
  BY DEF Execute, Accepted, Readable, vars
<1>2. CASE ledger.saved
  <2>1. /\ UNCHANGED ledger
        /\ \/ worker' = Off
           \/ worker' = [Off EXCEPT !.phase = "load", !.left = n]
           \/ worker' = [Off EXCEPT !.phase = "mark", !.left = n]
    BY <1>2 DEF Execute
  <2>2. /\ worker'.phase \in {"off", "load", "mark"} /\ worker'.carried = NoState
        /\ worker'.phase = "off" => worker' = Off
    <3>1. CASE worker' = Off
      BY <3>1 DEF Off
    <3>2. CASE worker' # Off
      BY <2>1, <3>2 DEF Off
    <3> QED
      BY <3>1, <3>2
  <2>3. Completed(ledger)' = Completed(ledger)
    BY <1>1, <2>1 DEF Completed
  <2>4. ~HasState'
    BY <2>2 DEF HasState
  <2> QED
    BY <1>1, <1>2, <2>1, <2>2, <2>3, <2>4, NoStatePieces
<1>3. CASE ~ledger.saved
  <2>1. ledger' = Blank /\ worker' = [Off EXCEPT !.phase = "save", !.left = n]
    BY <1>3 DEF Execute, WriteLedger
  <2>2. worker'.phase = "save" /\ worker'.carried = NoState
    BY <2>1 DEF Off
  <2>3. Completed(ledger)' = {}
    <3>1. Blank.next = 0 /\ order.days \subseteq Days
      BY DEF Blank, Absent, RemediationInvariant, LedgerInvariant
    <3>2. Completed(Blank) = {}
      BY <3>1, NothingCompleted
    <3> QED
      BY <1>1, <2>1, <3>2 DEF Completed
  <2>4. ~HasState' /\ ledger'.saved
    BY <2>1, <2>2 DEF HasState, Blank, Absent
  <2> QED
    BY <1>1, <2>2, <2>3, <2>4, NoStatePieces
<1> QED
  BY <1>2, <1>3

LEMMA InitializedPieces ==
    ASSUME RemediationInvariant, PiecesInvariant, Initialized
    PROVE  PiecesInvariant'
<1>1. /\ UNCHANGED <<data, tables, computation, order>> /\ pc = "idle"
      /\ ledger' = [ledger EXCEPT !.initialized = TRUE]
      /\ worker.phase = "marked" /\ worker' = [worker EXCEPT !.phase = "save"]
      /\ ledger.saved /\ ledger.next = 0 /\ ledger.pending = 0
      /\ ledger \in Checkpoints /\ replaced = 0 /\ Source = order.source
      /\ worker = [phase |-> worker.phase, left |-> worker.left, carried |-> worker.carried]
  BY DEF Initialized, WriteLedger, Goto, vars, RemediationInvariant, WorkerInvariant,
         LedgerInvariant, PiecesInvariant, PlanInvariant
<1>2. ledger'.next = 0 /\ ledger'.pending = 0 /\ ledger'.saved
  BY <1>1 DEF Checkpoints
<1>3. worker'.phase = "save" /\ worker'.carried = worker.carried
  BY <1>1
<1>4. Completed(ledger)' = Completed(ledger)
  BY <1>1, <1>2 DEF Completed
<1>5. ~HasState' /\ order # NoOrder
  BY <1>1, <1>2, <1>3 DEF HasState, PiecesInvariant, PlanInvariant
<1> QED
  BY <1>1, <1>2, <1>3, <1>4, <1>5, NoStatePieces

LEMMA WorkerStopsPieces ==
    ASSUME RemediationInvariant, PiecesInvariant, WorkerStops
    PROVE  PiecesInvariant'
<1>1. /\ UNCHANGED <<data, tables, computation, order, ledger>> /\ worker' = Off /\ worker # Off
  BY DEF WorkerStops
<1>2. worker'.phase = "off" /\ worker'.carried = NoState
  BY <1>1 DEF Off
<1>3. Completed(ledger)' = Completed(ledger)
  BY <1>1 DEF Completed
<1>4. ~HasState' /\ (ledger.saved => order # NoOrder)
  BY <1>2 DEF HasState, PiecesInvariant, PlanInvariant
<1>5. pc = "idle"
  BY <1>1 DEF PiecesInvariant, PlanInvariant, RemediationInvariant, WorkerInvariant
<1> QED
  BY <1>1, <1>2, <1>3, <1>4, <1>5, NoStatePieces

LEMMA SavePieces ==
    ASSUME RemediationInvariant, PiecesInvariant, Save
    PROVE  PiecesInvariant'
<1>1. /\ UNCHANGED <<data, tables, computation, order, ledger>> /\ pc = "idle"
      /\ worker.phase = "save" /\ replaced = 0 /\ Source = order.source
      /\ \E phase \in {"mark", "publish", "load", "day"} :
            /\ worker' = [worker EXCEPT !.phase = phase]
            /\ phase = "publish" => ledger.initialized /\ ledger.pending # 0
            /\ phase = "day" => ledger.initialized /\ ledger.next # 0
  <2>1. /\ UNCHANGED <<data, tables, computation, order, ledger>> /\ pc = "idle"
        /\ worker.phase = "save" /\ replaced = 0 /\ Source = order.source
    BY DEF Save, vars, RemediationInvariant, WorkerInvariant, PiecesInvariant, PlanInvariant
  <2>2. CASE ~ledger.initialized
    <3>1. ledger.pending = 0
      BY <2>2 DEF RemediationInvariant, LedgerInvariant
    <3>2. worker' = [worker EXCEPT !.phase = "mark"]
      BY <2>2, <3>1 DEF Save, Goto
    <3> QED
      BY <2>1, <2>2, <3>2
  <2>3. CASE ledger.initialized /\ ledger.pending # 0
    BY <2>1, <2>3 DEF Save, Goto
  <2>4. CASE ledger.initialized /\ ledger.pending = 0
    BY <2>1, <2>4 DEF Save, Goto
  <2> QED
    BY <2>2, <2>3, <2>4
<1>2. /\ worker'.phase \in {"mark", "publish", "load", "day"} /\ worker'.carried = worker.carried
      /\ HasState' => HasState
  BY <1>1 DEF HasState, RemediationInvariant, WorkerInvariant
<1>3. Completed(ledger)' = Completed(ledger) /\ Redone' = Redone /\ Remaining' = Remaining
  <2>1. Completed(ledger)' = Completed(ledger)
    BY <1>1 DEF Completed
  <2>2. Redone' = Redone
    BY <1>1, <1>2, <2>1 DEF Redone
  <2> QED
    BY <1>1, <2>1, <2>2 DEF Remaining
<1>4. Covered' = Covered
  BY <1>1, <1>3 DEF Covered
<1>5. StreakInvariant' /\ WholeIn(Covered)'
  BY <1>1, <1>4, TablesStandForPlan DEF PiecesInvariant
<1>6. StateIsRight(worker.carried)'
  BY <1>1, <1>2, CarriedStands DEF PiecesInvariant, PlanInvariant
<1>7. PlanInvariant'
  BY <1>1, <1>2, <1>6 DEF PiecesInvariant, PlanInvariant, SessionsOf, Source, data
<1>8. CarriedIsExact'
  <2>1. (\A d : Gapless(d)' <=> Gapless(d)) /\ Complete' = Complete
    BY <1>1, TablesStand DEF PiecesInvariant, computation
  <2>2. Min(Remaining') = Min(Remaining)
    BY <1>3
  <2> QED
    BY <1>2, <1>3, <2>1, <2>2 DEF PiecesInvariant, CarriedIsExact, Same
<1> QED
  BY <1>5, <1>7, <1>8 DEF PiecesInvariant

LEMMA MarkAllPieces ==
    ASSUME RemediationInvariant, PiecesInvariant, MarkAll
    PROVE  PiecesInvariant'
<1>1. /\ UNCHANGED <<data, published, computation, order, ledger>> /\ pc = "idle" /\ pc' = "idle"
      /\ stale' = stale \cup order.days /\ stale \subseteq stale'
      /\ worker.phase = "mark" /\ worker' = [worker EXCEPT !.phase = "marked"]
      /\ replaced = 0 /\ Source = order.source
  BY DEF MarkAll, Goto, computation, RemediationInvariant, WorkerInvariant, PiecesInvariant, PlanInvariant
<1>2. worker'.phase = "marked" /\ worker'.carried = worker.carried
  BY <1>1 DEF RemediationInvariant, WorkerInvariant
<1>3. Covered' = Covered
  <2>1. Completed(ledger)' = Completed(ledger)
    BY <1>1 DEF Completed
  <2>2. Redone' = Redone
    BY <1>1, <1>2, <2>1 DEF Redone
  <2> QED
    BY <1>1, <2>1, <2>2 DEF Covered, Remaining
<1>4. PICK D : D = Covered
  OBVIOUS
<1>5. /\ DataTypes' /\ replaced' \in 0..LastDay /\ Fresh' \subseteq Sessions'
      /\ RowsAreRight' /\ ExactIn(D)'
      /\ \A d \in 0..LastDay : Complete'[d] = Complete[d]
  BY <1>1, <1>4, MarksKeep DEF PiecesInvariant, WholeIn
<1>6. WholeIn(Covered)'
  BY <1>1, <1>3, <1>4, <1>5 DEF WholeIn, ExactIn
<1>7. StreakInvariant'
  <2>1. prior' = NoState
    BY <1>1 DEF PiecesInvariant, StreakInvariant, computation
  <2>2. StateIsRight(prior)'
    BY <2>1, NoStateIsRight DEF StateIsRight
  <2> QED
    BY <1>1, <1>5, <2>1, <2>2 DEF StreakInvariant
<1>8. StateIsRight(worker.carried)'
  BY <1>1, <1>2, CarriedStands DEF PiecesInvariant, PlanInvariant
<1>9. PlanInvariant'
  BY <1>1, <1>2, <1>8 DEF PiecesInvariant, PlanInvariant, SessionsOf, Source, data
<1>10. CarriedIsExact'
  BY <1>2 DEF CarriedIsExact, HasState
<1> QED
  BY <1>6, <1>7, <1>9, <1>10 DEF PiecesInvariant

LEMMA StartDayPieces ==
    ASSUME RemediationInvariant, PiecesInvariant, StartDay
    PROVE  PiecesInvariant'
<1>1. /\ UNCHANGED <<data, tables, computation, order>> /\ pc = "idle"
      /\ worker.phase \in {"load", "day"} /\ ledger.saved /\ ledger.initialized
      /\ replaced = 0 /\ Source = order.source /\ order # NoOrder
  BY DEF StartDay, WriteLedger, vars, RemediationInvariant, WorkerInvariant, PiecesInvariant, PlanInvariant
<1>2. CASE worker.left = 0 \/ Completed(ledger) = order.days
  <2>1. worker' = Off /\ UNCHANGED ledger
    BY <1>2 DEF StartDay
  <2>2. worker'.phase = "off" /\ worker'.carried = NoState
    BY <2>1 DEF Off
  <2>3. Completed(ledger)' = Completed(ledger) /\ ~HasState'
    BY <1>1, <2>1, <2>2 DEF Completed, HasState
  <2> QED
    BY <1>1, <2>1, <2>2, <2>3, NoStatePieces
<1>3. CASE ~(worker.left = 0 \/ Completed(ledger) = order.days)
  <2>1. /\ ledger' = [ledger EXCEPT !.pending = NextDay(ledger)]
        /\ worker' = [worker EXCEPT !.phase = "save",
              !.carried = IF worker.phase = "load" THEN Previous(NextDay(ledger)) ELSE @]
    BY <1>3 DEF StartDay, WriteLedger
  <2>2. /\ worker'.phase = "save" /\ ledger'.next = ledger.next /\ ledger'.saved = ledger.saved
        /\ worker'.carried = IF worker.phase = "load" THEN Previous(NextDay(ledger))
                             ELSE worker.carried
    BY <2>1 DEF RemediationInvariant, WorkerInvariant, LedgerInvariant, Checkpoints
  <2>3. Completed(ledger)' = Completed(ledger) /\ Redone' = Redone /\ Remaining' = Remaining
    <3>1. Completed(ledger)' = Completed(ledger)
      BY <1>1, <2>2 DEF Completed
    <3> QED
      BY <1>1, <2>2, <3>1 DEF Redone, Remaining
  <2>4. Covered' = Covered
    BY <1>1, <2>2, <2>3 DEF Covered
  <2>5. StreakInvariant' /\ WholeIn(Covered)'
    BY <1>1, <2>4, TablesStandForPlan DEF PiecesInvariant
  <2>6. PICK y : y = NextDay(ledger)
    OBVIOUS
  <2>7. Remaining = order.days \ Completed(ledger) /\ y = Min(Remaining)
    BY <1>1, <2>6 DEF Remaining, Redone, NextDay
  <2>8. /\ Remaining # {} /\ y \in Remaining /\ y \in order.days /\ y \in Days
        /\ \A x \in Remaining : y <= x
    <3>1. Remaining # {}
      BY <1>3, <2>7 DEF Completed
    <3> QED
      BY <2>7, <3>1, RemainingDays
  <2>9. ASSUME NEW e \in Fresh, e < y PROVE e \in Covered /\ Settled(e)
    <3>1. e \in Days /\ e \in Nat /\ y \in Nat /\ \A x \in Remaining : x \in Nat
      BY <2>8, RemainingDays, DayTypes DEF Fresh, Published
    <3>2. \A x \in Remaining : e < x
      BY <2>8, <2>9, <3>1
    <3>3. e <= y
      BY <2>9, <3>1
    <3> QED
      BY <1>1, <2>8, <3>1, <3>2, <3>3 DEF Covered, Settled
  <2>10. CASE worker.phase = "load"
    <3>1. Previous(y) \in States /\ Within(Previous(y), Complete[Previous(y).day])
      BY <2>8, <2>9, PreviousWithin DEF PiecesInvariant, StreakInvariant, RowsAreRight
    <3>2. PICK s : s = Previous(y)
      OBVIOUS
    <3>3. worker'.carried = s /\ StateIsRight(s)
      BY <2>2, <2>6, <2>10, <3>1, <3>2 DEF StateIsRight
    <3>4. StateIsRight(s)'
      BY <1>1, <3>3, StateStands DEF PiecesInvariant, StreakInvariant, data
    <3>5. StateIsRight(worker.carried)'
      BY <3>3, <3>4 DEF StateIsRight
    <3>6. ASSUME Gapless(y - 1) PROVE Same(s, Complete[y - 1])
      <4>1. \A x \in Sessions : x < y => x \in Fresh
        <5>1. \A x \in Sessions : x < y => x \in 1..(y - 1)
          BY <2>8, SessionsAreDays, DayTypes DEF PiecesInvariant, StreakInvariant, Days
        <5> QED
          BY <3>6, <5>1 DEF Gapless
      <4>2. ASSUME NEW e \in Fresh, e < y PROVE published[e] = Row(e, Complete[e])
        <5>1. e \in Covered /\ Settled(e) /\ e \in Nat /\ y \in Nat
          BY <2>8, <2>9, <4>2, DayTypes DEF Fresh, Published
        <5>2. 1..e \subseteq 1..(y - 1)
          BY <4>2, <5>1
        <5>3. Gapless(e)
          BY <3>6, <5>2 DEF Gapless, WellKnown
        <5> QED
          BY <5>1, <5>3 DEF PiecesInvariant, WholeIn, ExactIn
      <4> QED
        BY <2>8, <3>2, <3>6, <4>1, <4>2, PreviousSame DEF PiecesInvariant, StreakInvariant, Gapless
    <3>7. CarriedIsExact'
      <4>1. (Gapless(y - 1)' <=> Gapless(y - 1)) /\ Complete' = Complete
        BY <1>1, TablesStand DEF PiecesInvariant, computation
      <4>2. Min(Remaining') = y
        BY <2>3, <2>7
      <4> QED
        BY <3>3, <3>6, <4>1, <4>2 DEF CarriedIsExact, Same
    <3>8. PlanInvariant'
      BY <1>1, <2>2, <3>5 DEF PiecesInvariant, PlanInvariant, SessionsOf, Source, data
    <3> QED
      BY <2>5, <3>7, <3>8 DEF PiecesInvariant
  <2>11. CASE worker.phase = "day"
    <3>1. worker'.carried = worker.carried
      BY <2>2, <2>11
    <3>2. StateIsRight(worker.carried)'
      BY <1>1, <3>1, CarriedStands DEF PiecesInvariant, PlanInvariant
    <3>3. PlanInvariant'
      BY <1>1, <2>2, <3>2 DEF PiecesInvariant, PlanInvariant, SessionsOf, Source, data
    <3>4. CarriedIsExact'
      <4>1. (Gapless(y - 1)' <=> Gapless(y - 1)) /\ Complete' = Complete
        BY <1>1, TablesStand DEF PiecesInvariant, computation
      <4>2. Min(Remaining') = y /\ HasState
        BY <2>3, <2>7, <2>11 DEF HasState
      <4> QED
        BY <2>7, <2>8, <3>1, <4>1, <4>2 DEF PiecesInvariant, CarriedIsExact, Same
    <3> QED
      BY <2>5, <3>3, <3>4 DEF PiecesInvariant
  <2> QED
    BY <1>1, <2>10, <2>11
<1> QED
  BY <1>2, <1>3

LEMMA CompleteDayPieces ==
    ASSUME RemediationInvariant, PiecesInvariant, CompleteDay
    PROVE  PiecesInvariant'
<1>1. /\ UNCHANGED <<data, tables, computation, order>> /\ pc = "idle"
      /\ ledger' = [ledger EXCEPT !.next = @ + 1, !.pending = 0]
      /\ worker.phase = "published" /\ ledger.pending # 0
      /\ worker' = [worker EXCEPT !.phase = "save", !.left = @ - 1]
      /\ replaced = 0 /\ Source = order.source /\ order # NoOrder /\ ledger.saved
  BY DEF CompleteDay, WriteLedger, vars, RemediationInvariant, WorkerInvariant, PiecesInvariant,
         PlanInvariant
<1>2. /\ worker'.phase = "save" /\ worker'.carried = worker.carried /\ ledger'.saved
  BY <1>1 DEF RemediationInvariant, WorkerInvariant, LedgerInvariant, Checkpoints
<1>3. Redone' = Redone /\ Remaining' = Remaining
  <2>1. Completed(ledger)' = Completed(ledger) \cup {ledger.pending}
    BY <1>1, NextDayIsCompleted DEF RemediationInvariant
  <2> QED
    BY <1>1, <1>2, <2>1 DEF Redone, Remaining
<1>4. Covered' = Covered
  BY <1>1, <1>2, <1>3 DEF Covered
<1>5. StreakInvariant' /\ WholeIn(Covered)'
  BY <1>1, <1>4, TablesStandForPlan DEF PiecesInvariant
<1>6. StateIsRight(worker.carried)'
  BY <1>1, <1>2, CarriedStands DEF PiecesInvariant, PlanInvariant
<1>7. PlanInvariant'
  BY <1>1, <1>2, <1>6 DEF PiecesInvariant, PlanInvariant, SessionsOf, Source, data
<1>8. CarriedIsExact'
  <2>1. (\A d : Gapless(d)' <=> Gapless(d)) /\ Complete' = Complete
    BY <1>1, TablesStand DEF PiecesInvariant, computation
  <2>2. Min(Remaining') = Min(Remaining) /\ HasState
    BY <1>1, <1>3 DEF HasState
  <2> QED
    BY <1>2, <1>3, <2>1, <2>2 DEF PiecesInvariant, CarriedIsExact, Same
<1> QED
  BY <1>5, <1>7, <1>8 DEF PiecesInvariant

LEMMA RepublishDayPieces ==
    ASSUME RemediationInvariant, PiecesInvariant, RepublishDay
    PROVE  PiecesInvariant'
<1>d. PICK d : d = ledger.pending
  OBVIOUS
<1>s. PICK s : s = worker.carried
  OBVIOUS
<1>t. PICK state : state = After(d, s)
  OBVIOUS
<1>1. /\ published' = [published EXCEPT ![d] = Row(d, state)] /\ stale' = stale \ {d}
      /\ worker.phase = "publish" /\ pc = "idle" /\ pc' = "idle"
      /\ worker' = [worker EXCEPT !.phase = "published", !.carried = state]
      /\ UNCHANGED <<data, computation, order, ledger>>
      /\ ledger.saved /\ d # 0 /\ replaced = 0 /\ replaced' = 0
      /\ Source = order.source /\ order # NoOrder
  BY <1>d, <1>s, <1>t DEF RepublishDay, RemediationInvariant, WorkerInvariant,
     PiecesInvariant, PlanInvariant, computation, data
<1>2. worker'.phase = "published" /\ worker'.carried = state
  BY <1>1 DEF RemediationInvariant, WorkerInvariant
<1>3. /\ Remaining = order.days \ Completed(ledger) /\ d \in Remaining /\ d = Min(Remaining)
      /\ \A x \in Remaining : d <= x
      /\ d \in order.days /\ d \in Days /\ d \in Nat
  <2>1. Remaining = order.days \ Completed(ledger)
    BY <1>1 DEF Remaining, Redone
  <2>2. d = Min(Remaining) /\ d \in Remaining
    BY <1>1, <1>d, <2>1 DEF RemediationInvariant, LedgerInvariant, NextDay
  <2> QED
    BY <2>1, <2>2, RemainingDays, DayTypes
<1>4. /\ order.days \subseteq Sessions /\ d \in Sessions
      /\ \A x \in Sessions : \A a, b \in order.days : a <= x /\ x <= b => x \in order.days
  BY <1>1, <1>3, SessionsOfSource DEF PiecesInvariant, PlanInvariant
<1>5. /\ Completed(ledger)' = Completed(ledger)
      /\ Remaining' = Remaining \ {d}
  <2>1. Completed(ledger)' = Completed(ledger)
    BY <1>1 DEF Completed
  <2> QED
    BY <1>1, <1>2, <1>3, <1>d, <2>1 DEF Remaining, Redone
<1>6. /\ Fresh' = Fresh \cup {d} /\ Fresh' \subseteq Sessions' /\ RowsAreRight'
      /\ StateIsRight(state)' /\ state \in States /\ state.day = d
  <2>1. StateIsRight(s)
    BY <1>s DEF PiecesInvariant, PlanInvariant
  <2> QED
    BY <1>1, <1>4, <1>t, <2>1, PublishedIsRight DEF RemediationInvariant, LimitTypes,
       PiecesInvariant, StreakInvariant
<1>7. /\ DataTypes' /\ Sessions' = Sessions /\ Complete' = Complete
      /\ UNCHANGED <<bars, facts, calendar, market>>
  BY <1>1, AllBefore, CompleteStands DEF data, PiecesInvariant, StreakInvariant
<1>8. PICK D : D = Covered'
  OBVIOUS
<1>9. ASSUME NEW e \in D \cap Fresh PROVE e <= d /\ (e < d => e \in Covered)
  <2>1. e \in Days /\ e \in Nat /\ e \in Sessions /\ ledger'.saved
    BY <1>1, DayTypes DEF Fresh, Published, PiecesInvariant, StreakInvariant
  <2>2. \A x \in Remaining : x \in Nat
    BY RemainingDays
  <2>3. /\ \A x \in Remaining \ {d} : e < x
        /\ \E x \in order.days : e <= x
    BY <1>1, <1>5, <1>8, <2>1 DEF Covered
  <2>4. e <= d
    <3>1. SUFFICES ASSUME d < e PROVE FALSE
      BY <1>3, <2>1
    <3>2. e \in order.days
      BY <1>3, <1>4, <2>1, <2>3, <3>1
    <3>3. e \notin Completed(ledger)
      BY <1>3, <3>1, CompletedInOrder DEF RemediationInvariant
    <3>4. e \in Remaining \ {d}
      BY <1>3, <2>1, <3>1, <3>2, <3>3
    <3> QED
      BY <2>1, <2>3, <3>4
  <2>5. ASSUME e < d PROVE e \in Covered
    <3>1. \A x \in Remaining : e < x
      BY <2>3, <2>5
    <3> QED
      BY <2>1, <2>3, <3>1 DEF Covered
  <2> QED
    BY <2>4, <2>5
<1>10. Gapless(d - 1) => Same(s, Complete[d - 1])
  <2>1. HasState /\ Remaining # {} /\ Min(Remaining) = d
    BY <1>1, <1>3 DEF HasState
  <2> QED
    BY <1>s, <2>1 DEF PiecesInvariant, CarriedIsExact
<1>11. ExactIn(D)' /\ (d \in D /\ Gapless(d)' => state = Complete'[d])
  <2>1. s \in States
    BY <1>s DEF PiecesInvariant, PlanInvariant, StateIsRight
  <2>2. \A e \in D \cap Fresh : e < d /\ Gapless(e) => published[e] = Row(e, Complete[e])
    BY <1>1, <1>9 DEF PiecesInvariant, WholeIn, ExactIn, Settled
  <2> QED
    BY <1>1, <1>4, <1>9, <1>10, <1>t, <2>1, <2>2, PublishedIsExact DEF RemediationInvariant,
       LimitTypes, PiecesInvariant, StreakInvariant
<1>12. WholeIn(Covered)'
  BY <1>1, <1>8, <1>11 DEF WholeIn, ExactIn
<1>13. StreakInvariant'
  <2>1. prior' = NoState
    BY <1>1 DEF PiecesInvariant, StreakInvariant, computation
  <2>2. StateIsRight(prior)' /\ 0 \in 0..LastDay
    BY <2>1, NoStateIsRight, DaysFinite DEF StateIsRight
  <2> QED
    BY <1>1, <1>6, <1>7, <2>1, <2>2 DEF StreakInvariant
<1>14. PlanInvariant'
  <2>1. StateIsRight(worker.carried)'
    BY <1>2, <1>6 DEF StateIsRight
  <2> QED
    BY <1>1, <1>2, <1>7, <2>1 DEF PiecesInvariant, PlanInvariant, SessionsOf, Source
<1>15. CarriedIsExact'
  <2>1. SUFFICES ASSUME Remaining' # {}, Gapless(Min(Remaining) - 1)'
                 PROVE  Same(worker.carried, Complete[Min(Remaining) - 1])'
    BY DEF CarriedIsExact
  <2>2. PICK y : y = Min(Remaining')
    OBVIOUS
  <2>3. /\ y \in Remaining /\ y # d /\ d < y /\ y \in order.days /\ y \in Days /\ y \in Nat
        /\ \A x \in Remaining' : y <= x
    <3>1. Remaining' \in SUBSET Nat
      BY <1>5, RemainingDays
    <3>2. y \in Remaining' /\ \A x \in Remaining' : y <= x
      BY <2>1, <2>2, <3>1, MinIsSmallest
    <3>3. y \in Remaining /\ y # d /\ y \in order.days /\ y \in Days /\ y \in Nat
      BY <1>5, <3>2, RemainingDays
    <3> QED
      BY <1>3, <3>2, <3>3
  <2>4. ASSUME NEW x \in Sessions, x < y PROVE x <= d
    <3>1. x \in Nat
      BY SessionsAreDays DEF PiecesInvariant, StreakInvariant
    <3>2. SUFFICES ASSUME d < x PROVE FALSE
      BY <1>3, <3>1
    <3>3. x \in order.days
      BY <1>3, <1>4, <2>3, <2>4, <3>1, <3>2
    <3>4. x \notin Completed(ledger)
      BY <1>3, <3>2, CompletedInOrder DEF RemediationInvariant
    <3>5. x \in Remaining'
      BY <1>3, <1>5, <3>1, <3>2, <3>3, <3>4
    <3> QED
      BY <2>3, <2>4, <3>1, <3>5
  <2>5. d = PreviousSession(y)
    BY <1>4, <2>3, <2>4, SessionBeforeIs DEF PiecesInvariant, StreakInvariant
  <2>6. Complete[y - 1] = Complete[d]
    BY <2>3, <2>5, CompleteOfPrevious DEF PiecesInvariant, StreakInvariant
  <2>7. Gapless(d)'
    <3>1. 1..d \subseteq 1..(y - 1)
      BY <1>3, <2>3
    <3> QED
      BY <2>1, <2>2, <3>1 DEF Gapless, WellKnown
  <2>8. d \in D
    <3>1. \A x \in Remaining' : d < x
      BY <1>3, <1>5, RemainingDays
    <3> QED
      BY <1>1, <1>3, <1>8, <3>1 DEF Covered
  <2>9. state = Complete[y - 1]
    BY <1>7, <1>11, <2>6, <2>7, <2>8
  <2> QED
    BY <1>2, <1>7, <2>2, <2>9 DEF Same
<1> QED
  BY <1>12, <1>13, <1>14, <1>15 DEF PiecesInvariant

-----------------------------------------------------------------------------
(* The invariant of the streaks and the plans holds at first and after every step. *)

LEMMA PiecesInit == RemediationInit => PiecesInvariant
<1> SUFFICES ASSUME RemediationInit PROVE PiecesInvariant
  OBVIOUS
<1>1. /\ \E h \in Histories : bars = h.bars /\ facts = h.facts
                              /\ calendar = h.calendar /\ market = h.market
      /\ replaced = 0 /\ published = [d \in Days |-> Unpublished] /\ pc = "idle"
      /\ prior = NoState /\ order = NoOrder /\ ledger = Absent /\ worker = Off
  BY DEF RemediationInit, Init
<1>2. DataTypes
  BY <1>1, HistoriesAssumption DEF DataTypes
<1>3. Fresh = {}
  BY <1>1 DEF Fresh, Published
<1>4. StateIsRight(prior) /\ StateIsRight(worker.carried)
  BY <1>1, NoStateIsRight DEF Off
<1>5. replaced \in 0..LastDay
  BY <1>1, DaysFinite
<1>6. StreakInvariant
  BY <1>1, <1>2, <1>3, <1>4, <1>5 DEF StreakInvariant, RowsAreRight
<1>7. WholeIn(Covered)
  BY <1>1, <1>3 DEF WholeIn, ExactIn
<1>8. PlanInvariant
  BY <1>1, <1>4 DEF PlanInvariant, Absent, Off
<1>9. CarriedIsExact
  BY <1>1 DEF CarriedIsExact, HasState, Off
<1> QED
  BY <1>6, <1>7, <1>8, <1>9 DEF PiecesInvariant

LEMMA NothingChanges ==
    ASSUME RemediationInvariant, PiecesInvariant, UNCHANGED allVars
    PROVE  PiecesInvariant'
<1>1. UNCHANGED <<data, tables, computation, order, ledger, worker>>
  BY DEF allVars, remediationVars, vars
<1>2. /\ UNCHANGED <<pc, first, plan, prior, bars, facts, calendar, market, replaced>>
  BY <1>1 DEF computation, data
<1>3. Completed(ledger)' = Completed(ledger)
  BY <1>1 DEF Completed
<1>4. Redone' = Redone
  BY <1>1, <1>3 DEF Redone
<1>5. Remaining' = Remaining
  BY <1>1, <1>4 DEF Remaining
<1>6. Covered' = Covered
  BY <1>1, <1>5 DEF Covered
<1>7. PICK D : D = Covered
  OBVIOUS
<1>8. /\ StreakInvariant' /\ WholeIn(D)' /\ Complete' = Complete
      /\ \A d : Gapless(d)' <=> Gapless(d)
  BY <1>1, <1>2, <1>7, TablesStand DEF PiecesInvariant
<1>9. StateIsRight(worker.carried)'
  BY <1>1, <1>2, CarriedStands DEF PiecesInvariant, PlanInvariant
<1>10. PlanInvariant'
  BY <1>1, <1>2, <1>9 DEF PiecesInvariant, PlanInvariant, SessionsOf, Source
<1>11. CarriedIsExact'
  <2>1. Min(Remaining') = Min(Remaining)
    BY <1>5
  <2> QED
    BY <1>1, <1>5, <1>8, <2>1 DEF PiecesInvariant, CarriedIsExact, HasState, Same
<1> QED
  BY <1>6, <1>7, <1>8, <1>10, <1>11 DEF PiecesInvariant

LEMMA PiecesStep ==
    RemediationInvariant /\ PiecesInvariant /\ [RemediationNext]_allVars => PiecesInvariant'
<1> SUFFICES ASSUME RemediationInvariant, PiecesInvariant, [RemediationNext]_allVars
             PROVE  PiecesInvariant'
  OBVIOUS
<1>1. ASSUME NEW range \in Ranges, Order(range[1], range[2]) PROVE PiecesInvariant'
  <2>1. range[1] \in Days /\ range[2] \in Days
    BY PlansAssumption
  <2> QED
    BY <1>1, <2>1, OrderPieces
<1>2. ASSUME NEW n \in Chunks, Execute(n) PROVE PiecesInvariant'
  BY <1>2, ExecutePieces
<1> QED
  BY <1>1, <1>2, NothingChanges, OthersPieces, SavePieces, MarkAllPieces, InitializedPieces,
     StartDayPieces, RepublishDayPieces, CompleteDayPieces, WorkerStopsPieces
  DEF RemediationNext

LEMMA PiecesInvariantHolds == RemediationSpec => [](RemediationInvariant /\ PiecesInvariant)
<1>1. RemediationInit => PiecesInvariant
  BY PiecesInit
<1>2. RemediationInvariant /\ PiecesInvariant /\ [RemediationNext]_allVars => PiecesInvariant'
  BY PiecesStep
<1> QED
  BY <1>1, <1>2, InvariantHolds, PTL DEF RemediationSpec

(* What is published of a day that is not marked says what the complete computation over *)
(* the data as they are says, or less, whatever was computed, failed, was changed or was *)
(* computed again before (compute_limit_events()), and by plans in pieces beside it.     *)
THEOREM StreaksAreRight == RemediationSpec => []KnownStreaksAreRight
<1>1. StreakInvariant => KnownStreaksAreRight
  <2> SUFFICES ASSUME StreakInvariant, replaced = 0, NEW d \in Fresh
               PROVE  LET full == Row(d, Complete[d])
                      IN  \/ published[d] = full
                          \/ published[d].n = Unknown
                             /\ <<published[d].class, full.class>> \in
                                    {<<"event", "event">>, <<"unknown", "gap">>}
    BY DEF KnownStreaksAreRight, Readable
  <2>1. RowWithin(published[d], Row(d, Complete[d]))
    BY DEF StreakInvariant, RowsAreRight, Settled
  <2> QED
    BY <2>1 DEF RowWithin
<1> QED
  BY <1>1, PiecesInvariantHolds, PTL DEF PiecesInvariant

(* Without a plan, or after one that is completed and that no day is published behind,   *)
(* a history that has no gaps says exactly what one computation over all of it would.    *)
THEOREM PiecesMakeTheirPlan == RemediationSpec => []PiecesOfThePlan
<1>1. RemediationInvariant /\ PiecesInvariant => PiecesOfThePlan
  <2> SUFFICES ASSUME RemediationInvariant, PiecesInvariant, replaced = 0,
                      ledger.saved => /\ Completed(ledger) = order.days
                                      /\ \A d \in Published : d <= Max(order.days),
                      NEW d \in Fresh, Sessions \cap 1..d \subseteq Fresh,
                      \A x \in 1..d : calendar[x] # "none" /\ (bars[x] = "halted" => x \in facts)
               PROVE  published[d] = Row(d, Complete[d])
    BY DEF PiecesOfThePlan, PiecesMakeTheWhole, Readable
  <2>1. d \in Days /\ d \in Published
    BY DEF Fresh, Published
  <2>2. ASSUME ~ledger.saved PROVE d \in Covered
    BY <2>1, <2>2 DEF Covered
  <2>3. ASSUME ledger.saved PROVE d \in Covered
    <3>1. Remaining = {}
      BY <2>3 DEF Remaining, Redone
    <3>2. order.days # {} /\ order.days \subseteq Days
      BY <2>3 DEF PiecesInvariant, PlanInvariant, RemediationInvariant, LedgerInvariant
    <3>3. Max(order.days) \in order.days
      BY <3>2, DaysFinite, MaxIsLargest DEF Days
    <3> QED
      BY <2>1, <2>3, <3>1, <3>3 DEF Covered
  <2>4. d \in Covered
    BY <2>2, <2>3
  <2>5. Gapless(d) /\ Settled(d)
    BY DEF Gapless, WellKnown, Settled
  <2> QED
    BY <2>4, <2>5 DEF PiecesInvariant, WholeIn, ExactIn
<1> QED
  BY <1>1, PiecesInvariantHolds, PTL

(* Without plans a computation marks every day that it may leave behind: a history that   *)
(* has no gaps says exactly what one computation over all of it would, at any time        *)
(* between two of them (compute_limit_events()).                                          *)
THEOREM SuffixesMakeTheWhole == Spec => []PiecesMakeTheWhole
<1> DEFINE I == LimitTypes /\ SuffixInvariant /\ StreakInvariant /\ WholeIn(Days)
<1>1. Init => I
  <2> SUFFICES ASSUME Init PROVE I
    OBVIOUS
  <2>1. /\ \E h \in Histories : bars = h.bars /\ facts = h.facts
                                /\ calendar = h.calendar /\ market = h.market
        /\ replaced = 0 /\ published = [d \in Days |-> Unpublished] /\ pc = "idle"
        /\ prior = NoState
    BY DEF Init
  <2>2. DataTypes
    BY <2>1, HistoriesAssumption DEF DataTypes
  <2>3. Fresh = {}
    BY <2>1 DEF Fresh, Published
  <2>4. StreakInvariant
    BY <2>1, <2>2, <2>3, NoStateIsRight, DaysFinite DEF StreakInvariant, RowsAreRight
  <2>5. WholeIn(Days)
    BY <2>1, <2>3 DEF WholeIn, ExactIn
  <2> QED
    BY <2>4, <2>5, InitTables
<1>2. I /\ [Next]_vars => I'
  <2> SUFFICES ASSUME I, [Next]_vars PROVE I'
    OBVIOUS
  <2>1. PICK D : D = Days
    OBVIOUS
  <2>2. CASE Next
    <3>1. StreakInvariant' /\ WholeIn(D)'
      BY <2>1, <2>2, StreaksStep
    <3> QED
      BY <2>1, <2>2, <3>1, TablesStep
  <2>3. CASE UNCHANGED vars
    <3>1. UNCHANGED <<data, tables, pc, first, plan, prior>>
      BY <2>3 DEF vars, computation
    <3>2. StreakInvariant' /\ WholeIn(D)'
      BY <2>1, <3>1, TablesStand
    <3> QED
      BY <2>1, <2>3, <3>2, TablesKept
  <2> QED
    BY <2>2, <2>3
<1>3. I => PiecesMakeTheWhole
  <2> SUFFICES ASSUME I, replaced = 0, NEW d \in Fresh, Sessions \cap 1..d \subseteq Fresh,
                      \A x \in 1..d : calendar[x] # "none" /\ (bars[x] = "halted" => x \in facts)
               PROVE  published[d] = Row(d, Complete[d])
    BY DEF PiecesMakeTheWhole, Readable
  <2>1. d \in Days /\ Gapless(d) /\ Settled(d)
    BY DEF Fresh, Published, Gapless, WellKnown, Settled
  <2> QED
    BY <2>1 DEF WholeIn, ExactIn
<1> QED
  BY <1>1, <1>2, <1>3, PTL DEF Spec
=============================================================================
