---------------------------- MODULE LimitEvents ----------------------------
(***************************************************************************)
(* The published limit events and streaks of src/aspool/limit_events.py:   *)
(* what a day publishes for a security follows from its bar, its dated     *)
(* facts, the trading calendar, and the state that the previous session    *)
(* left.  A computation covers a suffix of the sessions.  It carries that  *)
(* state in memory from day to day, and takes the first one from what      *)
(* earlier computations published, which does not hold everything.         *)
(*                                                                         *)
(* Of all securities, one is modelled; the others trade on market days.    *)
(* Computations and changes hold the write lock of the pool throughout.    *)
(***************************************************************************)
EXTENDS Integers, FiniteSetsExt

CONSTANTS
    LastDay,     \* bound: days
    Histories,   \* the bars, facts, calendars and market days to start from
    Requests,    \* bound: the ranges to compute, with or without the days after them
    MaxChanges,  \* bound: changes of the data
    MaxFailures  \* bound: computations that fail or are killed

ASSUME ConstantsAssumption ==
    /\ LastDay \in Nat \ {0} /\ MaxChanges \in Nat /\ MaxFailures \in Nat
    /\ Requests \subseteq (1..LastDay) \X (1..LastDay) \X BOOLEAN

Days == 1..LastDay

(* The bar of a day: at its upper limit at the close or not, the first day of a legacy
   IPO, not judged (invalid prices, no known rule), none, or marked as suspended. *)
Kinds == {"up", "flat", "debut", "bad", "absent", "halted"}

(* Nothing is traded on a day that the calendar knows to be closed. *)
ASSUME HistoriesAssumption ==
    /\ Histories \subseteq [bars : [Days -> Kinds], facts : SUBSET Days, market : SUBSET Days,
                           calendar : [Days -> {"open", "closed", "none"}]]
    /\ \A h \in Histories : \A d \in h.market : h.calendar[d] # "closed"

VARIABLES
    bars,
    facts,      \* days that a dated fact says were suspended
    calendar,   \* "open", "closed", or not in it
    market,     \* days on which some security has a bar
    replaced,   \* first day that a commit not yet recorded has replaced, or 0
    published,  \* daily_limit_publication with the tables of the batches
    stale,      \* daily_limit_staleness
    pc, first, last, propagate,  \* the computation: its request,
    plan,       \* the days it still has to publish
    prior,      \* ... and the state of the security at the session before
    changes, failures

data == <<bars, facts, calendar, market, replaced>>
tables == <<published, stale>>
computation == <<pc, first, last, propagate, plan, prior>>
vars == <<data, tables, computation, changes, failures>>

Unknown == -1

(* The state after a session: closed at the limit or not, the streak, and the sessions
   without a bar in it. *)
State(day, up, n, gaps) == [day |-> day, up |-> up, n |-> n, gaps |-> gaps]
NoState == State(0, "unknown", Unknown, 0)

Unpublished == [class |-> "none", n |-> 0, gaps |-> 0]
Published == {d \in Days : published[d] # Unpublished}
Fresh == Published \ stale
From(d) == {e \in Days : d <= e}

TypeOK ==
    /\ bars \in [Days -> Kinds] /\ facts \subseteq Days /\ market \subseteq Days
    /\ calendar \in [Days -> {"open", "closed", "none"}]
    /\ replaced \in 0..LastDay
    /\ \A d \in Days : /\ published[d].class \in
                             {"none", "event", "quiet", "unknown", "gap", "debut", "outside"}
                       /\ published[d].n + published[d].gaps \in Unknown..d
    /\ stale \subseteq Days
    /\ pc \in {"idle", "marked", "running"}
    /\ first \in Days /\ last \in Days /\ propagate \in BOOLEAN /\ plan \subseteq Days
    /\ prior \in [day : 0..LastDay, up : {"yes", "no", "unknown"},
                  n : Unknown..LastDay, gaps : 0..LastDay]
    /\ pc = "idle" => plan = {} /\ prior = NoState
    /\ changes \in 0..MaxChanges /\ failures \in 0..MaxFailures

Rest ==
    /\ pc' = "idle" /\ first' = 1 /\ last' = 1 /\ propagate' = TRUE
    /\ plan' = {} /\ prior' = NoState

Init ==
    /\ \E h \in Histories : bars = h.bars /\ facts = h.facts
                            /\ calendar = h.calendar /\ market = h.market
    /\ replaced = 0
    /\ published = [d \in Days |-> Unpublished] /\ stale = {}
    /\ pc = "idle" /\ first = 1 /\ last = 1 /\ propagate = TRUE
    /\ plan = {} /\ prior = NoState
    /\ changes = 0 /\ failures = 0

-----------------------------------------------------------------------------
(* The sessions: days with a bar, and open days of the calendar after the first. *)
Sessions == market \cup {d \in Days : calendar[d] = "open" /\ \E m \in market : m <= d}
PreviousSession(d) == Max({0} \cup {s \in Sessions : s < d})

(* The overlay of the facts on the bars. *)
Status(d) == IF d \in facts THEN "halted" ELSE bars[d]

UnknownState(d) == State(d, "unknown", Unknown, 0)
Carried(d, tracked) == tracked.day = PreviousSession(d)

(* A session without a bar keeps a known streak, and nothing else. *)
WithoutBar(d, tracked) ==
    IF Carried(d, tracked) /\ tracked.up = "yes" /\ tracked.n > 0
    THEN State(d, "yes", tracked.n, tracked.gaps + 1)
    ELSE UnknownState(d)

(* _compute_date(): the state that a day leaves, after the state before it. *)
After(d, tracked) ==
    CASE Status(d) = "halted" ->
           IF Carried(d, tracked) THEN [tracked EXCEPT !.day = d] ELSE UnknownState(d)
      [] Status(d) = "absent" -> WithoutBar(d, tracked)
      [] Status(d) = "bad" -> UnknownState(d)
      [] Status(d) \in {"debut", "flat"} -> State(d, "no", 0, 0)
      [] Status(d) = "up" ->
           IF ~Carried(d, tracked) \/ tracked.up = "unknown" \/ tracked.n = Unknown
           THEN State(d, "yes", Unknown, 0)
           ELSE State(d, "yes", tracked.n + 1, tracked.gaps)

(* What the tables hold of it.  A suspended day is outside of its scope. *)
Row(d, state) ==
    LET class == CASE Status(d) = "up" -> "event"
                   [] Status(d) = "flat" -> "quiet"
                   [] Status(d) = "halted" -> "outside"
                   [] Status(d) = "absent" /\ state.up = "yes" -> "gap"
                   [] Status(d) = "debut" -> "debut"
                   [] OTHER -> "unknown"
    IN  IF class \in {"quiet", "outside", "debut"} THEN [class |-> class, n |-> 0, gaps |-> 0]
        ELSE [class |-> class, n |-> state.n, gaps |-> state.gaps]

(* The complete computation, from the first session on. *)
Complete[d \in 0..LastDay] ==
    IF d = 0 THEN NoState
    ELSE IF d \in Sessions THEN After(d, Complete[d - 1]) ELSE Complete[d - 1]

-----------------------------------------------------------------------------
(* _previous_session_states(). *)

(* Fault: days marked stale are taken for a history. *)
LatestMarked(d) == Max({0} \cup {p \in Published : p < d})

LatestFresh(d) == Max({0} \cup {p \in Fresh : p < d})

(* The state that the tables of a day hold; a suspended one is not in them. *)
Loaded(d) ==
    LET row == published[d]
    IN  CASE row.class \in {"gap", "event"} -> State(d, "yes", row.n, row.gaps)
          [] row.class \in {"debut", "quiet"} -> State(d, "no", 0, 0)
          [] row.class = "unknown" -> State(d, "unknown", Unknown, 0)
          [] OTHER -> NoState

(* The suspension that a day ends, by the facts and the calendar; c is the session
   before it. *)
IsSuspension(c, d) ==
    /\ calendar[c] = "open" /\ c \notin facts
    /\ d \in facts
    /\ \A x \in (c + 1)..(d - 1) : calendar[x] = "closed" \/ (calendar[x] = "open" /\ x \in facts)

Suspended(c, d) == {x \in (c + 1)..d : x \in facts /\ (x = d \/ calendar[x] = "open")}

(* The latest published state; of a suspended day, the one before the suspension. *)
Previous(d) ==
    LET prev == LatestFresh(d)
        before == {c \in 1..(prev - 1) : IsSuspension(c, prev)
                                         /\ LatestFresh(Min(Suspended(c, prev))) = c}
    IN  IF prev = 0 THEN NoState
        ELSE IF published[prev].class # "outside" THEN Loaded(prev)
        ELSE IF before = {} \/ Loaded(Max(before)) = NoState THEN NoState
        ELSE [Loaded(Max(before)) EXCEPT !.day = prev]

-----------------------------------------------------------------------------
(* Changes of the data. *)

Changed ==
    /\ pc = "idle" /\ replaced = 0
    /\ changes < MaxChanges
    /\ changes' = changes + 1
    /\ UNCHANGED <<published, computation, failures>>

(* A commit of daily bars replaces the file ... *)
ReplaceFile(d, kind) ==
    /\ Changed
    /\ calendar[d] # "closed"
    /\ kind = "absent" => bars[d] = "absent"
    /\ bars[d] # kind \/ d \notin market
    /\ bars' = [bars EXCEPT ![d] = kind]
    /\ market' = market \cup {d}
    /\ replaced' = d
    /\ UNCHANGED <<facts, calendar, stale>>

(* ... and records it with the mark of all that may depend on it, now or when it is
   rolled forward. *)
Record ==
    /\ replaced # 0
    /\ stale' = stale \cup (Published \cap From(replaced))
    /\ replaced' = 0
    /\ UNCHANGED <<bars, facts, calendar, market, published, computation, changes, failures>>

(* catalog_rows(): rows and marks in one transaction. *)
PublishFact(d) ==
    /\ Changed
    /\ facts' = IF d \in facts THEN facts \ {d} ELSE facts \cup {d}
    /\ stale' = stale \cup (Published \cap From(d))
    /\ UNCHANGED <<bars, calendar, market, replaced>>

PublishCalendar(d, value) ==
    /\ Changed
    /\ calendar[d] # value
    /\ value = "closed" => d \notin market /\ d \notin facts
    /\ calendar' = [calendar EXCEPT ![d] = value]
    /\ stale' = stale \cup Published
    /\ UNCHANGED <<bars, facts, market, replaced>>

-----------------------------------------------------------------------------
(* compute_limit_events(). *)

(* All that the request can change is marked before anything is read. *)
Request(from, to, forward) ==
    /\ pc = "idle" /\ replaced = 0
    /\ from <= to
    /\ stale' = stale \cup {from, to} \cup (Published \cap From(from))
    /\ pc' = "marked" /\ first' = from /\ last' = to /\ propagate' = forward
    /\ UNCHANGED <<data, published, plan, prior, changes, failures>>

(* Fault: only the requested days are computed again. *)
PlanOnlyRequested ==
    LET days == Sessions \cap first..last
    IN  /\ pc = "marked"
        /\ IF days = {}
           THEN Rest /\ UNCHANGED stale
           ELSE /\ stale' = stale \cup days
                /\ pc' = "running" /\ plan' = days
                /\ prior' = Previous(Min(days))
                /\ UNCHANGED <<first, last, propagate>>
        /\ UNCHANGED <<data, published, changes, failures>>

(* The days between the requested ones and the last published one. *)
Plan ==
    LET axis == {d \in Sessions : d <= Max({last} \cup market)}
        end == Max({last} \cup (IF propagate THEN axis \cap Published ELSE {}))
        days == axis \cap first..end
    IN  /\ pc = "marked"
        /\ IF axis \cap first..last = {}
           THEN Rest /\ UNCHANGED stale
           ELSE /\ stale' = stale \cup days
                /\ pc' = "running" /\ plan' = days
                /\ prior' = Previous(Min(days))
                /\ UNCHANGED <<first, last, propagate>>
        /\ UNCHANGED <<data, published, changes, failures>>

(* _publish_batch(): the tables of a day, its pointer and its mark in one transaction. *)
PublishDay ==
    /\ pc = "running"
    /\ LET d == Min(plan)
           state == After(d, prior)
       IN  /\ published' = [published EXCEPT ![d] = Row(d, state)]
           /\ stale' = stale \ {d}
           /\ IF plan = {d} THEN Rest
              ELSE /\ plan' = plan \ {d} /\ prior' = state
                   /\ UNCHANGED <<pc, first, last, propagate>>
    /\ UNCHANGED <<data, changes, failures>>

(* The process is killed, or cannot read the scope, a bar or a history. *)
Fail ==
    /\ pc # "idle"
    /\ failures < MaxFailures
    /\ failures' = failures + 1
    /\ Rest
    /\ UNCHANGED <<data, tables, changes>>

-----------------------------------------------------------------------------
Next ==
    \/ \E d \in Days : \/ \E kind \in Kinds : ReplaceFile(d, kind)
                       \/ PublishFact(d)
                       \/ \E value \in {"open", "closed"} : PublishCalendar(d, value)
    \/ Record
    \/ \E r \in Requests : Request(r[1], r[2], r[3])
    \/ Plan
    \/ PublishDay
    \/ Fail

Spec == Init /\ [][Next]_vars

-----------------------------------------------------------------------------
Readable == pc = "idle" /\ replaced = 0

(* A streak that is published, known and not marked is that of the complete            *)
(* computation over the data as they are, its sessions without a bar included; an      *)
(* unknown one only says less.  Whatever was computed, failed, was changed or was      *)
(* computed again before, and from whichever day on (compute_limit_events()).          *)
KnownStreaksAreRight ==
    Readable =>
        \A d \in Fresh :
            LET full == Row(d, Complete[d])
            IN  \/ published[d] = full
                \/ published[d].n = Unknown
                   /\ <<published[d].class, full.class>> \in
                          {<<"event", "event">>, <<"unknown", "gap">>}

(* Computed in pieces, a history is what it would be computed at once, unknown streaks *)
(* included, as compute_limit_events() says of a suffix: if no day of it is marked or  *)
(* missing, the calendar knows its days, and the facts its suspensions.                *)
PiecesMakeTheWhole ==
    Readable =>
        \A d \in Fresh :
            /\ Sessions \cap 1..d \subseteq Fresh
            /\ \A x \in 1..d : calendar[x] # "none" /\ (bars[x] = "halted" => x \in facts)
            => published[d] = Row(d, Complete[d])

(* A computation that runs to its end leaves nothing marked behind it: none of the      *)
(* sessions from its first requested day on, up to the last one with a bar, that were   *)
(* published before it or by it (its docstring: "the affected suffix is recomputed as a *)
(* whole").                                                                             *)
SuffixIsRedone ==
    [][pc = "running" /\ pc' = "idle" /\ failures' = failures /\ propagate =>
          \A d \in Published' \cap Sessions :
              first <= d /\ (d <= last \/ \E m \in market : d <= m) => d \notin stale']_vars
=============================================================================
