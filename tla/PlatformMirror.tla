--------------------------- MODULE PlatformMirror ---------------------------
(***************************************************************************)
(* The mirror of a layout-2 pool: src/aspool/platform_v2.py, with the      *)
(* writers that call it (sqlite_daily_sync.py, sqlite_summary_repair.py)   *)
(* and the readers of sqlite_read_api.py.                                  *)
(*                                                                         *)
(* stocks.sqlite is the authority.  features.sqlite and adjustments.sqlite *)
(* mirror its features, summaries and factors for the readers.  A writer   *)
(* commits to stocks.sqlite first and then, in three more commits, copies  *)
(* what it changed; a mirror that was left behind is rebuilt by reconcile  *)
(* or by prepare.  Three files are never committed together, so readers    *)
(* and writers compare revisions.                                          *)
(*                                                                         *)
(* The content of a row is the revision at which it was last changed, and  *)
(* 0 if there is no such row.                                              *)
(***************************************************************************)
EXTENDS Naturals, FiniteSetsExt

CONSTANTS
    Procs,       \* processes that maintain the pool
    Faulty,      \* those that may raise or exit between two commits
    Readers,
    Symbols, Days,
    Stores,      \* the contents of stocks.sqlite to start from
    MaxRevision, \* bound: commits to stocks.sqlite
    NoOne

ASSUME ConstantsAssumption ==
    /\ Faulty \subseteq Procs
    /\ NoOne \notin Procs
    /\ MaxRevision \in Nat \ {0}
    /\ Stores \subseteq [features : [Symbols \X Days -> {0, 1}], summary : [Days -> {0, 1}],
                         factors : [Symbols -> {0, 1}]]

Datasets == {"features", "summary"}
Revisions == 0..MaxRevision

VARIABLES
    stocks,   \* stocks.sqlite: its revision, features, summaries and factors
    mirror,   \* features.sqlite: the copies, feature_state and migration_state;
              \* history: a prepare has begun to copy anew and none was certified since
    adjust,   \* adjustments.sqlite: the factors and adjustment_state
    layout,   \* pool_metadata
    holder,   \* the process that holds LOCK_EX on the pool, or NoOne
    phase,    \* what it does next
    job,      \* the change that it mirrors
    view      \* the files that a reader has pinned, and whether it accepts them

files == <<stocks, mirror, adjust, layout>>
vars == <<files, holder, phase, job, view>>

Contents ==
    [revision : Revisions, features : [Symbols \X Days -> Revisions],
     summary : [Days -> Revisions], factors : [Symbols -> Revisions]]
States == [status : {"READY", "DIRTY"}, raw : Revisions, factor : Revisions]
Mirrors ==
    [features : [Symbols \X Days -> Revisions], summary : [Days -> Revisions],
     state : [{} -> States] \cup [Datasets -> States],
     copy : [status : {"none", "file", "schema", "COPYING", "COMPLETE"},
             revision : Revisions, done : SUBSET Symbols],
     torn : BOOLEAN]
Factors == [factors : [Symbols -> Revisions], revision : Revisions]
Pinned == {{}, {"stocks"}, {"stocks", "mirror"}, {"stocks", "mirror", "adjust"}}

NoJob == [symbols |-> {}, dates |-> {}, previous |-> 0]
NoView == [pinned |-> {}, stocks |-> <<>>, mirror |-> <<>>, adjust |-> <<>>, open |-> FALSE]
Unprepared ==
    [features |-> [c \in Symbols \X Days |-> 0], summary |-> [d \in Days |-> 0],
     state |-> [k \in {} |-> 0], copy |-> [status |-> "none", revision |-> 0, done |-> {}],
     torn |-> FALSE]

State(status, raw, factor) == [status |-> status, raw |-> raw, factor |-> factor]

Phases == {"idle", "dirty", "factors", "ready", "create", "copy", "batches", "summary",
           "certify", "rebuild"}

TypeOK ==
    /\ stocks \in Contents
    /\ mirror \in Mirrors
    /\ adjust \in Factors
    /\ layout \in {1, 2}
    /\ holder \in Procs \cup {NoOne}
    /\ phase \in Phases
    /\ phase = "idle" <=> holder = NoOne
    /\ job \in [symbols : SUBSET Symbols, dates : SUBSET Days, previous : Revisions]
    /\ view \in [Readers -> [pinned : Pinned, stocks : Contents \cup {<<>>},
                             mirror : Mirrors \cup {<<>>}, adjust : Factors \cup {<<>>},
                             open : BOOLEAN]]

(* A pool of layout 1 that has no mirror yet. *)
Init ==
    /\ \E store \in Stores :
          stocks = [revision |-> 1, features |-> store.features, summary |-> store.summary,
                    factors |-> store.factors]
    /\ mirror = Unprepared
    /\ adjust = [factors |-> [s \in Symbols |-> 0], revision |-> 0]
    /\ layout = 1
    /\ holder = NoOne /\ phase = "idle" /\ job = NoJob
    /\ view = [r \in Readers |-> NoView]

-----------------------------------------------------------------------------
(* features.sqlite is a file, be it an empty one. *)
Prepared == mirror.copy.status # "none"
HasSchema == mirror.copy.status \notin {"none", "file"}

(* coalesce(max(updated_at), 0) *)
Newest(factors) == Max({0} \cup {factors[s] : s \in Symbols})

OfRevision(copies, revision) ==
    /\ DOMAIN copies.state = Datasets
    /\ \A k \in Datasets : /\ copies.state[k].status = "READY"
                           /\ copies.state[k].raw = revision

(* Fault: the revision of the factors is not compared. *)
FactorsNotCompared(source, copies, factor) == OfRevision(copies, source.revision)

(* The comparison of revisions, by writers and readers alike. *)
Matches(source, copies, factor) ==
    /\ OfRevision(copies, source.revision)
    /\ \A k \in Datasets : copies.state[k].factor = factor.revision

(* require_current_mirror() *)
Current == Matches(stocks, mirror, adjust)

(* The pool lock is given back. *)
Rest == holder' = NoOne /\ phase' = "idle" /\ job' = NoJob

Rows(features, symbols, dates) == {c \in symbols \X dates : features[c] # 0}
Summaries(summary, dates) == {d \in dates : summary[d] # 0}

-----------------------------------------------------------------------------
(* The writers of stocks.sqlite. *)

(* apply_daily_changes() under the lock: features of some symbols and days, the
   summaries of these days, factors of the symbols.  The new revision marks them. *)
Sync(p) ==
    /\ holder = NoOne
    /\ Prepared => Current
    /\ stocks.revision < MaxRevision
    /\ \E symbols \in SUBSET Symbols \ {{}}, dates \in SUBSET Days :
       \E changed \in SUBSET (symbols \X dates), factors \in SUBSET symbols :
          /\ changed # {} \/ factors # {}
          /\ \A d \in dates : \E s \in symbols : <<s, d>> \in changed \/ stocks.features[<<s, d>>] # 0
          /\ LET new == stocks.revision + 1
             IN  stocks' = [revision |-> new,
                            features |-> [c \in Symbols \X Days |->
                                IF c \in changed THEN new ELSE stocks.features[c]],
                            summary |-> [d \in Days |->
                                IF d \in dates THEN new ELSE stocks.summary[d]],
                            factors |-> [s \in Symbols |->
                                IF s \in factors THEN new ELSE stocks.factors[s]]]
          /\ IF Prepared
             THEN /\ holder' = p /\ phase' = "dirty"
                  /\ job' = [symbols |-> symbols, dates |-> dates,
                             previous |-> stocks.revision]
             ELSE UNCHANGED <<holder, phase, job>>
    /\ UNCHANGED <<mirror, adjust, layout, view>>

(* repair_missing_market_summaries(): a day that has features and lacks a part of its
   summary; computing it again changes it or not. *)
RepairSummary(p) ==
    /\ holder = NoOne
    /\ Prepared => Current
    /\ \E d \in Days :
          /\ Rows(stocks.features, Symbols, {d}) # {}
          /\ \/ stocks' = stocks
             \/ /\ stocks.revision < MaxRevision
                /\ stocks' = [stocks EXCEPT !.revision = @ + 1,
                                            !.summary[d] = stocks.revision + 1]
          /\ IF Prepared
             THEN /\ holder' = p /\ phase' = "dirty"
                  /\ job' = [symbols |-> {}, dates |-> {d}, previous |-> stocks.revision]
             ELSE UNCHANGED <<holder, phase, job>>
    /\ UNCHANGED <<mirror, adjust, layout, view>>

-----------------------------------------------------------------------------
(* _mirror_platform_v2(): three commits. *)

Predecessor == OfRevision(mirror, job.previous)

Copied(target, source, cells) == [c \in DOMAIN target |-> IF c \in cells THEN source[c] ELSE target[c]]

WithCopies(status, factor) ==
    [mirror EXCEPT
        !.features = Copied(@, stocks.features, Rows(stocks.features, job.symbols, job.dates)),
        !.summary = Copied(@, stocks.summary, Summaries(stocks.summary, job.dates)),
        !.state = [k \in Datasets |-> State(status, stocks.revision, @[k].factor)]]

(* Fault: the status stays READY until the copy has failed. *)
MirrorReady(p) ==
    /\ holder = p /\ phase = "dirty"
    /\ Predecessor
    /\ mirror' = IF job.dates = {} THEN mirror ELSE WithCopies("READY", 0)
    /\ phase' = "factors"
    /\ UNCHANGED <<stocks, adjust, layout, holder, job, view>>

(* The features and summaries of the affected days, marked DIRTY with the revision; if
   no day is affected, the transaction goes on. *)
MirrorDirty(p) ==
    /\ holder = p /\ phase = "dirty"
    /\ Predecessor
    /\ mirror' = IF job.dates = {} THEN mirror ELSE WithCopies("DIRTY", 0)
    /\ phase' = "factors"
    /\ UNCHANGED <<stocks, adjust, layout, holder, job, view>>

(* All factors of the symbols. *)
MirrorFactors(p) ==
    /\ holder = p /\ phase = "factors"
    /\ adjust' = IF job.symbols = {} THEN adjust
                 ELSE LET factors == Copied(adjust.factors, stocks.factors, job.symbols)
                      IN  [factors |-> factors, revision |-> Newest(factors)]
    /\ phase' = "ready"
    /\ UNCHANGED <<stocks, mirror, layout, holder, job, view>>

(* READY if rows were copied; without days, the revision moves and the status stays. *)
MirrorEnd(p) ==
    /\ holder = p /\ phase = "ready"
    /\ LET rows == Rows(stocks.features, job.symbols, job.dates)
           summaries == Summaries(stocks.summary, job.dates)
           written == {k \in Datasets :
                         \/ k = "features" /\ rows # {}
                         \/ k = "features" /\ job.symbols = {} /\ summaries # {}
                         \/ k = "summary" /\ summaries # {}}
       IN  mirror' = [mirror EXCEPT !.state = [k \in Datasets |->
               IF k \in written \/ (job.dates = {} /\ @[k].status = "READY")
               THEN State("READY", stocks.revision, adjust.revision)
               ELSE [@[k] EXCEPT !.factor = adjust.revision]]]
    /\ Rest
    /\ UNCHANGED <<stocks, adjust, layout, view>>

-----------------------------------------------------------------------------
(* reconcile_platform_v2(). *)

AllFactors == [factors |-> stocks.factors, revision |-> Newest(stocks.factors)]

ReconcileFactors(p) ==
    /\ holder = NoOne
    /\ Prepared
    /\ holder' = p /\ phase' = "rebuild"
    /\ adjust' = AllFactors
    /\ UNCHANGED <<stocks, mirror, layout, job, view>>

(* Fault: the revision of the stocks stands for that of the factors. *)
ReconcileFeaturesRaw(p) ==
    /\ holder = p /\ phase = "rebuild"
    /\ HasSchema
    /\ mirror' = [mirror EXCEPT !.features = stocks.features, !.summary = stocks.summary,
                  !.torn = FALSE,
                  !.state = [k \in Datasets |-> State("READY", stocks.revision, stocks.revision)]]
    /\ Rest
    /\ UNCHANGED <<stocks, adjust, layout, view>>

(* _reconcile_features(): one transaction. *)
ReconcileFeatures(p) ==
    /\ holder = p /\ phase = "rebuild"
    /\ HasSchema
    /\ mirror' = [mirror EXCEPT !.features = stocks.features, !.summary = stocks.summary,
                  !.torn = FALSE,
                  !.state = [k \in Datasets |-> State("READY", stocks.revision, adjust.revision)]]
    /\ Rest
    /\ UNCHANGED <<stocks, adjust, layout, view>>

(* It raises on a file without its schema, which was never prepared. *)
ReconcileRefused(p) ==
    /\ holder = p /\ phase = "rebuild"
    /\ ~HasSchema
    /\ Rest
    /\ UNCHANGED <<files, view>>

-----------------------------------------------------------------------------
(* prepare_platform_v2(): the copy of all rows, in batches that a later call resumes.
   Nothing keeps it from a mirror that is in use. *)

PrepareFactors(p) ==
    /\ holder = NoOne
    /\ holder' = p /\ phase' = IF HasSchema THEN "copy" ELSE "create"
    /\ adjust' = AllFactors
    /\ UNCHANGED <<stocks, mirror, layout, job, view>>

(* _connect() creates the file, executescript() the tables. *)
PrepareCreate(p) ==
    /\ holder = p /\ phase = "create"
    /\ IF Prepared
       THEN mirror' = [mirror EXCEPT !.copy.status = "schema"] /\ phase' = "copy"
       ELSE mirror' = [mirror EXCEPT !.copy.status = "file"] /\ phase' = phase
    /\ UNCHANGED <<stocks, adjust, layout, holder, job, view>>

(* _copy_feature_table(): nothing to do, go on, or start again, with the table emptied if
   it was copied before.  The states of feature_state stay what they are. *)
PrepareCopy(p) ==
    /\ holder = p /\ phase = "copy"
    /\ LET copy == mirror.copy
           same == copy.revision = stocks.revision
       IN  IF copy.status = "COMPLETE" /\ same
           THEN /\ phase' = "summary"
                /\ UNCHANGED mirror
           ELSE /\ phase' = "batches"
                /\ mirror' = [mirror EXCEPT
                       !.features = IF same \/ copy.status = "schema" THEN @
                                    ELSE Unprepared.features,
                       !.torn = @ \/ ~same,
                       !.copy = [status |-> "COPYING", revision |-> stocks.revision,
                                 done |-> IF same THEN @.done ELSE {}]]
    /\ UNCHANGED <<stocks, adjust, layout, holder, job, view>>

PrepareBatch(p) ==
    /\ holder = p /\ phase = "batches"
    /\ \E s \in Symbols \ mirror.copy.done :
          mirror' = [mirror EXCEPT
              !.features = Copied(@, stocks.features, {s} \X Days),
              !.copy.done = @ \cup {s}]
    /\ UNCHANGED <<stocks, adjust, layout, holder, phase, job, view>>

PrepareCopied(p) ==
    /\ holder = p /\ phase = "batches"
    /\ mirror.copy.done = Symbols
    /\ mirror' = [mirror EXCEPT !.copy = [@ EXCEPT !.status = "COMPLETE"]]
    /\ phase' = "summary"
    /\ UNCHANGED <<stocks, adjust, layout, holder, job, view>>

PrepareSummary(p) ==
    /\ holder = p /\ phase = "summary"
    /\ mirror' = [mirror EXCEPT !.summary = stocks.summary]
    /\ phase' = "certify"
    /\ UNCHANGED <<stocks, adjust, layout, holder, job, view>>

PrepareReady(p) ==
    /\ holder = p /\ phase = "certify"
    /\ mirror' = [mirror EXCEPT
           !.torn = FALSE,
           !.state = [k \in Datasets |-> State("READY", stocks.revision, adjust.revision)]]
    /\ Rest
    /\ UNCHANGED <<stocks, adjust, layout, view>>

-----------------------------------------------------------------------------
Equal ==
    /\ mirror.features = stocks.features
    /\ mirror.summary = stocks.summary
    /\ adjust.factors = stocks.factors

(* activate_platform_v2(): only after the comparison of all rows. *)
Activate ==
    /\ holder = NoOne
    /\ Current /\ Equal
    /\ layout' = 2
    /\ UNCHANGED <<stocks, mirror, adjust, holder, phase, job, view>>

Rollback ==
    /\ holder = NoOne
    /\ layout' = 1
    /\ UNCHANGED <<stocks, mirror, adjust, holder, phase, job, view>>

(* The process raises or exits between two commits. *)
Stop(p) ==
    /\ p \in Faulty
    /\ holder = p
    /\ Rest
    /\ UNCHANGED <<files, view>>

-----------------------------------------------------------------------------
(* StockSnapshot: the three files are pinned one after the other, without the lock. *)

OpenStocks(r) ==
    /\ view[r] = NoView
    /\ layout = 2
    /\ view' = [view EXCEPT ![r] = [NoView EXCEPT !.pinned = {"stocks"}, !.stocks = stocks]]
    /\ UNCHANGED <<files, holder, phase, job>>

(* What is refused in the end whatever the factors are is refused at once. *)
OpenFeatures(r) ==
    /\ view[r].pinned = {"stocks"}
    /\ view' = [view EXCEPT ![r] =
           IF OfRevision(mirror, view[r].stocks.revision)
           THEN [view[r] EXCEPT !.pinned = {"stocks", "mirror"}, !.mirror = mirror]
           ELSE NoView]
    /\ UNCHANGED <<files, holder, phase, job>>

(* The snapshot is opened if the revisions agree, and refused otherwise. *)
OpenFactors(r) ==
    /\ view[r].pinned = {"stocks", "mirror"}
    /\ view' = [view EXCEPT ![r] =
           IF Matches(view[r].stocks, view[r].mirror, adjust)
           THEN [view[r] EXCEPT !.pinned = {"stocks", "mirror", "adjust"}, !.adjust = adjust,
                                !.open = TRUE]
           ELSE NoView]
    /\ UNCHANGED <<files, holder, phase, job>>

Close(r) ==
    /\ view[r].open
    /\ view' = [view EXCEPT ![r] = NoView]
    /\ UNCHANGED <<files, holder, phase, job>>

-----------------------------------------------------------------------------
Step(p) ==
    \/ MirrorDirty(p) \/ MirrorFactors(p) \/ MirrorEnd(p)
    \/ ReconcileFeatures(p) \/ ReconcileRefused(p)
    \/ PrepareCreate(p) \/ PrepareCopy(p) \/ PrepareBatch(p) \/ PrepareCopied(p) \/ PrepareSummary(p)
    \/ PrepareReady(p)

Next ==
    \/ \E p \in Procs : \/ Sync(p) \/ RepairSummary(p)
                        \/ ReconcileFactors(p) \/ PrepareFactors(p)
                        \/ Step(p) \/ Stop(p)
    \/ Activate \/ Rollback
    \/ \E r \in Readers : \/ OpenStocks(r) \/ OpenFeatures(r) \/ OpenFactors(r)
                          \/ Close(r)

Spec == Init /\ [][Next]_vars

FairSpec ==
    /\ Spec
    /\ \A p \in Procs : WF_vars(Step(p) \/ Stop(p))
    /\ \A p \in Procs \ Faulty : SF_vars(ReconcileFactors(p))

-----------------------------------------------------------------------------
(* A mirror that require_current_mirror() accepts has every row, summary and factor of   *)
(* stocks.sqlite, whichever change was mirrored, interrupted or rebuilt before.  The     *)
(* exception: a prepare on a mirror in use has begun to copy it anew, and neither a      *)
(* prepare nor a reconcile has ended since.                                              *)
MirrorIsCurrent == holder = NoOne /\ Current /\ ~mirror.torn => Equal

(* The three files that a snapshot has pinned one by one, while writers commit, are of   *)
(* one revision (StockSnapshot), unless the mirror was pinned while it was copied anew;  *)
(* the factors are even then.                                                            *)
SnapshotIsOneRevision ==
    \A r \in Readers : view[r].open =>
        /\ \/ view[r].mirror.torn
           \/ /\ view[r].mirror.features = view[r].stocks.features
              /\ view[r].mirror.summary = view[r].stocks.summary
        /\ view[r].adjust.factors = view[r].stocks.factors

(* From whatever an interrupted prepare, mirror or reconcile has left of a mirror that   *)
(* has its schema, the command that DERIVED_NOT_READY names leads back to a mirror that  *)
(* writers accept.                                                                       *)
MirrorRecovers == HasSchema ~> Current

(* What require_current_mirror() says of itself: a later slice never certifies rows that *)
(* are missing.  Refuted: prepare empties a mirror that is READY and is interrupted.     *)
SliceCertifiesAllRows == [][\A p \in Procs : MirrorEnd(p) /\ Current' => Equal']_vars
=============================================================================
