------------------------ MODULE PlatformMirrorProofs ------------------------
(***************************************************************************)
(* Proofs about PlatformMirror, for any symbols, days, stores, processes,  *)
(* readers and numbers of changes: a mirror that is accepted is a copy,    *)
(* and a snapshot is of one revision.                                      *)
(*                                                                         *)
(* Only the newest of the factors tells which factors a mirror has.  What  *)
(* was stocks.sqlite once is therefore remembered (Remembered): its        *)
(* revision and the newest of its factors each stand for one content.      *)
(***************************************************************************)
EXTENDS PlatformMirror, TLAPS, NaturalsInduction, WellFoundedInduction

Mirroring == {"dirty", "factors", "ready"}
Preparing == {"create", "copy", "batches", "summary", "certify"}

(* If the copies say that they are of the revision of X, they are those of X; a prepare
   may have torn the rows, and never the factors. *)
Describes(X) ==
    OfRevision(mirror, X.revision) =>
        /\ ~mirror.torn => mirror.features = X.features /\ mirror.summary = X.summary
        /\ \A k \in Datasets : mirror.state[k].factor = Newest(X.factors)

(* X is stocks.sqlite, or what it was: its factors are told by the newest of them. *)
Remembered(X) ==
    /\ X \in Contents
    /\ \A s \in Symbols : X.factors[s] <= X.revision
    /\ X.revision <= stocks.revision
    /\ X.revision = stocks.revision => X = stocks
    /\ Newest(X.factors) <= Newest(stocks.factors)
    /\ Newest(X.factors) = Newest(stocks.factors) => X.factors = stocks.factors
    /\ adjust.revision = Newest(X.factors) => adjust.factors = X.factors
    /\ Describes(X)

StocksInvariant ==
    /\ stocks.revision >= 1
    /\ Remembered(stocks)
    /\ adjust.revision <= stocks.revision
    /\ adjust.revision = Newest(adjust.factors)
    /\ \A k \in DOMAIN mirror.state : mirror.state[k].raw <= stocks.revision
    /\ mirror.copy.revision <= stocks.revision
    /\ OfRevision(mirror, stocks.revision) => adjust.factors = stocks.factors

(* A row that is not copied yet is in the slice of the change, and there. *)
PhaseInvariant ==
    /\ phase \in Mirroring =>
          /\ DOMAIN mirror.state = Datasets
          /\ job.previous <= stocks.revision
          /\ \A s \in Symbols \ job.symbols : adjust.factors[s] = stocks.factors[s]
          /\ \A k \in Datasets :
                IF phase = "dirty" \/ job.dates = {}
                THEN mirror.state[k].status = "READY" /\ mirror.state[k].raw = job.previous
                ELSE mirror.state[k].status = "DIRTY"
    /\ phase = "dirty" /\ ~mirror.torn =>
          /\ \A c \in Symbols \X Days :
                \/ mirror.features[c] = stocks.features[c]
                \/ c \in Rows(stocks.features, job.symbols, job.dates)
          /\ \A d \in Days :
                \/ mirror.summary[d] = stocks.summary[d]
                \/ d \in Summaries(stocks.summary, job.dates)
    /\ phase \in {"factors", "ready"} /\ ~mirror.torn =>
          mirror.features = stocks.features /\ mirror.summary = stocks.summary
    /\ phase \in {"ready", "rebuild"} \cup Preparing => adjust.factors = stocks.factors

(* What a copy has done so far.  Where none was begun since the mirror was certified,
   the copies are of the revision that the copy is of. *)
Copying == mirror.copy.status \in {"COPYING", "COMPLETE"}
CopyInvariant ==
    /\ phase = "create" => ~HasSchema
    /\ phase = "batches" =>
          mirror.copy.status = "COPYING" /\ mirror.copy.revision = stocks.revision
    /\ phase \in {"summary", "certify"} => Copying /\ mirror.copy.revision = stocks.revision
    /\ ~Copying => mirror.copy.done = {} /\ mirror.copy.revision = 0
    /\ mirror.copy.status = "COMPLETE" => mirror.copy.done = Symbols
    /\ Copying /\ mirror.copy.revision = stocks.revision =>
          \A s \in mirror.copy.done, d \in Days :
              mirror.features[<<s, d>>] = stocks.features[<<s, d>>]
    /\ Copying /\ mirror.copy.revision = stocks.revision /\ ~mirror.torn =>
          \A k \in DOMAIN mirror.state : mirror.state[k].raw = stocks.revision
    /\ phase \in {"summary", "certify"} => mirror.features = stocks.features
    /\ phase = "certify" => mirror.summary = stocks.summary

(* What a reader has pinned. *)
Viewed(v) ==
    /\ v.pinned # {} => Remembered(v.stocks)
    /\ "mirror" \in v.pinned =>
          /\ ~v.mirror.torn => /\ v.mirror.features = v.stocks.features
                                 /\ v.mirror.summary = v.stocks.summary
          /\ \A k \in Datasets : v.mirror.state[k].factor = Newest(v.stocks.factors)
    /\ v.open => /\ "mirror" \in v.pinned
                 /\ v.adjust.factors = v.stocks.factors
ViewInvariant == \A r \in Readers : Viewed(view[r])

MirrorInvariant ==
    TypeOK /\ StocksInvariant /\ PhaseInvariant /\ CopyInvariant /\ ViewInvariant

-----------------------------------------------------------------------------
(* The newest of the factors. *)

LEMMA Largest ==
    ASSUME NEW n \in Nat, NEW S \in SUBSET (0..n), S # {}
    PROVE  \E i \in S : \A j \in S : i >= j
<1> DEFINE R == {ss \in Nat \X Nat : ss[1] < ss[2]}
           T == {n - i : i \in S}
<1>1. IsWellFoundedOn(R, Nat)
  BY NatLessThanWellFounded DEF OpToRel
<1>2. T \in SUBSET Nat /\ T # {}
  <2>1. \A i \in 0..n : n - i \in Nat
    OBVIOUS
  <2> QED
    BY <2>1
<1>3. \E x \in T : \A y \in T : <<y, x>> \notin R
  <2> HIDE DEF R, T
  <2> QED
    BY <1>1, <1>2, WFMin
<1>4. PICK i \in S : \A y \in T : <<y, n - i>> \notin R
  BY <1>3
<1>5. ASSUME NEW j \in S PROVE i >= j
  <2>1. n - j \in Nat /\ n - i \in Nat /\ <<n - j, n - i>> \in Nat \X Nat
    BY <1>2
  <2>2. <<n - j, n - i>> \notin R
    BY <1>4
  <2>3. ~(n - j < n - i)
    BY <2>1, <2>2
  <2> QED
    BY <2>3
<1> QED
  BY <1>5

LEMMA NewestBounds ==
    ASSUME NEW n \in Nat, NEW f, \A s \in Symbols : f[s] \in 0..n
    PROVE  Newest(f) \in 0..n /\ \A s \in Symbols : f[s] <= Newest(f)
<1> DEFINE S == {0} \cup {f[s] : s \in Symbols}
<1>1. S \in SUBSET (0..n) /\ S # {}
  OBVIOUS
<1>2. \E i \in S : \A j \in S : i >= j
  <2> HIDE DEF S
  <2> QED
    BY <1>1, Largest
<1>3. Newest(f) \in S /\ \A j \in S : Newest(f) >= j
  <2>1. Newest(f) = CHOOSE i \in S : \A j \in S : i >= j
    BY DEF Newest, Max
  <2> HIDE DEF S
  <2> QED
    BY <1>2, <2>1
<1> QED
  BY <1>1, <1>3

(* Factors of nothing. *)
LEMMA NewestOfNone ==
    ASSUME NEW f, \A s \in Symbols : f[s] = 0
    PROVE  Newest(f) = 0
  BY NewestBounds

-----------------------------------------------------------------------------
(* Types. *)

LEMMA UnpreparedType == Unprepared \in Mirrors
  BY ConstantsAssumption DEF Unprepared, Mirrors, Revisions

LEMMA InitType == Init => TypeOK
<1> SUFFICES ASSUME Init PROVE TypeOK
  OBVIOUS
<1> USE ConstantsAssumption
<1>1. stocks \in Contents
  <2>1. PICK store \in Stores :
          stocks = [revision |-> 1, features |-> store.features, summary |-> store.summary,
                    factors |-> store.factors]
    BY DEF Init
  <2>2. 0 \in Revisions /\ 1 \in Revisions
    BY DEF Revisions
  <2> QED
    BY <2>1, <2>2 DEF Contents
<1>2. adjust \in Factors /\ job \in [symbols : SUBSET Symbols, dates : SUBSET Days, previous : Revisions]
  BY DEF Init, Factors, Revisions, NoJob
<1>3. view \in [Readers -> [pinned : Pinned, stocks : Contents \cup {<<>>},
                             mirror : Mirrors \cup {<<>>}, adjust : Factors \cup {<<>>},
                             open : BOOLEAN]]
  BY DEF Init, NoView, Pinned
<1> QED
  BY <1>1, <1>2, <1>3, UnpreparedType DEF TypeOK, Init, Phases

(* The values that the steps write. *)
LEMMA NextRevision ==
    ASSUME TypeOK, stocks.revision < MaxRevision
    PROVE  stocks.revision + 1 \in Revisions
  BY ConstantsAssumption DEF TypeOK, Contents, Revisions

LEMMA NewestType ==
    ASSUME NEW f \in [Symbols -> Revisions]
    PROVE  Newest(f) \in Revisions
  BY NewestBounds, ConstantsAssumption DEF Revisions

LEMMA StatesType ==
    ASSUME NEW x \in {"READY", "DIRTY"}, NEW raw \in Revisions, NEW factor \in Revisions
    PROVE  State(x, raw, factor) \in States
  BY DEF State, States

LEMMA CopiedType ==
    ASSUME NEW D, NEW target \in [D -> Revisions], NEW source \in [D -> Revisions], NEW cells
    PROVE  Copied(target, source, cells) \in [D -> Revisions]
  BY DEF Copied

(* A mirror with other rows and states is a mirror. *)
LEMMA MirrorType ==
    ASSUME TypeOK, NEW f \in [Symbols \X Days -> Revisions], NEW u \in [Days -> Revisions],
           NEW st \in [Datasets -> States]
    PROVE  [mirror EXCEPT !.features = f, !.summary = u, !.state = st] \in Mirrors
  BY DEF TypeOK, Mirrors

LEMMA MirrorStateType ==
    ASSUME TypeOK, NEW st \in [Datasets -> States]
    PROVE  [mirror EXCEPT !.state = st] \in Mirrors
  BY DEF TypeOK, Mirrors

JobType == job \in [symbols : SUBSET Symbols, dates : SUBSET Days, previous : Revisions]
Views ==
    [pinned : Pinned, stocks : Contents \cup {<<>>}, mirror : Mirrors \cup {<<>>},
     adjust : Factors \cup {<<>>}, open : BOOLEAN]
ViewType == view \in [Readers -> Views]
HolderType ==
    /\ layout \in {1, 2}
    /\ holder \in Procs \cup {NoOne}
    /\ phase \in Phases
    /\ phase = "idle" <=> holder = NoOne

LEMMA TypeParts ==
    /\ TypeOK <=> /\ stocks \in Contents /\ mirror \in Mirrors /\ adjust \in Factors
                  /\ HolderType /\ JobType /\ ViewType
    /\ TypeOK' <=> /\ stocks' \in Contents /\ mirror' \in Mirrors /\ adjust' \in Factors
                   /\ HolderType' /\ JobType' /\ ViewType'
  BY DEF TypeOK, HolderType, JobType, ViewType, Views

LEMMA NoViewType == NoView \in Views
  BY DEF NoView, Views, Pinned

LEMMA StatesOfMirror ==
    ASSUME TypeOK, DOMAIN mirror.state = Datasets
    PROVE  mirror.state \in [Datasets -> States]
  BY DEF TypeOK, Mirrors, Datasets

(* What Sync writes, its features and factors named by their slice. *)
Changed(p, symbols, dates) ==
    /\ \E changed \in SUBSET (symbols \X dates), factors \in SUBSET symbols :
          LET new == stocks.revision + 1
          IN  stocks' = [revision |-> new,
                         features |-> [c \in Symbols \X Days |->
                             IF c \in changed THEN new ELSE stocks.features[c]],
                         summary |-> [d \in Days |->
                             IF d \in dates THEN new ELSE stocks.summary[d]],
                         factors |-> [s \in Symbols |->
                             IF s \in factors THEN new ELSE stocks.factors[s]]]
    /\ IF Prepared
       THEN /\ holder' = p /\ phase' = "dirty"
            /\ job' = [symbols |-> symbols, dates |-> dates, previous |-> stocks.revision]
       ELSE UNCHANGED <<holder, phase, job>>

LEMMA SyncChanges ==
    ASSUME NEW p, Sync(p)
    PROVE  \E symbols \in SUBSET Symbols, dates \in SUBSET Days : Changed(p, symbols, dates)
  BY DEF Sync, Changed

(* What RepairSummary leaves. *)
Repaired(p, d) ==
    /\ \/ stocks' = stocks
       \/ /\ stocks.revision < MaxRevision
          /\ stocks' = [stocks EXCEPT !.revision = @ + 1, !.summary[d] = stocks.revision + 1]
    /\ IF Prepared
       THEN /\ holder' = p /\ phase' = "dirty"
            /\ job' = [symbols |-> {}, dates |-> {d}, previous |-> stocks.revision]
       ELSE UNCHANGED <<holder, phase, job>>

LEMMA RepairSummaryRepairs ==
    ASSUME NEW p, RepairSummary(p)
    PROVE  \E d \in Days : Repaired(p, d)
  BY DEF RepairSummary, Repaired

LEMMA TypeStep ==
    ASSUME TypeOK, PhaseInvariant, [Next]_vars
    PROVE  TypeOK'
<1> USE ConstantsAssumption, TypeParts DEF HolderType, Phases, files
<1>1. ASSUME NEW p \in Procs, Sync(p) PROVE TypeOK'
  <2>1. PICK symbols \in SUBSET Symbols, dates \in SUBSET Days :
             Changed(p, symbols, dates)
    BY <1>1, SyncChanges
  <2>2. stocks.revision + 1 \in Revisions
    BY <1>1, NextRevision DEF Sync
  <2>3. stocks' \in Contents
    BY <2>1, <2>2 DEF Changed, Contents
  <2>4. JobType'
    BY <2>1 DEF Changed, JobType, Contents
  <2>5. HolderType'
    BY <1>1, <2>1 DEF Changed, Sync
  <2> QED
    BY <1>1, <2>3, <2>4, <2>5 DEF Sync, ViewType
<1>2. ASSUME NEW p \in Procs, RepairSummary(p) PROVE TypeOK'
  <2>1. PICK d \in Days : Repaired(p, d)
    BY <1>2, RepairSummaryRepairs
  <2>2. CASE stocks' = stocks
    BY <1>2, <2>1, <2>2 DEF Repaired, RepairSummary, JobType, ViewType, Contents
  <2>3. CASE /\ stocks.revision < MaxRevision
             /\ stocks' = [stocks EXCEPT !.revision = @ + 1, !.summary[d] = stocks.revision + 1]
    <3>1. stocks' \in Contents
      BY <2>3, NextRevision DEF Contents
    <3> QED
      BY <1>2, <2>1, <3>1 DEF Repaired, RepairSummary, JobType, ViewType, Contents
  <2> QED
    BY <2>1, <2>2, <2>3 DEF Repaired
<1>3. ASSUME NEW p \in Procs, MirrorDirty(p) PROVE TypeOK'
  <2>1. mirror' \in Mirrors
    <3> DEFINE F == Copied(mirror.features, stocks.features,
                           Rows(stocks.features, job.symbols, job.dates))
               U == Copied(mirror.summary, stocks.summary,
                           Summaries(stocks.summary, job.dates))
               T == [k \in Datasets |-> State("DIRTY", stocks.revision, mirror.state[k].factor)]
    <3>1. mirror.state \in [Datasets -> States]
      BY <1>3, StatesOfMirror DEF MirrorDirty, PhaseInvariant, Mirroring
    <3>2. F \in [Symbols \X Days -> Revisions] /\ U \in [Days -> Revisions]
      BY CopiedType DEF Mirrors, Contents
    <3>3. T \in [Datasets -> States]
      BY <3>1, StatesType DEF States, Contents
    <3>4. mirror' = mirror \/ mirror' = [mirror EXCEPT !.features = F, !.summary = U, !.state = T]
      BY <1>3 DEF MirrorDirty, WithCopies
    <3> HIDE DEF F, U, T
    <3> QED
      BY <3>2, <3>3, <3>4 DEF Mirrors
  <2> QED
    BY <1>3, <2>1 DEF MirrorDirty, JobType, ViewType
<1>4. ASSUME NEW p \in Procs, MirrorFactors(p) PROVE TypeOK'
  <2>1. adjust' \in Factors
    <3> DEFINE F == Copied(adjust.factors, stocks.factors, job.symbols)
    <3>1. F \in [Symbols -> Revisions]
      BY CopiedType DEF Factors, Contents
    <3>2. adjust' = adjust \/ adjust' = [factors |-> F, revision |-> Newest(F)]
      BY <1>4 DEF MirrorFactors
    <3> HIDE DEF F
    <3> QED
      BY <3>1, <3>2, NewestType DEF Factors
  <2> QED
    BY <1>4, <2>1 DEF MirrorFactors, JobType, ViewType
<1>5. ASSUME NEW p \in Procs, MirrorEnd(p) PROVE TypeOK'
  <2>1. mirror' \in Mirrors
    <3>1. mirror.state \in [Datasets -> States]
      BY <1>5, StatesOfMirror DEF MirrorEnd, PhaseInvariant, Mirroring
    <3>2. PICK T : /\ mirror' = [mirror EXCEPT !.state = [k \in Datasets |-> T[k]]]
                   /\ \A k \in Datasets :
                         \/ T[k] = State("READY", stocks.revision, adjust.revision)
                         \/ T[k] = [mirror.state[k] EXCEPT !.factor = adjust.revision]
      <4> DEFINE rows == Rows(stocks.features, job.symbols, job.dates)
                 summaries == Summaries(stocks.summary, job.dates)
                 written == {k \in Datasets :
                               \/ k = "features" /\ rows # {}
                               \/ k = "features" /\ job.symbols = {} /\ summaries # {}
                               \/ k = "summary" /\ summaries # {}}
                 T == [k \in Datasets |->
                         IF k \in written \/ (job.dates = {} /\ mirror.state[k].status = "READY")
                         THEN State("READY", stocks.revision, adjust.revision)
                         ELSE [mirror.state[k] EXCEPT !.factor = adjust.revision]]
      <4>1. mirror' = [mirror EXCEPT !.state = T]
        BY <1>5 DEF MirrorEnd
      <4>2. T = [k \in Datasets |-> T[k]]
        OBVIOUS
      <4>3. \A k \in Datasets :
              \/ T[k] = State("READY", stocks.revision, adjust.revision)
              \/ T[k] = [mirror.state[k] EXCEPT !.factor = adjust.revision]
        OBVIOUS
      <4> HIDE DEF T
      <4> QED
        BY <4>1, <4>2, <4>3
    <3>3. ASSUME NEW k \in Datasets PROVE T[k] \in States
      <4>1. mirror.state[k] \in States /\ adjust.revision \in Revisions /\ stocks.revision \in Revisions
        BY <3>1 DEF Contents, Factors
      <4>2. [mirror.state[k] EXCEPT !.factor = adjust.revision] \in States
        BY <4>1 DEF States
      <4> QED
        BY <3>2, <4>1, <4>2, StatesType
    <3>4. [k \in Datasets |-> T[k]] \in [Datasets -> States]
      BY <3>3
    <3> QED
      BY <3>2, <3>4, MirrorStateType
  <2> QED
    BY <1>5, <2>1 DEF MirrorEnd, Rest, NoJob, JobType, ViewType, Revisions
<1>6. ASSUME NEW p \in Procs, ReconcileFactors(p) \/ PrepareFactors(p) PROVE TypeOK'
  <2>1. adjust' \in Factors
    BY <1>6, NewestType DEF ReconcileFactors, PrepareFactors, AllFactors, Factors, Contents
  <2>2. HolderType'
    BY <1>6 DEF ReconcileFactors, PrepareFactors
  <2> QED
    BY <1>6, <2>1, <2>2 DEF ReconcileFactors, PrepareFactors, JobType, ViewType
<1>7. ASSUME NEW p \in Procs, ReconcileFeatures(p) \/ PrepareReady(p) PROVE TypeOK'
  <2>1. mirror' \in Mirrors
    <3> DEFINE T == [k \in Datasets |-> State("READY", stocks.revision, adjust.revision)]
    <3>1. T \in [Datasets -> States]
      BY StatesType DEF Contents, Factors
    <3>2. \/ mirror' = [mirror EXCEPT !.features = stocks.features, !.summary = stocks.summary,
                                     !.torn = FALSE, !.state = T]
          \/ mirror' = [mirror EXCEPT !.torn = FALSE, !.state = T]
      BY <1>7 DEF ReconcileFeatures, PrepareReady
    <3> HIDE DEF T
    <3> QED
      BY <3>1, <3>2 DEF Contents, Mirrors
  <2> QED
    BY <1>7, <2>1 DEF ReconcileFeatures, PrepareReady, Rest, NoJob, JobType, ViewType, Revisions
<1>8. ASSUME NEW p \in Procs, PrepareCopy(p) PROVE TypeOK'
  <2>1. ASSUME mirror' # mirror PROVE mirror' \in Mirrors
    <3> DEFINE same == mirror.copy.revision = stocks.revision
               F == IF same \/ mirror.copy.status = "schema" THEN mirror.features
                    ELSE Unprepared.features
               C == [status |-> "COPYING", revision |-> stocks.revision,
                     done |-> IF same THEN mirror.copy.done ELSE {}]
    <3>1. mirror' = [mirror EXCEPT !.features = F, !.torn = @ \/ ~same, !.copy = C]
      BY <1>8, <2>1 DEF PrepareCopy
    <3>2. F \in [Symbols \X Days -> Revisions]
      BY UnpreparedType DEF Mirrors
    <3>3. C \in [status : {"none", "file", "schema", "COPYING", "COMPLETE"},
                revision : Revisions, done : SUBSET Symbols]
      BY DEF Mirrors, Contents
    <3> HIDE DEF F, C
    <3> QED
      BY <3>1, <3>2, <3>3 DEF Mirrors
  <2>2. mirror' \in Mirrors
    BY <2>1
  <2>3. HolderType'
    BY <1>8 DEF PrepareCopy
  <2> QED
    BY <1>8, <2>2, <2>3 DEF PrepareCopy, JobType, ViewType
<1>9. ASSUME NEW p \in Procs, PrepareBatch(p) PROVE TypeOK'
  <2>1. mirror' \in Mirrors
    <3>1. PICK s \in Symbols : mirror' = [mirror EXCEPT
              !.features = Copied(@, stocks.features, {s} \X Days),
              !.copy.done = @ \cup {s}]
      BY <1>9 DEF PrepareBatch
    <3> DEFINE F == Copied(mirror.features, stocks.features, {s} \X Days)
    <3>2. F \in [Symbols \X Days -> Revisions]
      BY CopiedType DEF Mirrors, Contents
    <3>3. mirror' = [mirror EXCEPT !.features = F, !.copy.done = @ \cup {s}]
      BY <3>1
    <3> HIDE DEF F
    <3> QED
      BY <3>2, <3>3 DEF Mirrors
  <2> QED
    BY <1>9, <2>1 DEF PrepareBatch, JobType, ViewType
<1>10. ASSUME NEW p \in Procs, PrepareCopied(p) PROVE TypeOK'
  <2>1. mirror' \in Mirrors
    BY <1>10 DEF PrepareCopied, Mirrors
  <2> QED
    BY <1>10, <2>1 DEF PrepareCopied, JobType, ViewType
<1>11. ASSUME NEW p \in Procs, PrepareSummary(p) PROVE TypeOK'
  <2>1. mirror' \in Mirrors
    BY <1>11 DEF PrepareSummary, Mirrors, Contents
  <2> QED
    BY <1>11, <2>1 DEF PrepareSummary, JobType, ViewType
<1>12. ASSUME NEW p \in Procs, Stop(p) PROVE TypeOK'
  BY <1>12 DEF Stop, Rest, NoJob, JobType, ViewType, Revisions
<1>13. ASSUME Activate \/ Rollback PROVE TypeOK'
  BY <1>13 DEF Activate, Rollback, JobType, ViewType
<1>14. ASSUME NEW r \in Readers, OpenStocks(r) PROVE TypeOK'
  <2>1. ViewType'
    <3> DEFINE v == [NoView EXCEPT !.pinned = {"stocks"}, !.stocks = stocks]
    <3>1. v \in Views
      BY DEF NoView, Views, Pinned
    <3>2. view' = [view EXCEPT ![r] = v]
      BY <1>14 DEF OpenStocks
    <3> HIDE DEF v
    <3> QED
      BY <3>1, <3>2 DEF ViewType
  <2> QED
    BY <1>14, <2>1 DEF OpenStocks, JobType
<1>15. ASSUME NEW r \in Readers, OpenFeatures(r) PROVE TypeOK'
  <2>1. ViewType'
    <3> DEFINE v == [view[r] EXCEPT !.pinned = {"stocks", "mirror"}, !.mirror = mirror]
    <3>1. v \in Views
      <4>1. view[r] \in Views /\ view[r].pinned = {"stocks"}
        BY <1>15 DEF OpenFeatures, ViewType
      <4> QED
        BY <4>1 DEF Views, Pinned
    <3>2. view' = [view EXCEPT ![r] = v] \/ view' = [view EXCEPT ![r] = NoView]
      <4>1. CASE OfRevision(mirror, view[r].stocks.revision)
        BY <1>15, <4>1, Zenon DEF OpenFeatures
      <4>2. CASE ~OfRevision(mirror, view[r].stocks.revision)
        BY <1>15, <4>2, Zenon DEF OpenFeatures
      <4> QED
        BY <4>1, <4>2
    <3> HIDE DEF v
    <3> QED
      BY <3>1, <3>2, NoViewType DEF ViewType
  <2> QED
    BY <1>15, <2>1 DEF OpenFeatures, JobType
<1>16. ASSUME NEW r \in Readers, OpenFactors(r) PROVE TypeOK'
  <2>1. ViewType'
    <3> DEFINE v == [view[r] EXCEPT !.pinned = {"stocks", "mirror", "adjust"},
                                    !.adjust = adjust, !.open = TRUE]
    <3>1. v \in Views
      <4>1. view[r] \in Views /\ view[r].pinned = {"stocks", "mirror"}
        BY <1>16 DEF OpenFactors, ViewType
      <4> QED
        BY <4>1 DEF Views, Pinned
    <3>2. view' = [view EXCEPT ![r] = v] \/ view' = [view EXCEPT ![r] = NoView]
      <4>1. CASE Matches(view[r].stocks, view[r].mirror, adjust)
        BY <1>16, <4>1, Zenon DEF OpenFactors
      <4>2. CASE ~Matches(view[r].stocks, view[r].mirror, adjust)
        BY <1>16, <4>2, Zenon DEF OpenFactors
      <4> QED
        BY <4>1, <4>2
    <3> HIDE DEF v
    <3> QED
      BY <3>1, <3>2, NoViewType DEF ViewType
  <2> QED
    BY <1>16, <2>1 DEF OpenFactors, JobType
<1>17. ASSUME NEW r \in Readers, Close(r) PROVE TypeOK'
  <2>1. ViewType'
    BY <1>17 DEF Close, ViewType, Views, Pinned, NoView
  <2> QED
    BY <1>17, <2>1 DEF Close, JobType
<1>18. ASSUME UNCHANGED vars PROVE TypeOK'
  BY <1>18 DEF vars, JobType, ViewType
<1>19. ASSUME NEW p \in Procs, PrepareCreate(p) PROVE TypeOK'
  <2>1. mirror' \in Mirrors /\ phase' \in {"create", "copy"}
    BY <1>19 DEF PrepareCreate, Mirrors
  <2> QED
    BY <1>19, <2>1 DEF PrepareCreate, JobType, ViewType
<1>20. ASSUME NEW p \in Procs, ReconcileRefused(p) PROVE TypeOK'
  BY <1>20 DEF ReconcileRefused, Rest, NoJob, JobType, ViewType, Revisions
<1> QED
  BY <1>1, <1>2, <1>3, <1>4, <1>5, <1>6, <1>7, <1>8, <1>9, <1>10, <1>11, <1>12, <1>13, <1>14,
     <1>15, <1>16, <1>17, <1>18, <1>19, <1>20 DEF Next, Step

-----------------------------------------------------------------------------
(* What the steps of the writers leave of the pool. *)

LEMMA Numbers ==
    ASSUME TypeOK
    PROVE  /\ stocks.revision \in Nat /\ adjust.revision \in Nat
           /\ stocks.factors \in [Symbols -> Nat] /\ adjust.factors \in [Symbols -> Nat]
           /\ \A k \in DOMAIN mirror.state : mirror.state[k].raw \in Nat
           /\ mirror.copy.revision \in Nat
<1>1. Revisions \in SUBSET Nat
  BY ConstantsAssumption DEF Revisions
<1>2. \A k \in DOMAIN mirror.state : mirror.state[k] \in States
  BY DEF TypeOK, Mirrors
<1>3. \A k \in DOMAIN mirror.state : mirror.state[k].raw \in Nat
  BY <1>1, <1>2 DEF States
<1>4. mirror.copy.revision \in Nat
  BY <1>1 DEF TypeOK, Mirrors
<1> QED
  BY <1>1, <1>3, <1>4 DEF TypeOK, Contents, Factors

LEMMA RememberedNumbers ==
    ASSUME NEW X \in Contents
    PROVE  X.revision \in Nat /\ X.factors \in [Symbols -> Nat]
  BY ConstantsAssumption DEF Contents, Revisions

LEMMA RememberedNewest ==
    ASSUME NEW X \in Contents, \A s \in Symbols : X.factors[s] <= X.revision
    PROVE  /\ Newest(X.factors) \in Nat /\ Newest(X.factors) <= X.revision
           /\ \A s \in Symbols : X.factors[s] <= Newest(X.factors)
<1>1. X.revision \in Nat /\ \A s \in Symbols : X.factors[s] \in 0..X.revision
  BY RememberedNumbers
<1> QED
  BY <1>1, NewestBounds

(* Whatever was stocks.sqlite is still known as such. *)
Keeps == \A X : Remembered(X) => Remembered(X)'

(* A commit to stocks.sqlite. *)
LEMMA Advance ==
    ASSUME TypeOK, TypeOK', StocksInvariant, UNCHANGED <<mirror, adjust>>,
           stocks'.revision = stocks.revision + 1,
           \A s \in Symbols : \/ stocks'.factors[s] = stocks.factors[s]
                             \/ stocks'.factors[s] = stocks.revision + 1
    PROVE  Keeps /\ StocksInvariant'
<1>1. stocks.revision \in Nat /\ stocks'.revision \in Nat /\ stocks' \in Contents
      /\ stocks \in Contents /\ adjust.revision \in Nat
  BY Numbers, TypeParts
<1>2. \A s \in Symbols : stocks.factors[s] <= stocks.revision
  BY DEF StocksInvariant, Remembered
<1>3. \A s \in Symbols : stocks'.factors[s] <= stocks'.revision
  BY <1>1, <1>2, RememberedNumbers
<1>4. /\ Newest(stocks.factors) \in Nat /\ Newest(stocks.factors) <= stocks.revision
      /\ Newest(stocks'.factors) \in Nat /\ Newest(stocks'.factors) <= stocks'.revision
      /\ \A s \in Symbols : stocks'.factors[s] <= Newest(stocks'.factors)
  BY <1>1, <1>2, <1>3, RememberedNewest
<1>5. \/ stocks'.factors = stocks.factors
      \/ Newest(stocks'.factors) = stocks.revision + 1
  <2>1. CASE \E s \in Symbols : stocks'.factors[s] = stocks.revision + 1
    BY <1>1, <1>4, <2>1
  <2>2. CASE \A s \in Symbols : stocks'.factors[s] = stocks.factors[s]
    BY <1>1, <2>2 DEF Contents
  <2> QED
    BY <2>1, <2>2
<1>6. Keeps
  <2> SUFFICES ASSUME NEW X, Remembered(X) PROVE Remembered(X)'
    BY DEF Keeps
  <2>1. /\ X \in Contents /\ X.revision \in Nat
        /\ Newest(X.factors) \in Nat /\ Newest(X.factors) <= stocks.revision
    BY <1>1, RememberedNumbers, RememberedNewest DEF Remembered
  <2>2. Newest(X.factors) <= Newest(stocks'.factors)
    BY <1>1, <1>4, <1>5, <2>1 DEF Remembered
  <2>3. Newest(X.factors) = Newest(stocks'.factors) => X.factors = stocks'.factors
    BY <1>1, <1>4, <1>5, <2>1 DEF Remembered
  <2>4. X.revision <= stocks'.revision /\ X.revision # stocks'.revision
    BY <1>1, <2>1 DEF Remembered
  <2>5. Describes(X)'
    BY DEF Remembered, Describes, OfRevision, Newest
  <2> QED
    BY <2>1, <2>2, <2>3, <2>4, <2>5 DEF Remembered, Newest
<1>7. ~OfRevision(mirror, stocks.revision + 1)
  BY <1>1, Numbers DEF OfRevision, StocksInvariant, Datasets
<1>8. Remembered(stocks)'
  <2>1. adjust'.revision = Newest(stocks'.factors) => adjust'.factors = stocks'.factors
    BY <1>1, <1>5 DEF StocksInvariant, Remembered
  <2>2. Describes(stocks)'
    BY <1>7 DEF Describes
  <2> QED
    BY <1>1, <1>3, <1>4, <2>1, <2>2 DEF Remembered, Newest
<1>9. /\ stocks'.revision >= 1 /\ adjust'.revision <= stocks'.revision
      /\ \A k \in DOMAIN mirror'.state : mirror'.state[k].raw <= stocks'.revision
      /\ mirror'.copy.revision <= stocks'.revision
  BY <1>1, Numbers DEF StocksInvariant
<1> QED
  BY <1>6, <1>7, <1>8, <1>9 DEF StocksInvariant

LEMMA StocksKept ==
    ASSUME StocksInvariant, Keeps, UNCHANGED stocks
    PROVE  Remembered(stocks)'
<1>1. PICK X : X = stocks
  OBVIOUS
<1>2. Remembered(X)'
  BY <1>1 DEF StocksInvariant, Keeps
<1> QED
  BY <1>1, <1>2 DEF Remembered, Describes

(* The factors of stocks.sqlite, all of them. *)
LEMMA FactorsCopied ==
    ASSUME TypeOK, StocksInvariant, UNCHANGED <<stocks, mirror>>,
           adjust'.factors = stocks.factors, adjust'.revision = Newest(stocks.factors)
    PROVE  Keeps /\ StocksInvariant'
<1>1. Keeps
  <2> SUFFICES ASSUME NEW X, Remembered(X) PROVE Remembered(X)'
    BY DEF Keeps
  <2>1. adjust'.revision = Newest(X.factors) => adjust'.factors = X.factors
    BY DEF Remembered
  <2>2. Describes(X)'
    BY DEF Remembered, Describes, OfRevision, Newest
  <2> QED
    BY <2>1, <2>2 DEF Remembered, Newest
<1>2. Remembered(stocks)'
  BY <1>1, StocksKept
<1>3. adjust'.revision <= stocks.revision
  BY TypeParts, RememberedNewest DEF StocksInvariant, Remembered
<1> QED
  BY <1>1, <1>2, <1>3 DEF StocksInvariant, OfRevision

(* A mirror that is of no revision but that of stocks.sqlite, and then is a copy. *)
LEMMA Rewritten ==
    ASSUME TypeOK, StocksInvariant, UNCHANGED <<stocks, adjust>>,
           mirror'.copy = mirror.copy,
           \A k \in DOMAIN mirror'.state : mirror'.state[k].raw <= stocks.revision,
           \A R : OfRevision(mirror', R) =>
                  /\ R = stocks.revision
                  /\ ~mirror'.torn => /\ mirror'.features = stocks.features
                                         /\ mirror'.summary = stocks.summary
                  /\ adjust.factors = stocks.factors
                  /\ \A k \in Datasets : mirror'.state[k].factor = Newest(stocks.factors)
    PROVE  Keeps /\ StocksInvariant'
<1>1. Keeps
  <2> SUFFICES ASSUME NEW X, Remembered(X) PROVE Remembered(X)'
    BY DEF Keeps
  <2>1. OfRevision(mirror', X.revision) => X = stocks
    BY DEF Remembered
  <2>2. Describes(X)'
    BY <2>1 DEF Describes, OfRevision, Newest
  <2> QED
    BY <2>2 DEF Remembered, Newest
<1>2. Remembered(stocks)'
  BY <1>1, StocksKept
<1>3. OfRevision(mirror', stocks.revision) => adjust.factors = stocks.factors
  OBVIOUS
<1> QED
  BY <1>1, <1>2, <1>3 DEF StocksInvariant, OfRevision

(* The states stay; the rows may change where the mirror is of no revision, or torn. *)
LEMMA Unnoticed ==
    ASSUME TypeOK, StocksInvariant, UNCHANGED <<stocks, adjust>>,
           mirror'.state = mirror.state, mirror'.copy.revision <= stocks.revision,
           \A R : OfRevision(mirror, R) /\ ~mirror'.torn =>
                  /\ ~mirror.torn
                  /\ mirror'.features = mirror.features /\ mirror'.summary = mirror.summary
    PROVE  Keeps /\ StocksInvariant'
<1>1. \A R : OfRevision(mirror', R) <=> OfRevision(mirror, R)
  BY DEF OfRevision
<1>2. Keeps
  <2> SUFFICES ASSUME NEW X, Remembered(X) PROVE Remembered(X)'
    BY DEF Keeps
  <2>1. Describes(X)'
    BY <1>1 DEF Remembered, Describes, OfRevision, Newest
  <2> QED
    BY <2>1 DEF Remembered, Newest
<1>3. Remembered(stocks)'
  BY <1>2, StocksKept
<1>4. OfRevision(mirror', stocks.revision) => adjust.factors = stocks.factors
  BY <1>1 DEF StocksInvariant
<1>5. \A k \in DOMAIN mirror'.state : mirror'.state[k].raw <= stocks.revision
  BY DEF StocksInvariant
<1> QED
  BY <1>2, <1>3, <1>4, <1>5 DEF StocksInvariant, OfRevision

(* No file changes. *)
LEMMA Untouched ==
    ASSUME TypeOK, StocksInvariant, UNCHANGED <<stocks, mirror, adjust>>
    PROVE  Keeps /\ StocksInvariant'
<1>1. mirror'.copy.revision <= stocks.revision
  BY DEF StocksInvariant
<1> QED
  BY <1>1, Unnoticed

(* The views that stay. *)
LEMMA ViewedStays ==
    ASSUME Keeps, NEW v, Viewed(v)
    PROVE  Viewed(v)'
  BY DEF Viewed, Keeps, Newest

LEMMA ViewsKept ==
    ASSUME TypeOK, ViewInvariant, Keeps, UNCHANGED view
    PROVE  ViewInvariant'
<1> SUFFICES ASSUME NEW r \in Readers PROVE Viewed(view[r])'
  BY DEF ViewInvariant
<1>1. PICK v : v = view[r]
  OBVIOUS
<1>2. Viewed(v)'
  BY <1>1, ViewedStays DEF ViewInvariant
<1> QED
  BY <1>1, <1>2 DEF Viewed, Remembered, Describes

-----------------------------------------------------------------------------
(* The steps. *)

RestInvariant == StocksInvariant /\ PhaseInvariant /\ CopyInvariant /\ ViewInvariant

(* A mirror that writers accept is a copy, of the revision before the change. *)
LEMMA BeforeChange ==
    ASSUME TypeOK, StocksInvariant, Current
    PROVE  /\ DOMAIN mirror.state = Datasets
           /\ \A k \in Datasets : /\ mirror.state[k].status = "READY"
                                  /\ mirror.state[k].raw = stocks.revision
           /\ ~mirror.torn => /\ mirror.features = stocks.features
                                 /\ mirror.summary = stocks.summary
           /\ adjust.factors = stocks.factors
<1>1. OfRevision(mirror, stocks.revision)
  BY DEF Current, Matches
<1> QED
  BY <1>1 DEF OfRevision, StocksInvariant, Remembered, Describes

(* The copy is not of the new revision. *)
LEMMA CopyOfThePast ==
    ASSUME MirrorInvariant, UNCHANGED mirror, stocks'.revision = stocks.revision + 1,
           phase' \in {"idle", "dirty"}
    PROVE  CopyInvariant'
<1>1. mirror'.copy.revision # stocks'.revision
  BY Numbers DEF MirrorInvariant, StocksInvariant
<1> QED
  BY <1>1 DEF MirrorInvariant, CopyInvariant, Copying

LEMMA SyncStep ==
    ASSUME MirrorInvariant, TypeOK', NEW p \in Procs, Sync(p)
    PROVE  RestInvariant'
<1> USE DEF MirrorInvariant
<1>1. PICK symbols \in SUBSET Symbols, dates \in SUBSET Days : Changed(p, symbols, dates)
  BY SyncChanges
<1>2. PICK changed \in SUBSET (symbols \X dates), factors \in SUBSET symbols :
        LET new == stocks.revision + 1
        IN  stocks' = [revision |-> new,
                       features |-> [c \in Symbols \X Days |->
                           IF c \in changed THEN new ELSE stocks.features[c]],
                       summary |-> [d \in Days |->
                           IF d \in dates THEN new ELSE stocks.summary[d]],
                       factors |-> [s \in Symbols |->
                           IF s \in factors THEN new ELSE stocks.factors[s]]]
  BY <1>1 DEF Changed
<1>3. /\ stocks.revision \in Nat /\ stocks.revision + 1 # 0
      /\ stocks'.revision = stocks.revision + 1
      /\ \A c \in Symbols \X Days :
            \/ stocks'.features[c] = stocks.features[c]
            \/ c \in symbols \X dates /\ stocks'.features[c] = stocks.revision + 1
      /\ \A d \in Days :
            \/ stocks'.summary[d] = stocks.summary[d]
            \/ d \in dates /\ stocks'.summary[d] = stocks.revision + 1
      /\ \A s \in Symbols :
            \/ stocks'.factors[s] = stocks.factors[s]
            \/ s \in symbols /\ stocks'.factors[s] = stocks.revision + 1
  BY <1>2, Numbers
<1>4. UNCHANGED <<mirror, adjust, view>> /\ holder = NoOne /\ phase = "idle"
  BY DEF Sync, TypeOK
<1>5. Keeps /\ StocksInvariant'
  BY <1>3, <1>4, Advance
<1>6. ViewInvariant'
  BY <1>4, <1>5, ViewsKept
<1>7. CASE Prepared
  <2>1. /\ phase' = "dirty"
        /\ job' = [symbols |-> symbols, dates |-> dates, previous |-> stocks.revision]
    BY <1>1, <1>7 DEF Changed
  <2>2. /\ DOMAIN mirror.state = Datasets
        /\ \A k \in Datasets : /\ mirror.state[k].status = "READY"
                               /\ mirror.state[k].raw = stocks.revision
        /\ ~mirror.torn =>
              mirror.features = stocks.features /\ mirror.summary = stocks.summary
        /\ adjust.factors = stocks.factors
    BY <1>7, BeforeChange DEF Sync
  <2>3. ~mirror'.torn => \A c \in Symbols \X Days :
          \/ mirror'.features[c] = stocks'.features[c]
          \/ c \in Rows(stocks'.features, job'.symbols, job'.dates)
    BY <1>3, <1>4, <2>1, <2>2 DEF Rows
  <2>4. ~mirror'.torn => \A d \in Days :
          \/ mirror'.summary[d] = stocks'.summary[d]
          \/ d \in Summaries(stocks'.summary, job'.dates)
    BY <1>3, <1>4, <2>1, <2>2 DEF Summaries
  <2>5. \A s \in Symbols \ job'.symbols : adjust'.factors[s] = stocks'.factors[s]
    BY <1>3, <1>4, <2>1, <2>2
  <2>6. PhaseInvariant'
    BY <1>3, <1>4, <2>1, <2>2, <2>3, <2>4, <2>5
       DEF PhaseInvariant, Mirroring, Preparing, Rows, Summaries
  <2>7. CopyInvariant'
    BY <1>3, <1>4, <2>1, CopyOfThePast
  <2> QED
    BY <1>5, <1>6, <2>6, <2>7 DEF RestInvariant
<1>8. CASE ~Prepared
  <2>1. phase' = "idle" /\ mirror.copy.status = "none"
    BY <1>1, <1>4, <1>8 DEF Changed, Prepared
  <2>2. PhaseInvariant' /\ CopyInvariant'
    BY <1>3, <1>4, <2>1, CopyOfThePast DEF PhaseInvariant, Mirroring, Preparing
  <2> QED
    BY <1>5, <1>6, <2>2 DEF RestInvariant
<1> QED
  BY <1>7, <1>8

LEMMA RepairSummaryStep ==
    ASSUME MirrorInvariant, TypeOK', NEW p \in Procs, RepairSummary(p)
    PROVE  RestInvariant'
<1> USE DEF MirrorInvariant
<1>1. PICK x \in Days : Repaired(p, x)
  BY RepairSummaryRepairs
<1>2. UNCHANGED <<mirror, adjust, view>> /\ phase = "idle" /\ (Prepared => Current)
  BY DEF RepairSummary, TypeOK
<1>3. stocks \in Contents /\ stocks.revision \in Nat /\ stocks.revision + 1 # 0
  BY TypeParts, Numbers
<1>4. CASE stocks' = stocks
  <2>1. Keeps /\ StocksInvariant'
    BY <1>2, <1>4, Untouched
  <2>2. ViewInvariant'
    BY <1>2, <2>1, ViewsKept
  <2>3. phase' \in {"idle", "dirty"} /\ CopyInvariant'
    BY <1>1, <1>2, <1>4 DEF Repaired, CopyInvariant, Copying, HasSchema
  <2>4. PhaseInvariant'
    <3>1. CASE Prepared
      <4>1. /\ DOMAIN mirror.state = Datasets
            /\ \A k \in Datasets : /\ mirror.state[k].status = "READY"
                                   /\ mirror.state[k].raw = stocks.revision
            /\ ~mirror.torn =>
                  mirror.features = stocks.features /\ mirror.summary = stocks.summary
            /\ adjust.factors = stocks.factors
        BY <1>2, <3>1, BeforeChange
      <4>2. phase' = "dirty" /\ job'.previous = stocks.revision
        BY <1>1, <3>1 DEF Repaired
      <4> QED
        BY <1>2, <1>3, <1>4, <4>1, <4>2 DEF PhaseInvariant, Mirroring, Preparing
    <3>2. CASE ~Prepared
      <4>1. phase' = "idle"
        BY <1>1, <1>2, <3>2 DEF Repaired
      <4> QED
        BY <4>1 DEF PhaseInvariant, Mirroring, Preparing
    <3> QED
      BY <3>1, <3>2
  <2> QED
    BY <2>1, <2>2, <2>3, <2>4 DEF RestInvariant
<1>5. CASE stocks' = [stocks EXCEPT !.revision = @ + 1, !.summary[x] = stocks.revision + 1]
  <2>1. /\ stocks'.revision = stocks.revision + 1
        /\ stocks'.features = stocks.features /\ stocks'.factors = stocks.factors
        /\ \A d \in Days :
              \/ stocks'.summary[d] = stocks.summary[d]
              \/ d = x /\ stocks'.summary[d] = stocks.revision + 1
    <3> HIDE DEF MirrorInvariant
    <3> QED
      BY <1>3, <1>5 DEF Contents
  <2>2. Keeps /\ StocksInvariant'
    BY <1>2, <2>1, Advance
  <2>3. ViewInvariant'
    BY <1>2, <2>2, ViewsKept
  <2>4. phase' \in {"idle", "dirty"}
    BY <1>1, <1>2 DEF Repaired
  <2>5. CopyInvariant'
    BY <1>2, <2>1, <2>4, CopyOfThePast
  <2>6. PhaseInvariant'
    <3>1. CASE Prepared
      <4>1. /\ DOMAIN mirror.state = Datasets
            /\ \A k \in Datasets : /\ mirror.state[k].status = "READY"
                                   /\ mirror.state[k].raw = stocks.revision
            /\ ~mirror.torn =>
                  mirror.features = stocks.features /\ mirror.summary = stocks.summary
            /\ adjust.factors = stocks.factors
        BY <1>2, <3>1, BeforeChange
      <4>2. /\ phase' = "dirty"
            /\ job' = [symbols |-> {}, dates |-> {x}, previous |-> stocks.revision]
        BY <1>1, <3>1 DEF Repaired
      <4>3. ~mirror'.torn => \A d \in Days :
              \/ mirror'.summary[d] = stocks'.summary[d]
              \/ d \in Summaries(stocks'.summary, job'.dates)
        BY <1>2, <1>3, <2>1, <4>1, <4>2 DEF Summaries
      <4> QED
        BY <1>2, <1>3, <2>1, <4>1, <4>2, <4>3
           DEF PhaseInvariant, Mirroring, Preparing, Summaries
    <3>2. CASE ~Prepared
      <4>1. phase' = "idle"
        BY <1>1, <1>2, <3>2 DEF Repaired
      <4> QED
        BY <4>1 DEF PhaseInvariant, Mirroring, Preparing
    <3> QED
      BY <3>1, <3>2
  <2> QED
    BY <2>2, <2>3, <2>5, <2>6 DEF RestInvariant
<1> QED
  BY <1>1, <1>4, <1>5 DEF Repaired

LEMMA MirrorDirtyStep ==
    ASSUME MirrorInvariant, TypeOK', NEW p \in Procs, MirrorDirty(p)
    PROVE  RestInvariant'
<1> USE DEF MirrorInvariant
<1>1. UNCHANGED <<stocks, adjust, job, view>> /\ phase = "dirty" /\ phase' = "factors"
  BY DEF MirrorDirty
<1>2. /\ DOMAIN mirror.state = Datasets
      /\ job.previous <= stocks.revision
      /\ \A k \in Datasets : /\ mirror.state[k].status = "READY"
                             /\ mirror.state[k].raw = job.previous
  BY <1>1 DEF PhaseInvariant, Mirroring
<1>3. CASE job.dates = {}
  <2>1. mirror' = mirror
    BY <1>3 DEF MirrorDirty
  <2>2. ASSUME ~mirror.torn
        PROVE  mirror.features = stocks.features /\ mirror.summary = stocks.summary
    <3>1. \A c \in Symbols \X Days : mirror.features[c] = stocks.features[c]
      BY <1>1, <1>3, <2>2 DEF PhaseInvariant, Rows
    <3>2. \A d \in Days : mirror.summary[d] = stocks.summary[d]
      BY <1>1, <1>3, <2>2 DEF PhaseInvariant, Summaries
    <3> QED
      BY <3>1, <3>2, TypeParts DEF Mirrors, Contents
  <2>3. Keeps /\ StocksInvariant'
    BY <1>1, <2>1, Untouched
  <2>4. ViewInvariant'
    BY <1>1, <2>3, ViewsKept
  <2>5. PhaseInvariant'
    BY <1>1, <1>2, <1>3, <2>1, <2>2 DEF PhaseInvariant, Mirroring, Preparing
  <2>6. CopyInvariant'
    BY <1>1, <2>1 DEF CopyInvariant, Copying, HasSchema
  <2> QED
    BY <2>3, <2>4, <2>5, <2>6 DEF RestInvariant
<1>4. CASE job.dates # {}
  <2> DEFINE F == Copied(mirror.features, stocks.features,
                         Rows(stocks.features, job.symbols, job.dates))
             U == Copied(mirror.summary, stocks.summary,
                         Summaries(stocks.summary, job.dates))
             T == [k \in Datasets |-> State("DIRTY", stocks.revision, mirror.state[k].factor)]
  <2>1. mirror' = [mirror EXCEPT !.features = F, !.summary = U, !.state = T]
    BY <1>4 DEF MirrorDirty, WithCopies
  <2>2. DOMAIN T = Datasets /\ \A k \in Datasets : T[k].status = "DIRTY" /\ T[k].raw = stocks.revision
    BY DEF State
  <2>3. ASSUME ~mirror.torn PROVE F = stocks.features /\ U = stocks.summary
    <3>1. \A c \in Symbols \X Days : F[c] = stocks.features[c]
      BY <1>1, <2>3, TypeParts DEF Copied, PhaseInvariant, Mirrors
    <3>2. \A d \in Days : U[d] = stocks.summary[d]
      BY <1>1, <2>3, TypeParts DEF Copied, PhaseInvariant, Mirrors
    <3>3. F \in [Symbols \X Days -> Revisions] /\ U \in [Days -> Revisions]
      BY CopiedType, TypeParts DEF Mirrors, Contents
    <3> QED
      BY <3>1, <3>2, <3>3, TypeParts DEF Contents
  <2>10. \A c \in Symbols \X Days : F[c] = mirror.features[c] \/ F[c] = stocks.features[c]
    BY TypeParts DEF Copied, Mirrors
  <2> HIDE DEF F, U, T
  <2>4. /\ mirror'.features = F /\ mirror'.summary = U
        /\ mirror'.state = T /\ mirror'.copy = mirror.copy /\ mirror'.torn = mirror.torn
    BY <2>1, TypeParts DEF Mirrors
  <2>5. \A R : ~OfRevision(mirror', R)
    BY <2>2, <2>4 DEF OfRevision, Datasets
  <2>6. Keeps /\ StocksInvariant'
    <3>1. \A k \in DOMAIN mirror'.state : mirror'.state[k].raw <= stocks.revision
      BY <2>2, <2>4, Numbers
    <3> QED
      BY <1>1, <2>4, <2>5, <3>1, Rewritten
  <2>7. ViewInvariant'
    BY <1>1, <2>6, ViewsKept
  <2>8. PhaseInvariant'
    BY <1>1, <1>2, <1>4, <2>2, <2>3, <2>4 DEF PhaseInvariant, Mirroring, Preparing
  <2>9. CopyInvariant'
    <3>1. ASSUME Copying, mirror.copy.revision = stocks.revision,
                 NEW s \in mirror.copy.done, NEW d \in Days
          PROVE  F[<<s, d>>] = stocks.features[<<s, d>>]
      <4>1. mirror.features[<<s, d>>] = stocks.features[<<s, d>>] /\ s \in Symbols
        BY <3>1, TypeParts DEF CopyInvariant, Mirrors
      <4> QED
        BY <2>10, <4>1
    <3> QED
      BY <1>1, <2>2, <2>4, <3>1 DEF CopyInvariant, Copying, HasSchema
  <2> QED
    BY <2>6, <2>7, <2>8, <2>9 DEF RestInvariant
<1> QED
  BY <1>3, <1>4

LEMMA MirrorFactorsStep ==
    ASSUME MirrorInvariant, TypeOK', NEW p \in Procs, MirrorFactors(p)
    PROVE  RestInvariant'
<1> USE DEF MirrorInvariant
<1>1. UNCHANGED <<stocks, mirror, job, view>> /\ phase = "factors" /\ phase' = "ready"
  BY DEF MirrorFactors
<1> DEFINE F == Copied(adjust.factors, stocks.factors, job.symbols)
<1>2. F = stocks.factors
  <2>1. \A s \in Symbols : F[s] = stocks.factors[s]
    BY <1>1, TypeParts DEF Copied, PhaseInvariant, Mirroring, Factors
  <2>2. F \in [Symbols -> Revisions] /\ stocks.factors \in [Symbols -> Revisions]
    BY CopiedType, TypeParts DEF Factors, Contents
  <2> QED
    BY <2>1, <2>2
<1>3. \/ adjust' = adjust /\ job.symbols = {}
      \/ adjust'.factors = stocks.factors /\ adjust'.revision = Newest(stocks.factors)
  BY <1>2 DEF MirrorFactors
<1>4. adjust'.factors = stocks.factors
  <2>1. ASSUME job.symbols = {} PROVE F = adjust.factors
    <3>1. adjust.factors \in [Symbols -> Revisions]
      BY TypeParts DEF Factors
    <3> QED
      BY <2>1, <3>1 DEF Copied
  <2> HIDE DEF F
  <2> QED
    BY <1>2, <1>3, <2>1
<1>5. Keeps /\ StocksInvariant'
  BY <1>1, <1>3, FactorsCopied, Untouched
<1>6. ViewInvariant'
  BY <1>1, <1>5, ViewsKept
<1>7. PhaseInvariant'
  BY <1>1, <1>4 DEF PhaseInvariant, Mirroring, Preparing
<1>8. CopyInvariant'
  BY <1>1 DEF CopyInvariant, Copying, HasSchema
<1> QED
  BY <1>5, <1>6, <1>7, <1>8 DEF RestInvariant

LEMMA MirrorEndStep ==
    ASSUME MirrorInvariant, TypeOK', NEW p \in Procs, MirrorEnd(p)
    PROVE  RestInvariant'
<1> USE DEF MirrorInvariant
<1>1. UNCHANGED <<stocks, adjust, view>> /\ phase = "ready" /\ phase' = "idle"
  BY DEF MirrorEnd, Rest
<1>2. /\ DOMAIN mirror.state = Datasets
      /\ job.dates # {} => \A k \in Datasets : mirror.state[k].status = "DIRTY"
      /\ job.dates = {} => \A k \in Datasets : mirror.state[k].status = "READY"
      /\ ~mirror.torn =>
            mirror.features = stocks.features /\ mirror.summary = stocks.summary
      /\ adjust.factors = stocks.factors
  BY <1>1 DEF PhaseInvariant, Mirroring
<1>3. adjust.revision = Newest(stocks.factors) /\ stocks.revision \in Nat
  BY <1>2, Numbers DEF StocksInvariant
<1> DEFINE rows == Rows(stocks.features, job.symbols, job.dates)
           summaries == Summaries(stocks.summary, job.dates)
           written == {k \in Datasets :
                         \/ k = "features" /\ rows # {}
                         \/ k = "features" /\ job.symbols = {} /\ summaries # {}
                         \/ k = "summary" /\ summaries # {}}
           T == [k \in Datasets |->
                   IF k \in written \/ (job.dates = {} /\ mirror.state[k].status = "READY")
                   THEN State("READY", stocks.revision, adjust.revision)
                   ELSE [mirror.state[k] EXCEPT !.factor = adjust.revision]]
<1>4. mirror' = [mirror EXCEPT !.state = T]
  BY DEF MirrorEnd
<1>5. DOMAIN T = Datasets
  OBVIOUS
<1>6. ASSUME NEW k \in Datasets
      PROVE  /\ T[k].raw \in Nat /\ T[k].raw <= stocks.revision
             /\ T[k].raw \in {stocks.revision, mirror.state[k].raw}
             /\ T[k].status = "READY" => /\ T[k].raw = stocks.revision
                                         /\ T[k].factor = Newest(stocks.factors)
  <2>1. CASE k \in written \/ (job.dates = {} /\ mirror.state[k].status = "READY")
    <3>1. T[k] = State("READY", stocks.revision, adjust.revision)
      BY <2>1
    <3> HIDE DEF T
    <3> QED
      BY <1>3, <3>1 DEF State
  <2>2. CASE ~(k \in written \/ (job.dates = {} /\ mirror.state[k].status = "READY"))
    <3>1. T[k] = [mirror.state[k] EXCEPT !.factor = adjust.revision]
      BY <2>2
    <3>2. mirror.state[k].status = "DIRTY"
      BY <1>2, <2>2
    <3>3. mirror.state[k] \in States /\ mirror.state[k].raw \in Nat
          /\ mirror.state[k].raw <= stocks.revision
      BY <1>2, StatesOfMirror, Numbers DEF StocksInvariant
    <3> HIDE DEF T
    <3> QED
      BY <3>1, <3>2, <3>3 DEF States
  <2> QED
    BY <2>1, <2>2
<1> HIDE DEF T
<1>7. /\ mirror'.features = mirror.features /\ mirror'.summary = mirror.summary
      /\ mirror'.state = T /\ mirror'.copy = mirror.copy /\ mirror'.torn = mirror.torn
  BY <1>4, TypeParts DEF Mirrors
<1>8. Keeps /\ StocksInvariant'
  <2>1. \A k \in DOMAIN mirror'.state : mirror'.state[k].raw <= stocks.revision
    BY <1>5, <1>6, <1>7
  <2>2. \A R : OfRevision(mirror', R) =>
               /\ R = stocks.revision
               /\ \A k \in Datasets : mirror'.state[k].factor = Newest(stocks.factors)
    BY <1>6, <1>7 DEF OfRevision, Datasets
  <2> QED
    BY <1>1, <1>2, <1>7, <2>1, <2>2, Rewritten
<1>9. ViewInvariant'
  BY <1>1, <1>8, ViewsKept
<1>10. PhaseInvariant'
  BY <1>1 DEF PhaseInvariant, Mirroring, Preparing
<1>11. CopyInvariant'
  BY <1>1, <1>2, <1>5, <1>6, <1>7 DEF CopyInvariant, Copying, HasSchema
<1> QED
  BY <1>8, <1>9, <1>10, <1>11 DEF RestInvariant

LEMMA BeginStep ==
    ASSUME MirrorInvariant, TypeOK', NEW p \in Procs,
           ReconcileFactors(p) \/ PrepareFactors(p)
    PROVE  RestInvariant'
<1> USE DEF MirrorInvariant
<1>1. /\ UNCHANGED <<stocks, mirror, view>>
      /\ phase' \in {"rebuild", "copy"} \/ (phase' = "create" /\ ~HasSchema)
      /\ adjust'.factors = stocks.factors /\ adjust'.revision = Newest(stocks.factors)
  BY DEF ReconcileFactors, PrepareFactors, AllFactors
<1>2. Keeps /\ StocksInvariant'
  BY <1>1, FactorsCopied
<1>3. ViewInvariant'
  BY <1>1, <1>2, ViewsKept
<1>4. PhaseInvariant' /\ CopyInvariant'
  BY <1>1 DEF PhaseInvariant, CopyInvariant, Copying, HasSchema, Mirroring, Preparing
<1> QED
  BY <1>2, <1>3, <1>4 DEF RestInvariant

(* Both rebuild the whole mirror and certify it. *)
LEMMA CertifyStep ==
    ASSUME MirrorInvariant, TypeOK', NEW p \in Procs, ReconcileFeatures(p) \/ PrepareReady(p)
    PROVE  RestInvariant'
<1> USE DEF MirrorInvariant
<1>1. /\ UNCHANGED <<stocks, adjust, view>> /\ phase \in {"rebuild", "certify"}
      /\ phase' = "idle" /\ adjust.factors = stocks.factors
  BY DEF ReconcileFeatures, PrepareReady, Rest, PhaseInvariant, Preparing
<1> DEFINE T == [k \in Datasets |-> State("READY", stocks.revision, adjust.revision)]
<1>2. DOMAIN T = Datasets /\ \A k \in Datasets : /\ T[k].raw = stocks.revision
                                               /\ T[k].factor = adjust.revision
  BY DEF State
<1>3. \/ mirror' = [mirror EXCEPT !.features = stocks.features, !.summary = stocks.summary,
                                 !.torn = FALSE, !.state = T]
      \/ /\ mirror' = [mirror EXCEPT !.torn = FALSE, !.state = T]
         /\ mirror.features = stocks.features /\ mirror.summary = stocks.summary
  BY DEF ReconcileFeatures, PrepareReady, CopyInvariant
<1> HIDE DEF T
<1>4. /\ mirror'.features = stocks.features /\ mirror'.summary = stocks.summary
      /\ mirror'.state = T /\ mirror'.copy = mirror.copy
  BY <1>3, TypeParts DEF Mirrors
<1>5. adjust.revision = Newest(stocks.factors) /\ stocks.revision \in Nat
  BY <1>1, Numbers DEF StocksInvariant
<1>6. Keeps /\ StocksInvariant'
  <2>1. \A k \in DOMAIN mirror'.state : mirror'.state[k].raw <= stocks.revision
    BY <1>2, <1>4, <1>5
  <2>2. \A R : OfRevision(mirror', R) =>
               /\ R = stocks.revision
               /\ \A k \in Datasets : mirror'.state[k].factor = Newest(stocks.factors)
    BY <1>2, <1>4, <1>5 DEF OfRevision, Datasets
  <2> QED
    BY <1>1, <1>4, <2>1, <2>2, Rewritten
<1>7. ViewInvariant'
  BY <1>1, <1>6, ViewsKept
<1>8. PhaseInvariant'
  BY <1>1 DEF PhaseInvariant, Mirroring, Preparing
<1>9. CopyInvariant'
  BY <1>1, <1>2, <1>4, TypeParts DEF CopyInvariant, Copying, HasSchema, Mirrors
<1> QED
  BY <1>6, <1>7, <1>8, <1>9 DEF RestInvariant

(* A copy tears the mirror, or changes what is of no revision. *)
LEMMA CopyStep ==
    ASSUME MirrorInvariant, TypeOK', NEW p \in Procs,
           \/ PrepareCreate(p) \/ PrepareCopy(p) \/ PrepareBatch(p)
           \/ PrepareCopied(p) \/ PrepareSummary(p)
    PROVE  RestInvariant'
<1> USE DEF MirrorInvariant
<1>1. /\ UNCHANGED <<stocks, adjust, view>> /\ phase \in Preparing /\ phase' \in Preparing
      /\ adjust.factors = stocks.factors
  BY DEF PrepareCreate, PrepareCopy, PrepareBatch, PrepareCopied, PrepareSummary, PhaseInvariant,
         Preparing
<1>2. mirror'.state = mirror.state
  BY TypeParts
     DEF PrepareCreate, PrepareCopy, PrepareBatch, PrepareCopied, PrepareSummary, Mirrors
<1>3. stocks.revision \in Nat /\ stocks.revision >= 1 /\ mirror.copy.revision <= stocks.revision
  BY Numbers DEF StocksInvariant
<1>4. PhaseInvariant'
  BY <1>1 DEF PhaseInvariant, Mirroring, Preparing
<1>5. ASSUME Copying, mirror.copy.revision = stocks.revision, ~mirror.torn,
             NEW R, OfRevision(mirror, R)
      PROVE  mirror.features = stocks.features /\ mirror.summary = stocks.summary
  <2>1. R = stocks.revision
    BY <1>5 DEF CopyInvariant, OfRevision, Datasets
  <2> QED
    BY <1>5, <2>1 DEF StocksInvariant, Remembered, Describes
<1>6. ASSUME mirror'.copy.revision = mirror.copy.revision,
             mirror'.torn = mirror.torn,
             \/ mirror'.features = mirror.features /\ mirror'.summary = mirror.summary
             \/ /\ Copying /\ mirror.copy.revision = stocks.revision
                /\ ~mirror.torn /\ (\E R : OfRevision(mirror, R)) =>
                      mirror'.features = mirror.features /\ mirror'.summary = mirror.summary
      PROVE  Keeps /\ StocksInvariant' /\ ViewInvariant'
  <2>1. Keeps /\ StocksInvariant'
    BY <1>1, <1>2, <1>3, <1>6, Unnoticed
  <2> QED
    BY <1>1, <2>1, ViewsKept
<1>7. CASE PrepareCreate(p)
  <2>1. phase = "create" /\ ~HasSchema /\ phase' \in {"create", "copy"}
    BY <1>7 DEF PrepareCreate, CopyInvariant
  <2>2. /\ mirror'.features = mirror.features /\ mirror'.summary = mirror.summary
        /\ mirror'.torn = mirror.torn /\ mirror'.copy.done = mirror.copy.done
        /\ mirror'.copy.revision = mirror.copy.revision
        /\ mirror'.copy.status \in {"file", "schema"}
        /\ phase' = "create" => mirror'.copy.status = "file"
    BY <1>7, <2>1, TypeParts DEF PrepareCreate, Mirrors
  <2>3. ~Copying /\ ~Copying'
    BY <2>1, <2>2 DEF HasSchema, Copying
  <2>4. CopyInvariant'
    BY <1>2, <2>1, <2>2, <2>3 DEF CopyInvariant, HasSchema, Copying
  <2> QED
    BY <1>4, <1>6, <2>2, <2>4 DEF RestInvariant
<1>8. CASE PrepareCopy(p)
  <2>1. CASE mirror.copy.status = "COMPLETE" /\ mirror.copy.revision = stocks.revision
    <3>1. mirror' = mirror /\ phase' = "summary" /\ mirror.copy.done = Symbols
      BY <1>8, <2>1 DEF PrepareCopy, CopyInvariant
    <3>2. \A s \in Symbols, d \in Days : mirror.features[<<s, d>>] = stocks.features[<<s, d>>]
      BY <2>1, <3>1 DEF CopyInvariant, Copying
    <3>3. mirror.features = stocks.features
      BY <3>2, TypeParts DEF Mirrors, Contents
    <3>4. CopyInvariant'
      BY <1>1, <2>1, <3>1, <3>3 DEF CopyInvariant, Copying
    <3> QED
      BY <1>4, <1>6, <3>1, <3>4 DEF RestInvariant
  <2>2. CASE ~(mirror.copy.status = "COMPLETE" /\ mirror.copy.revision = stocks.revision)
    <3> DEFINE same == mirror.copy.revision = stocks.revision
               F == IF same \/ mirror.copy.status = "schema" THEN mirror.features
                    ELSE Unprepared.features
               C == [status |-> "COPYING", revision |-> stocks.revision,
                     done |-> IF same THEN mirror.copy.done ELSE {}]
    <3>1. /\ mirror' = [mirror EXCEPT !.features = F, !.torn = @ \/ ~same, !.copy = C]
          /\ phase' = "batches"
      BY <1>8, <2>2 DEF PrepareCopy
    <3>2. /\ mirror'.features = F /\ mirror'.copy = C /\ mirror'.summary = mirror.summary
          /\ mirror'.torn = (mirror.torn \/ ~same)
      BY <3>1, TypeParts DEF Mirrors
    <3>3. same => Copying
      BY <1>3 DEF CopyInvariant
    <3>4. \A s \in C.done, d \in Days : F[<<s, d>>] = stocks.features[<<s, d>>]
      BY <3>3 DEF CopyInvariant
    <3>5. ~mirror'.torn => \A k \in DOMAIN mirror.state : mirror.state[k].raw = stocks.revision
      BY <3>2, <3>3 DEF CopyInvariant
    <3>6. ~mirror'.torn => ~mirror.torn /\ mirror'.features = mirror.features
      BY <3>2
    <3>7. C.revision = stocks.revision /\ C.status = "COPYING"
      OBVIOUS
    <3> HIDE DEF F, C
    <3>8. CopyInvariant'
      BY <1>1, <1>2, <3>1, <3>2, <3>4, <3>5, <3>7 DEF CopyInvariant, Copying
    <3>9. Keeps /\ StocksInvariant'
      BY <1>1, <1>2, <1>3, <3>2, <3>6, <3>7, Unnoticed
    <3>10. ViewInvariant'
      BY <1>1, <3>9, ViewsKept
    <3> QED
      BY <1>4, <3>8, <3>9, <3>10 DEF RestInvariant
  <2> QED
    BY <2>1, <2>2
<1>9. CASE PrepareBatch(p)
  <2>1. PICK x \in Symbols : mirror' = [mirror EXCEPT
            !.features = Copied(@, stocks.features, {x} \X Days),
            !.copy.done = @ \cup {x}]
    BY <1>9 DEF PrepareBatch
  <2> DEFINE F == Copied(mirror.features, stocks.features, {x} \X Days)
  <2>2. mirror' = [mirror EXCEPT !.features = F, !.copy.done = @ \cup {x}]
    BY <2>1
  <2>3. \A s \in Symbols, d \in Days :
           F[<<s, d>>] = IF s = x THEN stocks.features[<<s, d>>] ELSE mirror.features[<<s, d>>]
    BY TypeParts DEF Copied, Mirrors
  <2>4. mirror.features = stocks.features => F = mirror.features
    BY TypeParts DEF Copied, Mirrors
  <2> HIDE DEF F
  <2>5. /\ mirror'.features = F /\ mirror'.copy.done = mirror.copy.done \cup {x}
        /\ mirror'.copy.status = mirror.copy.status /\ mirror'.copy.revision = mirror.copy.revision
        /\ mirror'.summary = mirror.summary /\ mirror'.torn = mirror.torn
        /\ mirror.copy.done \in SUBSET Symbols
    BY <2>2, TypeParts DEF Mirrors
  <2>6. phase = "batches" /\ phase' = "batches"
    BY <1>9 DEF PrepareBatch
  <2>7. Copying /\ mirror.copy.status = "COPYING" /\ mirror.copy.revision = stocks.revision
    BY <2>6 DEF CopyInvariant, Copying
  <2>8. \A s \in mirror.copy.done, d \in Days : mirror.features[<<s, d>>] = stocks.features[<<s, d>>]
    BY <2>7 DEF CopyInvariant
  <2>9. \A s \in mirror'.copy.done, d \in Days : mirror'.features[<<s, d>>] = stocks.features[<<s, d>>]
    BY <2>3, <2>5, <2>8
  <2>10. CopyInvariant'
    BY <1>1, <1>2, <2>5, <2>6, <2>7, <2>9 DEF CopyInvariant, Copying
  <2>11. Keeps /\ StocksInvariant' /\ ViewInvariant'
    BY <1>5, <1>6, <2>4, <2>5, <2>7
  <2> QED
    BY <1>4, <2>10, <2>11 DEF RestInvariant
<1>10. CASE PrepareCopied(p)
  <2>1. /\ mirror'.features = mirror.features /\ mirror'.summary = mirror.summary
        /\ mirror'.torn = mirror.torn /\ mirror'.copy.done = mirror.copy.done
        /\ mirror'.copy.status = "COMPLETE" /\ mirror'.copy.revision = mirror.copy.revision
        /\ mirror.copy.done = Symbols /\ phase = "batches" /\ phase' = "summary"
    BY <1>10, TypeParts DEF PrepareCopied, Mirrors
  <2>2. Copying /\ mirror.copy.revision = stocks.revision
    BY <2>1 DEF CopyInvariant, Copying
  <2>3. \A s \in Symbols, d \in Days : mirror.features[<<s, d>>] = stocks.features[<<s, d>>]
    BY <2>1, <2>2 DEF CopyInvariant
  <2>4. mirror.features = stocks.features
    BY <2>3, TypeParts DEF Mirrors, Contents
  <2>5. CopyInvariant'
    BY <1>1, <1>2, <2>1, <2>2, <2>3, <2>4 DEF CopyInvariant, Copying
  <2> QED
    BY <1>4, <1>6, <2>1, <2>5 DEF RestInvariant
<1>11. CASE PrepareSummary(p)
  <2>1. /\ mirror'.features = mirror.features /\ mirror'.copy = mirror.copy
        /\ mirror'.summary = stocks.summary /\ mirror'.torn = mirror.torn
        /\ phase = "summary" /\ phase' = "certify"
    BY <1>11, TypeParts DEF PrepareSummary, Mirrors
  <2>2. Copying /\ mirror.copy.revision = stocks.revision
    BY <2>1 DEF CopyInvariant
  <2>3. CopyInvariant'
    BY <1>1, <1>2, <2>1, <2>2 DEF CopyInvariant, Copying
  <2>4. Keeps /\ StocksInvariant' /\ ViewInvariant'
    BY <1>5, <1>6, <2>1, <2>2
  <2> QED
    BY <1>4, <2>3, <2>4 DEF RestInvariant
<1> QED
  BY <1>7, <1>8, <1>9, <1>10, <1>11

LEMMA StopStep ==
    ASSUME MirrorInvariant, TypeOK',
           (\E p \in Procs : Stop(p) \/ ReconcileRefused(p)) \/ Activate \/ Rollback \/ UNCHANGED vars
    PROVE  RestInvariant'
<1> USE DEF MirrorInvariant
<1>1. /\ UNCHANGED <<stocks, mirror, adjust, view>>
      /\ phase' = "idle" \/ UNCHANGED <<phase, job>>
  BY DEF Stop, ReconcileRefused, Rest, Activate, Rollback, vars, files
<1>2. Keeps /\ StocksInvariant'
  BY <1>1, Untouched
<1>3. ViewInvariant'
  BY <1>1, <1>2, ViewsKept
<1>4. PhaseInvariant' /\ CopyInvariant'
  BY <1>1 DEF PhaseInvariant, CopyInvariant, Copying, HasSchema, Mirroring, Preparing, Rows,
              Summaries
<1> QED
  BY <1>2, <1>3, <1>4 DEF RestInvariant

(* A reader pins a file, or lets all of them go. *)
LEMMA ViewChanges ==
    ASSUME MirrorInvariant, UNCHANGED <<stocks, mirror, adjust, phase, job>>,
           NEW r \in Readers, NEW v, Viewed(v), view' = [view EXCEPT ![r] = v]
    PROVE  RestInvariant'
<1> USE DEF MirrorInvariant
<1>1. Keeps /\ StocksInvariant'
  BY Untouched
<1>2. ASSUME NEW q \in Readers PROVE Viewed(view[q])'
  <2>1. PICK w : w = view'[q] /\ Viewed(w)
    BY TypeParts DEF ViewType, ViewInvariant
  <2>2. Viewed(w)'
    BY <1>1, <2>1, ViewedStays
  <2> QED
    BY <2>1, <2>2 DEF Viewed, Remembered, Describes
<1>3. ViewInvariant'
  BY <1>2 DEF ViewInvariant
<1>4. PhaseInvariant' /\ CopyInvariant'
  BY DEF PhaseInvariant, CopyInvariant, Copying, HasSchema, Mirroring, Preparing, Rows, Summaries
<1> QED
  BY <1>1, <1>3, <1>4 DEF RestInvariant

LEMMA NothingViewed == Viewed(NoView)
  BY DEF Viewed, NoView

LEMMA ReaderStep ==
    ASSUME MirrorInvariant, NEW r \in Readers,
           OpenStocks(r) \/ OpenFeatures(r) \/ OpenFactors(r) \/ Close(r)
    PROVE  RestInvariant'
<1> USE DEF MirrorInvariant
<1>1. UNCHANGED <<stocks, mirror, adjust, phase, job>>
  BY DEF OpenStocks, OpenFeatures, OpenFactors, Close, files
<1>2. view[r] \in Views /\ Viewed(view[r])
  BY TypeParts DEF ViewType, ViewInvariant
<1>3. CASE OpenStocks(r)
  <2> DEFINE v == [NoView EXCEPT !.pinned = {"stocks"}, !.stocks = stocks]
  <2>1. view' = [view EXCEPT ![r] = v]
    BY <1>3 DEF OpenStocks
  <2>2. v.pinned = {"stocks"} /\ v.stocks = stocks /\ v.open = FALSE
    BY DEF NoView
  <2> HIDE DEF v
  <2>3. Viewed(v)
    BY <2>2 DEF Viewed, StocksInvariant
  <2> QED
    BY <1>1, <2>1, <2>3, ViewChanges
<1>4. CASE OpenFeatures(r)
  <2>1. CASE OfRevision(mirror, view[r].stocks.revision)
    <3> DEFINE v == [view[r] EXCEPT !.pinned = {"stocks", "mirror"}, !.mirror = mirror]
    <3>1. view' = [view EXCEPT ![r] = v]
      BY <1>4, <2>1, Zenon DEF OpenFeatures
    <3>2. /\ v.pinned = {"stocks", "mirror"} /\ v.stocks = view[r].stocks /\ v.mirror = mirror
          /\ v.open = view[r].open /\ v.adjust = view[r].adjust
      BY <1>2 DEF Views
    <3> HIDE DEF v
    <3>3. view[r].pinned = {"stocks"} /\ Remembered(view[r].stocks)
      BY <1>2, <1>4 DEF OpenFeatures, Viewed
    <3>4. Viewed(v)
      BY <1>2, <2>1, <3>2, <3>3 DEF Viewed, Remembered, Describes
    <3> QED
      BY <1>1, <3>1, <3>4, ViewChanges
  <2>2. CASE ~OfRevision(mirror, view[r].stocks.revision)
    <3>1. view' = [view EXCEPT ![r] = NoView]
      BY <1>4, <2>2, Zenon DEF OpenFeatures
    <3> QED
      BY <1>1, <3>1, NothingViewed, ViewChanges
  <2> QED
    BY <2>1, <2>2
<1>5. CASE OpenFactors(r)
  <2>1. CASE Matches(view[r].stocks, view[r].mirror, adjust)
    <3> DEFINE v == [view[r] EXCEPT !.pinned = {"stocks", "mirror", "adjust"},
                                    !.adjust = adjust, !.open = TRUE]
    <3>1. view' = [view EXCEPT ![r] = v]
      BY <1>5, <2>1, Zenon DEF OpenFactors
    <3>2. /\ v.pinned = {"stocks", "mirror", "adjust"} /\ v.stocks = view[r].stocks
          /\ v.mirror = view[r].mirror /\ v.adjust = adjust
      BY <1>2 DEF Views
    <3> HIDE DEF v
    <3>3. view[r].pinned = {"stocks", "mirror"} /\ Remembered(view[r].stocks)
      BY <1>2, <1>5 DEF OpenFactors, Viewed
    <3>4. adjust.revision = Newest(view[r].stocks.factors)
      BY <1>2, <2>1, <3>3 DEF Viewed, Matches, Datasets
    <3>5. adjust.factors = view[r].stocks.factors
      BY <3>3, <3>4 DEF Remembered
    <3>6. Viewed(v)
      BY <1>2, <3>2, <3>3, <3>5 DEF Viewed
    <3> QED
      BY <1>1, <3>1, <3>6, ViewChanges
  <2>2. CASE ~Matches(view[r].stocks, view[r].mirror, adjust)
    <3>1. view' = [view EXCEPT ![r] = NoView]
      BY <1>5, <2>2, Zenon DEF OpenFactors
    <3> QED
      BY <1>1, <3>1, NothingViewed, ViewChanges
  <2> QED
    BY <2>1, <2>2
<1>6. CASE Close(r)
  <2>1. view' = [view EXCEPT ![r] = NoView]
    BY <1>6 DEF Close
  <2> QED
    BY <1>1, <2>1, NothingViewed, ViewChanges
<1> QED
  BY <1>3, <1>4, <1>5, <1>6

-----------------------------------------------------------------------------
LEMMA InitRest == Init => RestInvariant
<1> SUFFICES ASSUME Init PROVE RestInvariant
  OBVIOUS
<1>1. TypeOK
  BY InitType
<1>2. PICK store \in Stores :
        stocks = [revision |-> 1, features |-> store.features, summary |-> store.summary,
                  factors |-> store.factors]
  BY DEF Init
<1>3. stocks.revision = 1 /\ \A s \in Symbols : stocks.factors[s] \in {0, 1}
  BY <1>2, ConstantsAssumption
<1>4. adjust.revision = 0 /\ \A s \in Symbols : adjust.factors[s] = 0
  BY DEF Init
<1>5. adjust.revision = Newest(adjust.factors)
  BY <1>4, NewestOfNone
<1>6. Newest(stocks.factors) = 0 => adjust.factors = stocks.factors
  <2>1. \A s \in Symbols : stocks.factors[s] <= Newest(stocks.factors)
    BY <1>1, <1>3, TypeParts, RememberedNewest
  <2> SUFFICES ASSUME Newest(stocks.factors) = 0 PROVE adjust.factors = stocks.factors
    OBVIOUS
  <2>2. \A s \in Symbols : stocks.factors[s] = adjust.factors[s]
    BY <1>3, <1>4, <2>1
  <2>3. stocks.factors \in [Symbols -> Revisions] /\ adjust.factors \in [Symbols -> Revisions]
    BY <1>1, TypeParts DEF Contents, Factors
  <2> QED
    BY <2>2, <2>3
<1>7. /\ DOMAIN mirror.state = {} /\ mirror.copy.status = "none" /\ mirror.copy.done = {}
      /\ mirror.copy.revision = 0
  BY DEF Init, Unprepared
<1>8. \A R : ~OfRevision(mirror, R)
  BY <1>7 DEF OfRevision, Datasets
<1>9. Newest(stocks.factors) \in Nat
  BY <1>1, <1>3, TypeParts, RememberedNewest
<1>10. Remembered(stocks)
  BY <1>1, <1>3, <1>4, <1>6, <1>8, <1>9, TypeParts DEF Remembered, Describes
<1>11. StocksInvariant
  BY <1>3, <1>4, <1>5, <1>7, <1>8, <1>10 DEF StocksInvariant
<1>12. PhaseInvariant /\ CopyInvariant
  BY <1>7 DEF Init, PhaseInvariant, CopyInvariant, Copying, Mirroring, Preparing
<1>13. ViewInvariant
  BY NothingViewed DEF Init, ViewInvariant
<1> QED
  BY <1>11, <1>12, <1>13 DEF RestInvariant

(* The invariant holds in every state, whatever is mirrored, reconciled or prepared when. *)
THEOREM InvariantHolds == Spec => []MirrorInvariant
<1>1. Init => MirrorInvariant
  BY InitType, InitRest DEF MirrorInvariant, RestInvariant
<1>2. MirrorInvariant /\ [Next]_vars => MirrorInvariant'
  <2> SUFFICES ASSUME MirrorInvariant, [Next]_vars PROVE MirrorInvariant'
    OBVIOUS
  <2>1. TypeOK'
    BY TypeStep DEF MirrorInvariant
  <2>2. RestInvariant'
    <3>1. ASSUME NEW p \in Procs, Sync(p) \/ RepairSummary(p) PROVE RestInvariant'
      BY <2>1, <3>1, SyncStep, RepairSummaryStep
    <3>2. ASSUME NEW p \in Procs, ReconcileFactors(p) \/ PrepareFactors(p) PROVE RestInvariant'
      BY <2>1, <3>2, BeginStep
    <3>3. ASSUME NEW p \in Procs, Step(p) PROVE RestInvariant'
      BY <2>1, <3>3, MirrorDirtyStep, MirrorFactorsStep, MirrorEndStep, CertifyStep, CopyStep,
         StopStep DEF Step
    <3>4. ASSUME NEW r \in Readers, OpenStocks(r) \/ OpenFeatures(r) \/ OpenFactors(r) \/ Close(r)
          PROVE  RestInvariant'
      BY <3>4, ReaderStep
    <3>5. ASSUME (\E p \in Procs : Stop(p) \/ ReconcileRefused(p)) \/ Activate \/ Rollback \/ UNCHANGED vars
          PROVE  RestInvariant'
      BY <2>1, <3>5, StopStep
    <3> QED
      BY <3>1, <3>2, <3>3, <3>4, <3>5 DEF Next
  <2> QED
    BY <2>1, <2>2 DEF MirrorInvariant, RestInvariant
<1> QED
  BY <1>1, <1>2, PTL DEF Spec

(* TypeOK: every variable keeps its type.                                                *)
THEOREM TypeCorrect == Spec => []TypeOK
<1>1. MirrorInvariant => TypeOK
  BY DEF MirrorInvariant
<1> QED
  BY <1>1, InvariantHolds, PTL

(* MirrorIsCurrent: a mirror that require_current_mirror() accepts is a copy of          *)
(* stocks.sqlite, for any symbols, days, processes and changes, unless a prepare has     *)
(* begun to copy it anew and was not completed.                                          *)
THEOREM AcceptedMirrorIsACopy == Spec => []MirrorIsCurrent
<1>1. MirrorInvariant => MirrorIsCurrent
  BY BeforeChange DEF MirrorInvariant, MirrorIsCurrent, Equal
<1> QED
  BY <1>1, InvariantHolds, PTL

(* SnapshotIsOneRevision: what StockSnapshot has pinned file by file and accepted is of  *)
(* one revision of stocks.sqlite, whatever was committed in between; the rows are not if *)
(* a prepare was copying the mirror anew, and the factors are even then.                 *)
THEOREM SnapshotsAreConsistent == Spec => []SnapshotIsOneRevision
<1>1. MirrorInvariant => SnapshotIsOneRevision
  BY DEF MirrorInvariant, ViewInvariant, Viewed, SnapshotIsOneRevision
<1> QED
  BY <1>1, InvariantHolds, PTL
=============================================================================
