\* Two files, a fact table and a reader; one invocation may fail anywhere, one finishes its
\* work; preparations are damaged and repaired between invocations.
CONSTANTS
    Invocations = {i1, i2}
    Faulty = {i1}
    Readers = {r1}
    Files = {f1, f2}
    Tables = {t1}
    Ops = {o1, o2}
    MaxDay = 1
    MayDamage = TRUE
    NoOp = NoOp
    NoOne = NoOne
    NoView = NoView
SPECIFICATION FairSpec
CHECK_DEADLOCK FALSE
INVARIANTS
    TypeOK
    ReadersSeeCommitted
    RedoUntilCommitted
    PendingRecoverable
    RevisionChain
    CountedOnce
    SummaryTellsOfPending
    PlaceTellsTheTruth
PROPERTIES
    DamagedIsKept
    RecoveryEnds
    ImplementsAtomicPool
