\* Packages of boards, evidence, securities and stock rows; a failing and a sound
\* process, a writer of the receiver's own, a reader.
CONSTANTS
    Procs = {p1, p2}
    Faulty = {p1}
    Writers = {w1}
    Readers = {r1}
    Cells <- FullCells
    Selections <- FullSelections
    Contents <- TwoOrThree
    Sources <- FullSources
    NoOne = NoOne
    NoIntent = NoIntent
    NoView = NoView
SPECIFICATION FairSpec
\* A write that was waiting can leave a conflict that no recovery passes.
CHECK_DEADLOCK FALSE
INVARIANTS
    SourceHasSnapshot
PROPERTIES
    ForeignRowsKept
    ImplementsReplicatedPool
    RecordedChangesAreDerived
    ReplicaEnds
