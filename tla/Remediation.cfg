CONSTANTS
    LastDay = 4
    Histories <- SmallHistories
    Requests <- SomeRequests
    MaxChanges = 1
    MaxFailures = 1
    Ranges <- SomeRanges
    Chunks = {2}
SPECIFICATION RemediationSpec
INVARIANTS
    KnownStreaksAreRight
    PiecesOfThePlan
    CheckpointIsKnown
    CompletedDaysStand
PROPERTIES
    SuffixIsRedone
