CONSTANTS
    Procs = {p1, p2}
    Faulty = {p1}
    Readers = {r1}
    Symbols = {s1, s2}
    Days <- OneDay
    Stores <- WithoutSummary
    MaxRevision = 2
    NoOne = NoOne
SPECIFICATION FairSpec
INVARIANTS
    MirrorIsCurrent
    SnapshotIsOneRevision
PROPERTIES
    MirrorRecovers
