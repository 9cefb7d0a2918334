\* One process fails as often as it likes, one is sound, one reader.
CONSTANTS
    Procs = {p1, p2}
    Faulty = {p1}
    Readers = {r1}
    Values = {0, 1}
    MaxRevision = 3
    NoOne = NoOne
    NoIntent = NoIntent
    NoSnapshot = NoSnapshot
SPECIFICATION FairSpec
INVARIANTS
    TypeOK
    NeverWedged
    RecoverableCommit
    SameRevisionSameRows
PROPERTIES
    ImplementsPublishedPool
    PublicationEnds
