CONSTANTS
    Procs = {p1, p2}
    Faulty = {p1}
    Readers = {}
    Symbols = {s1, s2}
    Days <- OneDay
    Stores <- WithoutSummary
    MaxRevision = 3
    NoOne = NoOne
SPECIFICATION FairSpec
PROPERTY
    SliceCertifiesAllRows
