\* Two rows, journals of up to four changes (three and a second one of a re-keyed row), savepoints three deep.
CONSTANTS
    Keys = {k1, k2}
    Values = {v1, v2}
    Names = {n1, n2}
    MaxChanges = 3
    MaxNesting = 3
    NoRow = NoRow
SPECIFICATION Spec
SYMMETRY AnyNames
INVARIANTS
    JournalIsExact
    SavepointsAgree
