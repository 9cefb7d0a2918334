\* A package of securities only, interrupted and recovered.
CONSTANTS
    Procs = {p1}
    Faulty = {p1}
    Writers = {}
    Readers = {}
    Cells <- SecurityCells
    Selections <- SecuritySelections
    Contents <- TwoOrThree
    Sources <- Images
    NoOne = NoOne
    NoIntent = NoIntent
    NoView = NoView
SPECIFICATION Spec
INVARIANTS
    DerivedFollowsInputs
