SPECIFICATION Spec
\* The commands and edits are finitely many: the system stops when all ended.
CHECK_DEADLOCK FALSE
CONSTANTS
    Commands = {c1, c2, c3}
    NoCommand = NoCommand
    Paths <- OnePath
    Versions = {v1, v2}
    Absent = Absent
    MayFail = FALSE
    MayDie = FALSE
    EditsAnyTime = FALSE
    MaxEdits = 1
SYMMETRY MCSymmetry
INVARIANTS
    RevertHolds
