SPECIFICATION Spec
\* The commands and edits are finitely many: the system stops when all ended.
CHECK_DEADLOCK FALSE
CONSTANTS
    Commands = {c1, c2, c3}
    NoCommand = NoCommand
    Paths <- OnePath
    Versions = {v1, v2}
    Absent = Absent
    MayFail = TRUE
    MayDie = TRUE
    EditsAnyTime = FALSE
    MaxEdits = 2
SYMMETRY MCSymmetry
INVARIANTS
    TypeOK
    RevertedIsUndoable
PROPERTIES
    OverwritesAreKept
