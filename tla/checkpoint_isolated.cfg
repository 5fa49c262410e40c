SPECIFICATION Spec
\* The commands and edits are finitely many: the system stops when all ended.
CHECK_DEADLOCK FALSE
CONSTANTS
    Commands = {c1, c2}
    NoCommand = NoCommand
    Paths <- TwoPaths
    Versions = {v1, v2}
    Absent = Absent
    MayFail = TRUE
    MayDie = FALSE
    EditsAnyTime = TRUE
    MaxEdits = 2
SYMMETRY MCSymmetry
INVARIANTS
    RevertRestores
    PlanIsFollowed
    FailureIsCompensated
