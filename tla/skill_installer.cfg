SPECIFICATION StatusSpec
CONSTANTS
    p1 = p1
    p2 = p2
    Commands <- MCCommands
    Targets <- MCTargets
    Repo = "repo"
    EditedFiles = {"SKILL.md"}
    MaxEdits = 1
    MaxOthers = 1
    MaxBeside = 1
SYMMETRY AnyCommand
CHECK_DEADLOCK FALSE
INVARIANTS
    SuccessIsComplete
    OneTargetAtRisk
    NothingIsLostUnforced
    CurrentIsComplete
