SPECIFICATION Spec
CONSTANTS
    Traces <- MCTraces
    NoParent = 0
INVARIANTS
    LoopsAreReportedOnce
    ShownUnlessLooped
    GraphIsOfTheList
