SPECIFICATION FairSpec
CONSTANTS
    Requests <- FewRequests
    Events <- MCEvents
    Keys <- MCKeys
    NoEvent = NoEvent
    KeyOf <- MCKeyOf
    BatchOf <- FewBatches
    Malformed <- None
    Invalid <- None
    Capacity = 2
    MaxCrashes = 1
INVARIANTS
    TypeOK
    AcceptedIsDurable
    RefusedIsNotPersisted
    ReservationConserved
    SendIsReady
    DrainedAtExit
    FlushIsPrompt
    EveryBatchIsCounted
PROPERTIES
    ImplementsContract
    EveryRequestEnds
    CloseReturns
