SPECIFICATION SFairSpec
CONSTANTS
    Checkouts <- MCCheckouts
    Spans <- MCSpans
    TraceOf <- OneTrace
    FirstSeq = 7
    MaxNow = 2
    Clients <- MCClients
CHECK_DEADLOCK FALSE
INVARIANTS
    TypeOK
    AcceptedUnlessIdTaken
    OrphansAreUnfinished
    SerialReplayIsExact
    NoneIsSkipped
    ReplayKeepsCallOrder
PROPERTIES
    CheckoutReturns
