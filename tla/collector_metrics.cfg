SPECIFICATION MSpec
CONSTANTS
    Requests <- MixedRequests
    Events <- MCEvents
    Keys <- MCKeys
    NoEvent = NoEvent
    KeyOf <- MCKeyOf
    BatchOf <- MixedBatches
    Malformed <- MixedMalformed
    Invalid <- MixedInvalid
    Capacity = 2
    MaxCrashes = 0
INVARIANTS
    ScrapeAddsUp
