SPECIFICATION Spec
\* The calls and commands are finitely many: the system stops when all ended.
CHECK_DEADLOCK FALSE
CONSTANTS
    Servers <- OneServer
    Calls <- RequestCalls
    ServerOf <- RequestServerOf
    SessionOf <- RequestSessions
    Needs <- RequestNeeds
    Loads <- RequestLoads
    Asks <- RequestAsks
    Grants <- OneGrant
    NoGrant = NoGrant
    ScopesOf <- OneGrantScopes
    GrantSession <- OneGrantSession
    Bootstrap <- NoScopes
    Commands = {cli1, cli2}
    TTL = 1
    StoreMayFail = TRUE
    MayDie = FALSE
    MaxTime = 1
INVARIANTS
    TakenBackIsRevoked
