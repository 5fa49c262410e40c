SPECIFICATION Spec
\* The calls and commands are finitely many: the system stops when all ended.
CHECK_DEADLOCK FALSE
CONSTANTS
    Servers <- TwoServers
    Calls <- TwoServerCalls
    ServerOf <- TwoServerOf
    SessionOf <- TwoServerSessions
    Needs <- TwoServerNeeds
    Loads <- TwoServerLoads
    Asks <- TwoServerAsks
    Grants <- NoGrants
    NoGrant = NoGrant
    ScopesOf <- OneGrantScopes
    GrantSession <- OneGrantSession
    Bootstrap <- TraceScope
    Commands = {}
    TTL = 1
    StoreMayFail = FALSE
    MayDie = FALSE
    MaxTime = 1
INVARIANTS
    ServedIsAudited
