SPECIFICATION Spec
\* The calls and commands are finitely many: the system stops when all ended.
CHECK_DEADLOCK FALSE
CONSTANTS
    Servers <- OneServer
    Calls <- AuthorityCalls
    ServerOf <- AuthorityServerOf
    SessionOf <- AuthoritySessions
    Needs <- AuthorityNeeds
    Loads <- AuthorityLoads
    Asks <- AuthorityAsks
    Grants <- OneGrant
    NoGrant = NoGrant
    ScopesOf <- OneGrantScopes
    GrantSession <- OneGrantSession
    Bootstrap <- NoScopes
    Commands = {cli1, cli2}
    TTL = 1
    StoreMayFail = TRUE
    MayDie = TRUE
    MaxTime = 2
SYMMETRY CommandSymmetry
INVARIANTS
    TypeOK
    ServedIsAudited
    ReportsAreTrue
    ServedUnderLiveGrants
    AuditShowsAuthority
PROPERTIES
    ImplementsLifecycle
