SPECIFICATION FairSpec
CONSTANTS
    Creds <- AllCreds
    Sites <- MCSites
    UserOf <- MCUserOf
    SiteOf <- MCSiteOf
    NoUser = NoUser
    Callers = {p1}
    p1 = p1
    p2 = p2
    u1 = u1
    d = d
    g = g
    Loop = Loop
    Closer = Closer
    None = None
    Partial = Partial
    Cooldowns = {0, 1}
    MaxVersion = 2
    MaxTime = 1
    MaxFailures = 1
    MaxCrashes = 1
INVARIANTS
    TypeOK
    WellFormedStores
PROPERTIES
    IdsAreStable
    FlushedEventually
    CloseReturns
