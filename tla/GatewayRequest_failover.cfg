SPECIFICATION FairSpec
CONSTANTS
    r1 = r1
    r2 = r2
    u1 = u1
    u2 = u2
    d = d
    g = g
    NoUser = NoUser
    None = None
    Requests = {r1, r2}
    Creds <- MCCreds
    Sites <- MCSites
    UserOf <- MCUserOf
    SiteOf <- MCSiteOf
    Refreshable <- MCRefreshable
    InitialStore <- MCStore
    InitialSite = d
    Errors = {"auth", "gateway"}
    MaxDepth = 3
    MaxChanges = 1
INVARIANTS RequestInv AttemptsInRegion NoRepeats AttemptsBounded ErrorNotHidden MarkedOnce
PROPERTIES RequestReturns
CHECK_DEADLOCK FALSE
