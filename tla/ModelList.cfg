SPECIFICATION FairSpec
CHECK_DEADLOCK FALSE
CONSTANTS
    Creds <- MCCreds
    Sites <- MCSites
    UserOf <- MCUserOf
    SiteOf <- MCSiteOf
    NoUser = NoUser
    Requests = {r1, r2}
    r1 = r1
    r2 = r2
    u1 = u1
    u2 = u2
    d = d
    g = g
    Domestic = d
    FirstStore <- MCStore
    FirstSite = d
    None = None
    Dead = Dead
    MaxChanges = 1
    MaxPanics = 1
INVARIANTS
    ListInv
    OneFetchPerKey
    AnswerIsForKey
    FreshLeaderFetches
PROPERTIES
    RequestsAnswered
