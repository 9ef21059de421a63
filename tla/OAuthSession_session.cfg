SPECIFICATION FairSpec
CONSTANTS
    Requests <- MCRequests
    Sites <- MCSites
    q1 = q1
    q2 = q2
    d = d
    g = g
    NoSite = NoSite
    MaxSessions = 3
    MaxLogins = 2
INVARIANTS
    LoginIsOwn
    ImportedRegion
    SuccessHasImport
    SessionInv
PROPERTIES
    StartSettles
