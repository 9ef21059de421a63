SPECIFICATION Spec
CONSTANTS
    Requests <- MCRequests
    Sites <- MCSites
    q1 = q1
    q2 = q2
    d = d
    g = g
    NoSite = NoSite
    MaxSessions = 2
    MaxLogins = 2
INVARIANTS
    CallbackTellsTruth
