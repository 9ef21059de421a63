SPECIFICATION Spec
CONSTANTS
    Creds <- OneCred
    Sites <- MCSites
    UserOf <- MCUserOf
    SiteOf <- OneSite
    NoUser = NoUser
    Callers = {p1, p2}
    p1 = p1
    p2 = p2
    u1 = u1
    d = d
    g = g
    Loop = Loop
    Closer = Closer
    None = None
    Partial = Partial
    Cooldowns = {0}
    MaxVersion = 3
    MaxTime = 0
    MaxFailures = 1
    MaxCrashes = 1
SYMMETRY MCSymmetry
INVARIANTS
    DiskIsWhole
    CleanMeansWritten
    DiskMatchesMemory
    DirtyWakesLoop
    ProofInv
PROPERTIES
    CloseFlushes
