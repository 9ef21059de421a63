SPECIFICATION Spec
CHECK_DEADLOCK FALSE
CONSTANTS
    Admins = {a1, a2}
    a1 = a1
    a2 = a2
    Main = Main
    ApiKeys = {k1, k2, k3}
    k1 = k1
    k2 = k2
    k3 = k3
    OwnKey = OwnKey
    Givens <- MCGivens
    FirstFiles <- MCFirstFiles
    Width <- MCWidth
    Unset = Unset
    NoFile = NoFile
    MaxUpdates = 2
    MaxFailures = 1
    MaxStarts = 3
SYMMETRY MCSymmetry
INVARIANTS
    ConfigInv
    RestartKeepsConfig
    NeverOpenByAccident
    SiteMatchesBase
    RoutedToRegion
PROPERTIES
    EnvKeepsLines
