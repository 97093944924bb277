CONSTANTS
    Node = {a, b}
    NoNode = NoNode
    MaxEpoch = 2
    MaxReconciles = 0
    MaxRecoveries = 1
    Behaviours = {"shed"}
    Write = {w1}
    FleetTier = TRUE
SYMMETRY Symmetry
VIEW Observed
SPECIFICATION DSpec
INVARIANTS
    SoleServer
    AckedNeverLost
    ReleasedIsComplete
