CONSTANTS
    Node = {a, b}
    NoNode = NoNode
    MaxEpoch = 3
    MaxReconciles = 0
    MaxRecoveries = 1
    Behaviours = {"skew", "reload", "start_failure"}
    Write = {w1}
    FleetTier = FALSE
SYMMETRY Symmetry
VIEW Observed
SPECIFICATION DSpec
INVARIANTS
    DTypeOK
    AckedNeverLost
