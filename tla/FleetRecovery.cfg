CONSTANTS
    Node = {a, b}
    NoNode = NoNode
    MaxEpoch = 2
    MaxReconciles = 0
    MaxRecoveries = 1
    Behaviours = {"ambiguity", "swap", "bounded_stop", "failed_proof", "local_cells"}
    Write = {w1}
    FleetTier = TRUE
SYMMETRY Symmetry
VIEW Observed
SPECIFICATION DSpec
INVARIANTS
    AckedNeverLost
