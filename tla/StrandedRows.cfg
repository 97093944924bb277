CONSTANTS
    Node = {a, b}
    NoNode = NoNode
    MaxEpoch = 2
    MaxReconciles = 0
    MaxRecoveries = 1
    Behaviours = {"drain", "shed", "swap", "bounded_stop", "start_failure", "failed_proof",
                  "parked"}
    Write = {w1}
    FleetTier = TRUE
SYMMETRY Symmetry
VIEW Observed
SPECIFICATION DSpec
INVARIANTS
    AckedNeverLost
