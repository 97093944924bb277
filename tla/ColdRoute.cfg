CONSTANTS
    Node = {a, b}
    NoNode = NoNode
    MaxEpoch = 3
    MaxReconciles = 1
    MaxRecoveries = 2
    Behaviours = {"ambiguity", "failed_proof", "local_cells"}
SPECIFICATION LiveSpec
PROPERTIES
    ColdRouteSettles
    ImplementsLedger
