CONSTANTS
    Node = {a, b}
    NoNode = NoNode
    MaxEpoch = 2
    MaxReconciles = 0
    MaxRecoveries = 1
    Behaviours = {"reload"}
SYMMETRY NodeSymmetry
SPECIFICATION Spec
INVARIANTS
    SoleServer
