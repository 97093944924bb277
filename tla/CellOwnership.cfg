CONSTANTS
    Node = {a, b}
    NoNode = NoNode
    MaxEpoch = 2
    MaxReconciles = 0
    MaxRecoveries = 1
    Behaviours = {"skew", "ambiguity", "drain", "shed", "reload", "swap",
                  "bounded_stop", "start_failure", "failed_proof", "local_cells",
                  "parked"}
SYMMETRY NodeSymmetry
SPECIFICATION Spec
INVARIANTS
    TypeOK
    OneWriterPerEpoch
PROPERTIES
    ImplementsLedger
