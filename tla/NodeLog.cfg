CONSTANTS
    Follower = {f, g}
    r1 = r1
    r2 = r2
    Recoverer = {r1, r2}
    Nobody = Nobody
    Scope <- Scopes
SYMMETRY LogSymmetry
SPECIFICATION Spec
INVARIANTS
    LogTypeOK
    AckedRecoverable
    LossIsReal
    PerCellContiguous
CHECK_DEADLOCK FALSE
