CONSTANTS
    Follower = {f, g}
    r1 = r1
    r2 = r2
    Recoverer = {r1, r2}
    Nobody = Nobody
    Scope <- CaptureRace
SYMMETRY LogSymmetry
SPECIFICATION Spec
INVARIANTS
    AckedRecoverable
CHECK_DEADLOCK FALSE
