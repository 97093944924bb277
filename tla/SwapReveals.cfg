SPECIFICATION GateSpec
CONSTANTS
    r1 = r1
    r2 = r2
    Request = {r1, r2}
    GateScope <- SwapScopes
INVARIANTS
    RevealedIsKept
CHECK_DEADLOCK FALSE
