SPECIFICATION ServingSpec
CONSTANTS
    r1 = r1
    r2 = r2
    c1 = c1
    c2 = c2
    c3 = c3
    Request = {r1, r2}
    GateScope <- GateScopes
    Cell = {c1, c2, c3}
    Caller = {r1, r2}
    AdmissionScope <- AdmissionScopes
INVARIANTS
    GateTypeOK
    RevealedIsKept
    TicketIsConfirmed
    AdmissionTypeOK
    QueuesAgree
    NoIdleRoom
    EvictionPermitsReturn
PROPERTIES
    GateDrains
    WaiterSettles
CHECK_DEADLOCK FALSE
