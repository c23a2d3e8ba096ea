SPECIFICATION Spec
CONSTANTS
    Tab = {a, b}
    Request = {r1, r2}
    MaxSession = 1
    MaxToken = 2
    Nothing = Nothing
INVARIANTS
    TypeOK
    WaiterHasLeader
PROPERTIES
    EveryWaitEnds
    MarkedRequestSettles
CHECK_DEADLOCK FALSE
