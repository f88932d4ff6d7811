SPECIFICATION Spec
CHECK_DEADLOCK FALSE
CONSTANTS
    Half = 8
    SendWindow = 4
    MaxSent = 12
INVARIANTS
    NoFutureAck
