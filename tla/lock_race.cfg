CONSTANTS
    None = None
    Pids = {p1, p2, p3}
SPECIFICATION LockSpec
INVARIANTS
    OneGatewayEver
CHECK_DEADLOCK FALSE
