CONSTANTS
    Limit = 0
    Keeps = {1, 2, 3}
    Top = 3
    Faults = {}
    MaxEntry = 6
SPECIFICATION AuditSpec
INVARIANTS
    LoweredIsCleared
CHECK_DEADLOCK FALSE
