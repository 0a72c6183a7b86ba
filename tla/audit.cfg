CONSTANTS
    Limit = 1
    Keeps = {1, 2, 3}
    Top = 3
    Faults = {"close", "remove", "rename", "reopen", "write"}
    MaxEntry = 10
SPECIFICATION AuditSpec
INVARIANTS
    AuditTypeOK
    OrderKept
    NewestOnDisk
    DiskBounded
    OldestGoFirst
PROPERTIES
    TrailKept
CHECK_DEADLOCK FALSE
