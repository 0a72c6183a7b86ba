CONSTANTS
    None = None
    Absent = Absent
    Torn = Torn
    Down = Down
    Pids = {p1, p2}
    Sessions = {s1}
    States = {fresh, moved}
    Fresh = fresh
    Disturbed = {"prepare", "write", "chmod"}
SPECIFICATION Spec
INVARIANTS
    FileFollowsMemory
CHECK_DEADLOCK FALSE
