CONSTANTS
    None = None
    u1 = u1
    u2 = u2
    u3 = u3
    u4 = u4
    Updates = {u1, u2}
    Gate = "all"
    Menu <- RequestsMenu
SPECIFICATION Spec
INVARIANTS
    RequestKept
