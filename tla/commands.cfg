CONSTANTS
    None = None
    u1 = u1
    u2 = u2
    u3 = u3
    home = home
    work = work
    proj = proj
    Updates = {u1, u2, u3}
    Dirs = {home}
    Habits = {"exit", "overflow", "read"}
    Projects = {}
    Home = home
    Path <- MCPath
    Saved <- NewOnly
    Menu <- CommandsMenu
SPECIFICATION Spec
INVARIANTS
    TypeOK
    OneCommand
    ActiveIsHeld
    NoStrayShell
    FlagHasItsStop
CHECK_DEADLOCK FALSE
