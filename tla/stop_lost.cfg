CONSTANTS
    None = None
    u1 = u1
    u2 = u2
    u3 = u3
    home = home
    work = work
    proj = proj
    Updates = {u1, u2}
    Dirs = {home}
    Habits = {"exit"}
    Projects = {}
    Home = home
    Path <- MCPath
    Saved <- NewOnly
    Menu <- StopMenu
SPECIFICATION Spec
INVARIANTS
    StopReaches
CHECK_DEADLOCK FALSE
