CONSTANTS
    None = None
    u1 = u1
    u2 = u2
    u3 = u3
    home = home
    work = work
    proj = proj
    Updates = {u1, u2}
    Dirs = {home, work}
    Habits = {"exit"}
    Projects = {proj}
    Home = home
    Path <- MCPath
    Saved <- NewOnly
    Menu <- ExitMenu
SPECIFICATION Spec
PROPERTIES
    ResetIsKept
CHECK_DEADLOCK FALSE
