CONSTANTS
    None = None
    u1 = u1
    u2 = u2
    u3 = u3
    home = home
    work = work
    proj = proj
    Updates = {u1, u2}
    Dirs = {home, work}
    Habits = {"exit", "overflow", "echo", "read"}
    Projects = {proj}
    Home = home
    Path <- MCPath
    Saved <- NewOnly
    Menu <- ContextMenu
SPECIFICATION Spec
INVARIANTS
    ResultIsTrue
    SessionPaired
