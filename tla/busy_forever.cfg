CONSTANTS
    None = None
    u1 = u1
    u2 = u2
    u3 = u3
    home = home
    work = work
    proj = proj
    Updates = {u1, u2, u3}
    Dirs = {home}
    Habits = {}
    Projects = {}
    Home = home
    Path <- MCPath
    Saved <- NewOnly
    Menu <- RaceMenu
SPECIFICATION FairSpec
PROPERTIES
    EveryUpdateEnds
CHECK_DEADLOCK FALSE
