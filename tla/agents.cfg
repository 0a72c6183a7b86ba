CONSTANTS
    None = None
    u1 = u1
    u2 = u2
    u3 = u3
    Updates = {u1, u2, u3}
    Menu <- LifeMenu
SPECIFICATION FairSpec
INVARIANTS
    TypeOK
    OneAnnouncement
    ScreenIsSession
    NewerRunStays
PROPERTIES
    EndIsTold
