CONSTANTS
    None = None
    Part = Part
    usr = usr
    bin = bin
    brew = brew
    home = home
    gone = gone
    Directories = {usr, bin, brew, home, gone}
    Existing = {usr, bin, brew, home}
    HomeDir = home
    Base <- MCBase
    MinEntries = 3
    Supervisors = {"systemd", "launchd"}
    Captures <- MCCaptures
    Tokens = {t1, t2}
    MaxInstall = 2
SPECIFICATION InstallSpec
INVARIANTS
    BinaryIsWhole
    VerdictKept
    PathIsSound
    TokenIsPortable
PROPERTIES
    InstallTakesEffect
CHECK_DEADLOCK FALSE
