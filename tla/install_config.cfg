CONSTANTS
    None = None
    Part = Part
    usr = usr
    bin = bin
    brew = brew
    home = home
    gone = gone
    Directories = {usr, bin, brew, home, gone}
    Existing = {usr, bin, brew, home}
    HomeDir = home
    Base <- MCBase
    MinEntries = 3
    Supervisors = {"systemd", "launchd"}
    Captures <- OneCapture
    Tokens = {t1, t2}
    MaxInstall = 1
SPECIFICATION InstallSpec
INVARIANTS
    SameConfigInspected
CHECK_DEADLOCK FALSE
