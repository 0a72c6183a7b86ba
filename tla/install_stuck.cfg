CONSTANTS
    None = None
    Part = Part
    usr = usr
    bin = bin
    brew = brew
    home = home
    gone = gone
    Directories = {usr, bin, brew, home, gone}
    Existing = {usr, bin, brew, home}
    HomeDir = home
    Base <- MCBase
    MinEntries = 3
    Supervisors = {"systemd"}
    Captures <- OneCapture
    Tokens = {t1}
    MaxInstall = 1
SPECIFICATION InstallSpec
INVARIANTS
    BrokenIsGone
CHECK_DEADLOCK FALSE
