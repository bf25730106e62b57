\* A run in a terminal that a descendant of op keeps open.
SPECIFICATION FairSpec
CONSTANTS
    Requests = {1}
    Word = 128
    Millisecond = 4
    DefaultTimeout = 12
    MaxTimeout = 20
    ProbeTimeout = 8
    Capacity = 2
    MaxWrites = 1
    Entries = {shimDir, shimDirAgain, usrBin, bin, here}
    Relative = {here}
    ShimDir = shimDir
    UsrBin = usrBin
    NoOp = noOp
    MaxPath = 0
PROPERTIES
    DeadlineHonoured
CHECK_DEADLOCK FALSE
