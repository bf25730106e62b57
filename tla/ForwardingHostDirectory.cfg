\* Two commands on the daemon's own machine, over the files it writes.
SPECIFICATION SystemSpec
CONSTANTS
    vm = vm
    host = host
    Invocations = {i1, i2}
    Machine <- BothMachines
    Host = host
    NoOne = noOne
    Where <- OnHost
    Results = {"ok"}
    MayLose = FALSE
    Unwritable = {}
    Modes <- NoDoctor
    MaxMinted = 3
    Expiring = {"access"}
    Entries = {shimDir, shimDirAgain, usrBin, bin, here}
    Relative = {here}
    ShimDir = shimDir
    UsrBin = usrBin
    NoOp = noOp
    MaxPath = 1
PROPERTIES
    NoStaleOverwrite
CHECK_DEADLOCK FALSE
