\* Two commands on one client machine; connections break, replies get lost; fair.
SPECIFICATION FairSystemSpec
CONSTANTS
    vm = vm
    host = host
    Invocations = {i1, i2}
    Machine <- BothMachines
    Host = host
    NoOne = noOne
    Where <- OnClient
    Results = {"ok", "exit127"}
    MayLose = TRUE
    Unwritable = {"access", "refresh"}
    Modes <- Probing
    MaxMinted = 2
    Expiring = {}
    Entries = {shimDir, shimDirAgain, usrBin, bin, here}
    Relative = {here}
    ShimDir = shimDir
    UsrBin = usrBin
    NoOp = noOp
    MaxPath = 1
INVARIANTS
    RunOnce
    OneProbe
PROPERTIES
    InvocationEnds
    RefusalMeansProbe
CHECK_DEADLOCK FALSE
