\* One command; the reply to a refresh may be lost.
SPECIFICATION SystemSpec
CONSTANTS
    vm = vm
    host = host
    Invocations = {i1}
    Machine <- BothMachines
    Host = host
    NoOne = noOne
    Where <- OnClient
    Results = {"ok"}
    MayLose = TRUE
    Unwritable = {}
    Modes <- NoDoctor
    MaxMinted = 3
    Expiring = {}
    Entries = {shimDir, shimDirAgain, usrBin, bin, here}
    Relative = {here}
    ShimDir = shimDir
    UsrBin = usrBin
    NoOp = noOp
    MaxPath = 1
INVARIANTS
    CredentialHeld
CHECK_DEADLOCK FALSE
