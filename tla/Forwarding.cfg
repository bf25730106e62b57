\* Two commands on one client machine; no losses.
SPECIFICATION SystemSpec
CONSTANTS
    vm = vm
    host = host
    Invocations = {i1, i2}
    Machine <- BothMachines
    Host = host
    NoOne = noOne
    Where <- OnClient
    Results = {"ok", "exit127", "invalid", "rejected"}
    MayLose = FALSE
    Unwritable = {"access"}
    Modes <- ReadingOrNot
    MaxMinted = 3
    Expiring = {"access", "refresh"}
    Entries = {shimDir, shimDirAgain, usrBin, bin, here}
    Relative = {here}
    ShimDir = shimDir
    UsrBin = usrBin
    NoOp = noOp
    MaxPath = 3
SYMMETRY Symmetry
INVARIANTS
    SystemTypeOK
    ShimRunsNoShim
    UndisturbedServed
    CredentialKept
    DoctorServed
    RotatesAtMostOnce
PROPERTIES
    NoStaleOverwrite
    DaemonImplementsAuthority
CHECK_DEADLOCK FALSE
