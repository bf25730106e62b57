\* One run of each kind, with a descendant, of all the requested timeouts,
\* and every search for op along at most three of five directories.
SPECIFICATION FairSpec
CONSTANTS
    Requests <- SomeRequests
    Word = 128
    Millisecond = 4
    DefaultTimeout = 12
    MaxTimeout = 20
    ProbeTimeout = 8
    Capacity = 2
    MaxWrites = 4
    Entries = {shimDir, shimDirAgain, usrBin, bin, here}
    Relative = {here}
    ShimDir = shimDir
    UsrBin = usrBin
    NoOp = noOp
    MaxPath = 3
INVARIANTS
    TypeOK
    OutputComplete
    ResultTrue
    NoOpLeftBehind
    ProbeTrue
    NeverBeyondMax
    RunsTheLocatedOp
PROPERTIES
    RunEnds
CHECK_DEADLOCK FALSE
