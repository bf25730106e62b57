\* launchd, one daemon by hand, an update and the service command over one socket path.
SPECIFICATION FairSpec
\* With no job and nobody left to start a daemon, the machine stays as it is.
CHECK_DEADLOCK FALSE
CONSTANTS
    Procs = {p1, p2}
    NoFile = noFile
    StaleFile = staleFile
    NoProc = noProc
    MaxByHand = 1
    MaxCrashes = 1
    MaxService = 1
INVARIANTS
    TypeOK
    SettledReachable
PROPERTIES
    ServingAgainTrue
    ServedWhileLoaded
    UpdateTakesEffect
