\* Two handlers and a disk on which any write may fail; nothing deleted; fair.
SPECIFICATION FairSpec
CONSTANTS
    Handlers = {h1, h2}
    NoHandler = NoHandler
    Starters = {p1}
    MaxMinted = 2
    SaveMayFail = TRUE
    Removals = {}
    Expiring = {}
PROPERTIES
    RequestAnswered
    StartupEnds
