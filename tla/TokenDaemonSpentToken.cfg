\* One handler and a disk on which any write may fail.
SPECIFICATION Spec
CONSTANTS
    Handlers = {h1}
    NoHandler = NoHandler
    Starters = {p1}
    MaxMinted = 4
    SaveMayFail = TRUE
    Removals <- FullRevocation
    Expiring = {}
INVARIANTS
    NoRetiredTokenCurrent
