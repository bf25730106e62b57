\* Two handlers, a disk that works, the documented revocation.
SPECIFICATION Spec
CONSTANTS
    Handlers = {h1, h2}
    NoHandler = NoHandler
    Starters = {p1}
    MaxMinted = 4
    SaveMayFail = FALSE
    Removals <- FullRevocation
    Expiring = {"refresh"}
SYMMETRY Symmetry
INVARIANTS
    TypeOK
    NoRetiredTokenCurrent
    KindsKeptApart
    PromisedRefreshHonoured
    DiskMatchesMemory
    StaleNeverServed
PROPERTIES
    EachRefreshSpentOnce
    ImplementsAuthority
