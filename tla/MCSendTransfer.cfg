SPECIFICATION Spec
CONSTANTS
    Transfer = {t1}
    Hash = {h1}
    Attempt = {b1, b2}
    None = None
    Orphan = Orphan
    MaxInFlight = 1
SYMMETRY Symmetry
INVARIANTS
    TypeOK
    WaitersAreRegistered
    ReadyHasHash
