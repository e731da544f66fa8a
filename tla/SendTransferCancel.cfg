SPECIFICATION Spec
CONSTANTS
    Transfer = {t1}
    Hash = {h1}
    Attempt = {b1}
    None = None
    Orphan = Orphan
    MaxInFlight = 1
PROPERTIES
    CancelledNeverSends
