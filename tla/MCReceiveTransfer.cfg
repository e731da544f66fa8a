SPECIFICATION Spec
CONSTANTS
    Transfer = {t1}
    Hash = {h1}
    Handler = {a1, a2}
    Startup = {s1}
    Watcher = {w1}
    Lock = {l1, l2}
    None = None
    ReadFails = TRUE
    MaxInFlight = 1
SYMMETRY Symmetry
INVARIANTS
    TypeOK
    OneReceivePerTransfer
    AckMeansExported
    CompleteMeansExported
PROPERTIES
    ForgottenOnlyWhenDone
