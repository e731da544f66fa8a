SPECIFICATION Spec
CONSTANTS
    Transfer = {t1}
    Hash = {h1}
    Attempt = {b1}
    Handler = {a1}
    Startup = {s1}
    Watcher = {w1}
    Lock = {l1}
    None = None
    Orphan = Orphan
    ReadFails = FALSE
    MaxInFlight = 1
    MaxTasks = 1
    MaxMessages = 1
CONSTRAINT Bounded
INVARIANTS
    SuccessMeansExported
PROPERTIES
    SenderForgetsOnlyDelivered
    ImplementsTransferSpec
