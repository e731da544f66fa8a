SPECIFICATION FairSpec
CONSTANTS
    Files = 2
    Slots = 2
    ChanCap = 1
    SockCap = 1
    RecvCap = 1
    MaxImport = 1
    MaxRemote = 2
INVARIANTS
    OutcomeIsLast
    CollectionIsComplete
PROPERTIES
    NeverShowsOlder
    AttemptEnds
CHECK_DEADLOCK FALSE
