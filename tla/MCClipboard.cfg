SPECIFICATION FairSpec
CONSTANTS
    d1 = d1
    d2 = d2
    note = note
    path = path
    file = file
    Copied <- MCCopied
    OldTexts <- MCOldTexts
    None = None
    Devices <- MCDevices
    Values <- MCValues
    Blob <- MCBlob
    ReadAs <- MCReadAs
    MaxCopies = 2
    MaxFaults = 2
    MaxInFlight = 2
INVARIANTS
    NoEcho
    QuietMeansEqual
PROPERTIES
    CopyReachesAll
CHECK_DEADLOCK FALSE
