SPECIFICATION FairSpec
CONSTANTS
    Peer = {p1}
    Feature = {f1, f2}
    Absent = Absent
    Removed = Removed
INVARIANTS
    SyncTypeOK
    OnlySharedRecipients
    EnabledIsRunning
PROPERTIES
    PolicyArrives
