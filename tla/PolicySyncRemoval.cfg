SPECIFICATION FairSpec
CONSTANTS
    Peer = {p1}
    Feature = {f1}
    Absent = Absent
    Removed = Removed
PROPERTIES
    RemovedStops
