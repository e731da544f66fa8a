SPECIFICATION FairSpec
CONSTANTS
    Transfer = {t1}
    Hash = {h1}
    Handler = {a1}
    Startup = {s1}
    Watcher = {w1}
    Lock = {l1}
    None = None
    ReadFails = FALSE
    MaxInFlight = 0
PROPERTIES
    EveryTaskEnds
    WatcherResumes
