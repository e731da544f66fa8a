SPECIFICATION ManifestSpec
CONSTANTS
    Runs = {b1, b2}
    Entry <- MCEntry
    MaxEntries = 3
    TransferRoom = 1
    ChunkRoom = 2
    InitialChunkEntries = 2
    FilesChange = FALSE
    Absent = Absent
SYMMETRY Symmetry
INVARIANTS
    PlanIsExact
    SpawnedIsSent
    IntactManifestIsSpawned
