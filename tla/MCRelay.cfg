SPECIFICATION RelayFairSpec
CONSTANTS
    Chains <- MCChains
    MaxChunks <- MCMaxChunks
    Cap = 1
INVARIANTS
    PrefixDelivered
    ResponseComplete
PROPERTIES
    ClientLearnsEnd
CHECK_DEADLOCK FALSE
