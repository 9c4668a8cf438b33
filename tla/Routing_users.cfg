SPECIFICATION FairSpec
CONSTANTS
    Instances = {1, 2, 3}
    Started = {2, 3}
    Unstable = {1}
    Gateways = {1, 2}
    Tasks = {1, 2}
    Placements <- TogetherOrApart
    VirtualNodes = 2
    Weight <- Weights
    NodeHash <- NodeHashes
    Hashes = {0, 1, 2, 3, 4, 5}
    UserHash = 0
    Faults = TRUE
INVARIANTS
    OneServerPerUser
    RunningIsRegistered
    MinimalMovement
PROPERTIES
    GoneIsForgotten
