SPECIFICATION Spec
CONSTANTS
    Mails = {1}
    Instances = {1, 2}
    Tasks = {1, 2}
    Start <- Starts
    Expire <- Expires
    MaxTime = 1
    Host <- TwoHosts
    Faults = TRUE
    MaxLosses = 1
INVARIANTS
    TypeOK
    SnapshotCovers
    RebuildLockKept
