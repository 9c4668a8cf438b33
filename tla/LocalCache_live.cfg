SPECIFICATION FairSpec
CONSTANTS
    Mails = {1, 2}
    Instances = {1}
    Tasks = {1, 2}
    Start <- Starts
    Expire <- Expires
    MaxTime = 0
    Host <- OneHost
    Faults = FALSE
    MaxLosses = 1
INVARIANTS
    SnapshotCovers
PROPERTIES
    VersionForward
    VersionConverges
