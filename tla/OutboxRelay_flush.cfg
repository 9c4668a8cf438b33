SPECIFICATION FairSpec
CONSTANTS
    Events = {1}
    Relays = {r1, r2}
    FetchLimit = 1
    MaxRetries = 2
    MaxCrashes = 1
INVARIANTS
    PublishedIsProjected
    AnnouncedIsReadable
    OneRelayPerEvent
    RetriesBounded
PROPERTIES
    PublishedIsFinal
    Settles
