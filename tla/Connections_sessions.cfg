SPECIFICATION FairSpec
CONSTANTS
    Gateways = {1, 2}
    Conns = {1, 2}
    Placements <- TogetherOrApart
    NoConn = 0
    SessionTTL = 2
    RenewInterval = 1
    Faults = TRUE
INVARIANTS
    TypeOK
    IndexMatchesSession
    NoConnectionLeaked
    ClosedOnlyIfOvertaken
    HeartbeatsHoldLocation
PROPERTIES
    LocationReturns
