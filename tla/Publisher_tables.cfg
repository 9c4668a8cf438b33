SPECIFICATION PublisherSpec
CONSTANTS
    Calls = {1, 2, 3, 4, 5}
    Key <- FiveKeys
    Content <- FiveContents
    Invalid = {5}
    Ids = {1, 2}
    Collisions = TRUE
    Faults = TRUE
CHECK_DEADLOCK FALSE
INVARIANTS
    MailHasItsEvent
PROPERTIES
    PublishesOnce
