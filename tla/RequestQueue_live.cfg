SPECIFICATION FairSpec
CONSTANTS
    Jobs = {1, 2}
    RoleId <- TwoRoleIds
    Uid <- TwoUids
    Workers = 1
    Capacity = 2
    RoleQueueCapacity = 1
CHECK_DEADLOCK FALSE
PROPERTIES
    ResourcesReturn
    LanesDrain
    CloseReturns
