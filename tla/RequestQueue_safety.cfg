SPECIFICATION Spec
CONSTANTS
    Jobs = {1, 2, 3}
    RoleId <- ThreeRoleIds
    Uid <- ThreeUids
    Workers = 2
    Capacity = 2
    RoleQueueCapacity = 1
CHECK_DEADLOCK FALSE
INVARIANTS
    LiveRoleSerial
    RejectedNeverRuns
