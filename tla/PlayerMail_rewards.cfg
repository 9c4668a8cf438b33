SPECIFICATION Spec
SYMMETRY OpSymmetry
CONSTANTS
    Ops = {o1, o2}
    Indexes <- OutOfRange
    NumLoots = 2
INVARIANTS
    AttemptedOnce
    OnlyRealLoots
    ClaimedIsDelivered
PROPERTIES
    OnlyStaleSavesLose
