SPECIFICATION Spec
CONSTANTS
    Calls = {1, 2, 3, 4}
    Key <- FourKeys
    Hash <- FourHashes
    Instances = {i1, i2}
CHECK_DEADLOCK FALSE
INVARIANTS
    AnswerIsOwn
    ExecutedOnce
