CONSTANTS
    N = 3
    Heap = {b1, b2, b3, b4}
    MaxOther = 1
SPECIFICATION Spec
INVARIANTS
    NoAlias
    AllAlive
PROPERTIES
    OwnFailureOnly
    StartsWithRoom
CHECK_DEADLOCK FALSE
