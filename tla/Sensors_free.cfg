CONSTANTS
    N = 1
    Heap = {b1, b2}
    MaxOther = 0
SPECIFICATION Spec
PROPERTY FreedOnce
CHECK_DEADLOCK FALSE
