CONSTANTS
    Tries = 3
    MaxFaults = 3
SPECIFICATION Spec
INVARIANTS
    PackageServed
    NothingLeft
PROPERTIES
    ImplementsTransfer
    RequestEnds
CHECK_DEADLOCK FALSE
