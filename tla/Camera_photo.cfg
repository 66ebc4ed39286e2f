CONSTANTS
    Capacity = 5
    MaxFrame = 8
SPECIFICATION MCSpec
INVARIANTS
    PhotoIntact
    PhotoNew
    ReadyInTime
PROPERTY HandedOver
