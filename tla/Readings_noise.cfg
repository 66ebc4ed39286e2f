CONSTANTS
    Device = {"hmc", "bme", "ltr"}
    Removable = {"hmc", "bme", "ltr"}
    Tries = 2
SPECIFICATION Spec
INVARIANTS
    ClaimReleased
    ReadsReachRegister
    StartsConfigured
PROPERTY BusFreed
