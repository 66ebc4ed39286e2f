CONSTANTS
    Tries = 5
    MaxFaults = 1
SPECIFICATION Spec
INVARIANT WriteStored
