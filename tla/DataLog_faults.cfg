CONSTANTS
    MaxFd = 2
    MaxFault = 3
    MaxShort = 1
    Shell = TRUE
    MaxSave = 2
    MaxBoot = 3
SPECIFICATION MCSpec
INVARIANTS
    TypeOK
    TitleFirst
    StoredIfMounted
PROPERTIES
    
    EjectedFrozen
    LostByFault
    SaveEnds
    StoresAgain
CHECK_DEADLOCK FALSE
