CONSTANTS
    LastSetting = 7
    LastDelay = 7
SPECIFICATION PatientSpec
INVARIANTS
    BoundForScene
    EjectAsked
PROPERTIES
    ImplementsNavigation
    SettingsShown
    DelayKeyServed
