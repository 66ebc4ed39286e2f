CONSTANTS
    LastSetting = 4
    LastDelay = 3
    MaxPress = 9
SPECIFICATION MCSpec
INVARIANTS
    TypeOK
    KeysPaired
    ScreenMatchesKeys
    CursorFresh
PROPERTY Settles
