CONSTANTS
    M = 9
    Turns = 8
    N = 3
    Save = 2
    Optional = {3}
    MaxTurn = 3
    Period <- MCPeriod
SPECIFICATION Spec
INVARIANTS
    OnTime
PROPERTY PeriodKept
