\* The isolation the code runs with: reads take no row lock.
SPECIFICATION Spec
CONSTANTS
    a = a
    b = b
    Instance = {a, b}
    None = None
    Host <- OtherHosts
    TTL = 2
    RowLocked = FALSE
    MaxClock = 3
    MaxToken = 3
INVARIANT
    SingleActive
