\* Can a trader that knows it lost its lease still send an order?
SPECIFICATION Spec
CONSTANTS
    a = a
    b = b
    Instance = {a, b}
    None = None
    Host <- SameHost
    TTL = 2
    RowLocked = TRUE
    MaxClock = 3
    MaxToken = 3
INVARIANT
    LostNeverSends
