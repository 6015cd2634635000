\* The row is locked while it is acquired, both traders on one host.
SPECIFICATION Spec
CONSTANTS
    a = a
    b = b
    Instance = {a, b}
    None = None
    Host <- SameHost
    TTL = 2
    RowLocked = TRUE
    MaxClock = 3
    MaxToken = 3
INVARIANTS
    SingleActive
    CachedLeaseTruthful
    TokenNamesOneInstance
PROPERTIES
    AdmissionOrder
    LostStaysLost
SYMMETRY Symmetric
