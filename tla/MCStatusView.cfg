CONSTANTS
    i1 = i1
    i2 = i2
    None = None
    Instance <- MCInstance
    Bars <- MCBars
    TTL = 2
    Stale = 3
    MaxClock = 3
    MaxToken = 2
    MaxFaults = 1
SPECIFICATION Spec
PROPERTIES
    ReadyIsRecent
    ReadyNamesHolder
    
SYMMETRY Symmetry
