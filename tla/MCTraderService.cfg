SPECIFICATION FairSpec
CONSTANTS
    b1 = b1
    b2 = b2
    b3 = b3
    Sentinel = Sentinel
    Bar <- MCBar
    Capacity = 2
    MaxYields = 4
    MaxFaults = 1
INVARIANTS
    UnfinishedExact
    StopDrains
    RetriggerDistance
PROPERTIES
    
    NoOrderAfterRelease
    StopEnds
    DeathEnds
