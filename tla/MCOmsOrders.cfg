SPECIFICATION Spec
CONSTANTS
    open = open
    close = close
    None = None
    Signal <- MCSignal
    Reduce <- MCReduce
    Lots = 2
    MaxTroubles = 1
INVARIANTS
    WriteAhead
    ProtectionSweeps
    ExecutionsAccounted

    
