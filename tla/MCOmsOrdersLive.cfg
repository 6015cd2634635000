SPECIFICATION FairSpec
CONSTANTS
    open = open
    close = close
    None = None
    Signal <- MCOne
    Reduce <- MCNone
    Lots = 2
    MaxTroubles = 2
PROPERTY
    DriftProtected
