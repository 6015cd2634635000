SPECIFICATION FairCollectorSpec
CONSTANTS
    s1 = s1
    s2 = s2
    Symbols <- MCTwo
    PollBars = 2
    SeedBars = 3
    Capacity = 7
    Slack = 1
    FaultKinds <- MCAll
    MaxBars = 5
    MaxTroubles = 1
INVARIANTS
    CollectorTypeOK
    EmittedOnce
    NoGap
    CheckpointTruthful
PROPERTY
    GapFilled
