SPECIFICATION Spec
CONSTANTS
    s1 = s1
    s2 = s2
    Symbol <- MCTwo
    Price <- MCPrices
    Target <- MCTargets
    QtyStep = 2
    MinQty = 4
    LotSize = 4
    AllowOddLotSell = TRUE
    MinNotional = 5
    MaxSingle = 24
    MaxTotal = 38
    CommissionRate = 50
    TransferRate = 0
    StampRate = 50
    Grid = 2
    InitialCash = 36
    MaxDay = 3
    MaxFills = 4
INVARIANTS
    TPlusOne
    LimitsHold
    ReplayAgrees
    PlanIsLargest
    PlanSettles
