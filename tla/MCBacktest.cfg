SPECIFICATION Spec
CHECK_DEADLOCK FALSE
CONSTANTS
    s1 = s1
    Symbol <- MCOne
    Close <- MCCloses
    PrevClose <- MCPrevs
    Minutes <- MCMinutes
    Answer <- MCAnswers
    Replay <- MCReplay
    MaxDay = 2
    FetchDay = 0
    SlippageBps = 50
    Tiered = TRUE
    InitialCash = 1055
    LimitBps = 700
    FullTarget = 10
    ReducedTarget = 6
    Lookback = 2
    MinTrendUp = 1
    EntryBps = 100
    StrongBps = 400
    ExitBps <- MCExit
    StopBps = 400
    MaWindow = 2
    BuyBelowBps = 100
    SellAboveBps = 100
    AiLookback = 2
    SureBps = 350
    QtyStep = 2
    MinQty = 4
    LotSize = 4
    AllowOddLotSell = TRUE
    CommissionRate = 5
    TransferRate = 1
    StampRate = 5
    Grid = 2
INVARIANTS
    SameDayKept
    StopHonoured
    ExitsReach
    FiguresAddUp
    DrawdownIsWorst
    HoldingIsFifo
