\* Two tokens held together or one after the other: money, ledger, sizing.
SPECIFICATION Spec
CONSTANTS
    StartEquity = 10
    DailyLossLimitPct = 20
    MaxTrades = 3
    MaxOpenPositions = 2
    Window = 2
    DayLength = 3
    KillAtBoot = FALSE
    Prices = {1, 2, 3}
    Unit = 6
    EntryMaxAge = 0
    RiskPct = 60
    MaxSinglePos = 5
    FunnelSlices = 2
    TakeProfitPct = 50
    StopLossPct = 40
    ConvictionMinPct = 100
    TrailPct = 30
    MaxHold = 2
    ConvictionMaxHold = 3
    Mints = {m1, m2}
    Fee = 1
    FillDelays = {0}
    MaxExitAttempts = 2
    MaxStep = 2
    MaxClock = 3
    MaxOrders = 4
SYMMETRY Symmetry
INVARIANTS
    MoneyConserved
    DayLedgerMatchesTrades
    NeverOverdeployed
    HighWaterIsHigh
