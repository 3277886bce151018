\* Crashes at any point of any event, boots from the last snapshot.
SPECIFICATION RSpec
CONSTANTS
    StartEquity = 10
    DailyLossLimitPct = 20
    MaxTrades = 3
    MaxOpenPositions = 1
    Window = 2
    DayLength = 2
    KillAtBoot = FALSE
    Prices = {1, 2}
    Unit = 2
    EntryMaxAge = 0
    RiskPct = 30
    MaxSinglePos = 5
    FunnelSlices = 1
    TakeProfitPct = 50
    StopLossPct = 40
    ConvictionMinPct = 100
    TrailPct = 30
    MaxHold = 1
    ConvictionMaxHold = 2
    Mints = {m1}
    Fee = 1
    FillDelays = {0}
    MaxExitAttempts = 1
    MaxStep = 1
    MaxClock = 2
    MaxOrders = 2
    MaxRestarts = 2
INVARIANTS
    SnapshotAccepted
    LosesOnlyRecency
    KillNotForgotten
    CapRespected
    DayLedgerMatchesTrades
