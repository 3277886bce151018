\* Two positions open at once, three tokens, slow fills: sweep, cap, throttle.
SPECIFICATION Spec
CONSTANTS
    StartEquity = 12
    DailyLossLimitPct = 20
    MaxTrades = 3
    MaxOpenPositions = 2
    Window = 2
    DayLength = 2
    KillAtBoot = FALSE
    Prices = {1, 2}
    Unit = 2
    EntryMaxAge = 0
    RiskPct = 30
    MaxSinglePos = 5
    FunnelSlices = 2
    TakeProfitPct = 50
    StopLossPct = 40
    ConvictionMinPct = 100
    TrailPct = 30
    MaxHold = 2
    ConvictionMaxHold = 3
    Mints = {m1, m2, m3}
    Fee = 1
    FillDelays = {0, 1}
    MaxExitAttempts = 2
    MaxStep = 2
    MaxClock = 3
    MaxOrders = 4
SYMMETRY Symmetry
INVARIANTS
    Inductive
    CapRespected
    BuysThrottled
    NoStopForgotten
    SweepGivesUp
    PagesAreAudited
PROPERTIES
    NoEntryUnderBreaker
    StuckWaitsForTick
