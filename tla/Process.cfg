\* Two kinds of alert, a channel of one, three endpoints, one token.
SPECIFICATION ProcessSpec
CONSTANTS
    AlertKinds = {k1, k2}
    MinInterval = 2
    MaxAlertTime = 3
    MaxFires = 4
    MaxAlertLives = 2
    MirrorDepth = 1
    MaxAppends = 4
    MaxAuditLives = 2
    Capacity = 2
    Period = 3
    MaxGovTime = 12
    MaxTakes = 6
    Endpoints = 3
    MaxDrops = 2
    ConfirmPolls = 2
    Mints = {m1}
    PgBuilt = TRUE
INVARIANTS
    ProcessTypeOK
    OncePerWindow
    MirrorAccounts
    TornLinesCost
    RateBounded
    RestedPassWhole
    DeadNotHammered
    BookIsReal
PROPERTIES
    AlertsDelivered
    FlowEnds
CHECK_DEADLOCK FALSE
