\* Three tokens, fewer slots than positions: subscriptions, saves, shutdown.
SPECIFICATION Spec
CONSTANTS
    Mints = {m1, m2, m3}
    MaxSubs = 1
    MaxOpen = 2
    MaxEvents = 4
INVARIANTS
    TypeOK
    SlotsWellUsed
    ServerAgrees
    BookSavedInGaps
PROPERTY
    StopsOnSignal
