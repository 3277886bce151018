\* Three slots and a clock of two; three messages, two faults, two times.
SPECIFICATION FeedsSpec
CONSTANTS
    Slots = {1, 2, 3}
    BlockTimes = {1, 2}
    FeedMints = 2
    ClockCap = 2
    MaxIxs = 2
    MaxBuffer = 2
    MaxWall = 2
    MaxMessages = 3
    MaxFaults = 2
INVARIANTS
    FeedsTypeOK
    StampExactOrDropped
    ReplayIsIdentical
    RawIsGroundTruth
CHECK_DEADLOCK FALSE
