\* Blockhash reuse as the cache's comment describes it: distinct transactions.
SPECIFICATION Spec
CONSTANTS
    MaxOrders = 3
    Outs = {3}
    Slip = 1
    Dust = 1
    EntryTip = 1
    ExitTip = 1
    TipAccounts = 2
    CacheTicks = 1
    HashTicks = 3
    Timeout = 2
INVARIANT TipsDistinct
