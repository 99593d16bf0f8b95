CONSTANTS
    r1 = r1  r2 = r2  r3 = r3
    Stopped = Stopped
    Repo <- Repos3
    Size <- Sizes
    CacheSize = 4
    Timeout = 3
    MaxLate = 2
    TxnRepo = {r3}
SPECIFICATION Spec
INVARIANTS IdleEntriesLive UsageWithinLimit TimerArmed UnusedIsIdle
PROPERTIES UnusedIsUnloaded
