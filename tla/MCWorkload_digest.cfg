\* The uptime passes its mark, and the clock wraps.
CONSTANTS
    Lanes = {"infer", "heartbeat", "shield", "wake", "ctrl"}
    Slots = 1
    SeqMod = 1
    MaxChunks = 2
    MissThreshold = 2
    CrashloopBound = 2
    HealthyReset = 2
    ClockMod = 5
    Hour = 2
    Mark = 2
    Cooldown = 3
    InformBudget = 2
    WakeBudget = 1
    MaxWindow = 2
SPECIFICATION WorkloadSpec
PROPERTY DigestOnce
