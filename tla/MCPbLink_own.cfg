\* A late chunk taken for the reply of the next control-IN query.
CONSTANTS
    Lanes = {"infer", "heartbeat", "ctrl"}
    Slots = 4
    SeqMod = 16
    MaxChunks = 2
    MissThreshold = 3
    CrashloopBound = 5
    HealthyReset = 5
SPECIFICATION Spec
INVARIANT CtrlReplyOwn
