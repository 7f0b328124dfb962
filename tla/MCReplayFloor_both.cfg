\* A warm reset, then a power loss.
CONSTANTS
    MaxSeq = 5
    Reserve = 1
    SeqRange = 7
    WcMod = 4
    Deployments = {{"power", "warm"}}
SPECIFICATION Spec
INVARIANT AcceptedOnce
