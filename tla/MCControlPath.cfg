\* Three mailbox sequence numbers and two query numbers: both wrap all the time, and the chunks
\* of an abandoned answer bear the number of the query in hand as often as not.
CONSTANTS
    FrameMod = 3
    Deadline = 1
    InMissThreshold = 2
    Capacity = 8
    Cost = 4
    Refill = 2
    ClockMod = 11
    GateMod = 2
    GateQueue = 1
    GateRing = 2
    Chunks = 2
    PollMax = 2
    WindowCap = 1
    RxSize = 3
    pk1 = pk1
    pk2 = pk2
    Packets <- MCPackets
    Damaged = Damaged
    NoPacket = NoPacket
    TxSize = 3
    Hellos = 3
    TxNumbers = 2
SPECIFICATION ControlSpec
INVARIANTS ControlTypes MailboxSafe RateBound ExitHonest ThisTurn FramesWhole
PROPERTIES AnsweredOrGivenUp QueryEnds ReceptionsFifo
