\* A slot count that divides the index range: the indices wrap freely.
\* The drive completes one command after it was given up.
CONSTANTS
    m1 = m1
    m2 = m2
    Zero = Zero
    Messages <- MCMessages
    Slots = 2
    Modulus = 4
    IndexLimit = 4
    MaxFlips = 1
    t1 = t1
    t2 = t2
    NoText = NoText
    Texts <- MCTexts
    EmbedSeqMod = 4
    EmbedQueue = 1
    Versions = 4
    p1 = p1
    p2 = p2
    Empty = Empty
    Preambles <- MCPreambles
    SctxQueue = 2
    QueryMod = 4
    l1 = l1
    l2 = l2
    d1 = d1
    Blank = Blank
    None = None
    Lbas <- MCLbas
    Data <- MCData
    Size = 3
    CidMod = 3
    MaxTimeouts = 1
SYMMETRY SectorSymmetry
SPECIFICATION PagesSpec
INVARIANTS PageTypes RingSafe OwnVector ContextIntact PhaseTellsNew QueueInStep
PROPERTIES ImplementsFifo CompletionsFifo
