\* One command is given up: the next ones take each other's completions.
CONSTANTS
    d1 = d1
    Blank = Blank
    None = None
    Lbas <- MCLbas
    Data <- MCData
    Size = 3
    CidMod = 3
    MaxTimeouts = 1
SPECIFICATION NvSpec
INVARIANT FlushedIsDurable
