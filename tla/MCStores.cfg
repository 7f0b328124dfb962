\* One kind of reset at a time; a store and a batch of two records, a table of three.
CONSTANTS
    MaxSeq = 6
    Reserve = 1
    SeqRange = 8
    WcMod = 4
    Deployments <- MCDeployments
    k1 = k1
    k2 = k2
    k3 = k3
    k4 = k4
    a1 = a1
    act1 = act1
    Keys <- MCKeys
    StoreMax = 2
    MaxTurns = 4
    MaxStops = 2
    MaxErrors = 1
    CacheSize = 3
    CacheQueries <- MCQueries
    Asked <- MCAsked
    CacheActions <- MCActions
    CacheHome <- MCHome
    UsedMod = 5
    CacheEmpty = CacheEmpty
    CacheTombstone = CacheTombstone
    Patterns <- MCPatterns
    Threshold = 2
    HighWater = 2
    FreqCap = 2
    BatchMax = 2
    StoreKept = 2
    own = own
    guest = guest
    home = home
    habit = habit
    tie = tie
    v1 = v1
    v2 = v2
    BSpans = {1, 2, 3}
    BDay <- MCDay
    BVoice <- MCVoice
    BClusters <- MCClusters
    Owner = own
    BDates = {1, 2}
    BSlots <- MCSlots
    MultiSlots <- MCMulti
    EdgeSlots <- MCEdges
    BValues <- MCValues
    Households <- MCHouseholds
SPECIFICATION StoresSpec
INVARIANTS StoreTypes AcceptedOnce FloorKept RecallHonest CacheSound BeliefSafe
PROPERTY ImplementsLru
