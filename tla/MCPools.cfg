\* Ranges shorter and longer than the team; two respawns.
CONSTANTS
    job1 = job1
    job2 = job2
    Nobody = Nobody
    Jobs <- MCJobs
    Ends <- MCEnds
    N = 3
    MaxRestarts = 2
    PendingAtReset = FALSE
    NoJob = NoJob
    HostJobs <- MCJobs
    HostEnds <- MCEnds
    hostN = 2
    GenMod = 2
SPECIFICATION PoolsSpec
INVARIANTS PoolTypes PoolSafe HostExact
PROPERTIES ImplementsParallelFor HostImplementsParallelFor DispatchesGoOn
