\* A worker reset with its wake pending runs on for the old dispatch.
CONSTANTS
    a = a
    b = b
    Nobody = Nobody
    Jobs <- MCJobs
    Ends <- MCEnds
    N = 2
    MaxRestarts = 1
    PendingAtReset = TRUE
SPECIFICATION Spec
INVARIANT OwnJob
