SPECIFICATION DispatchSpec
CONSTANTS
    Threads = {t1, t2}
    Calls = {c1, c2, c3}
    LocalWorkers = 1
    MAX_RETRIES = 2
    None = None
SYMMETRY Symmetric
INVARIANTS
    OnlyAfterCommit EagerFailuresContained EagerDepthBounded LogIdOwn PoolsReleased
    
