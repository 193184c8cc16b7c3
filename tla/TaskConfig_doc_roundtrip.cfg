SPECIFICATION MCSpec
CONSTANTS
    Seconds <- MCSeconds
    Delays <- MCDelays
    WorkerCounts <- MCWorkerCounts
    None = None
INVARIANT KwargsRoundTrip
