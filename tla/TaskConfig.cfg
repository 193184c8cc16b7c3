SPECIFICATION MCSpec
CONSTANTS
    Seconds <- MCSeconds
    Delays <- MCDelays
    WorkerCounts <- MCWorkerCounts
    None = None
INVARIANTS
    TimeoutsSound DelaysDeliverable BatchHopEnds
    KwargsArrive DeployCheckComplete
