CONSTANTS
    j1 = j1
    j2 = j2
    j3 = j3
    Type <- MCType
    Refuses <- MCRefuses
    AsyncTypes <- MCAsync
    Polls <- MCPolls
    NoJob = NoJob
    NoType = NoType
    Job = {j1, j2}
    TypeOf <- TypeOfApple
    Starter = {s1, s2}
    Canceller = {c1}
    MaxItems = 2
    MaxFaults = 0
    MaxCrashes = 1
SPECIFICATION FairSpec
INVARIANTS ExclusiveWorkers CancelStopsWorker
PROPERTY EveryJobEnds
CHECK_DEADLOCK FALSE
