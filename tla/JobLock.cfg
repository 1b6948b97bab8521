CONSTANTS
    j1 = j1
    j2 = j2
    j3 = j3
    Type <- MCType
    Refuses <- MCRefuses
    AsyncTypes <- MCAsync
    Polls <- MCPolls
    NoJob = NoJob
    NoType = NoType
    Job = {j1, j2, j3}
    TypeOf <- TypeOfTranscripts
    Starter = {s1}
    Canceller = {c1}
    MaxItems = 1
    MaxFaults = 1
    MaxCrashes = 1
SPECIFICATION Spec
INVARIANT EndedNotRunning
PROPERTY LockSpec
CHECK_DEADLOCK FALSE
