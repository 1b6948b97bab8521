CONSTANTS
    q1 = q1
    thread = thread
    w1 = w1
    w2 = w2
    Tables = 2
    Request = {q1}
    Thread = thread
    Writer = {w1, w2}
    NoCopy = NoCopy
    MaxWrites = 2
    MaxFaults = 1
SPECIFICATION FairSpec
INVARIANT FreshIsCurrent
PROPERTIES NoStepBack EventuallyCurrent
CHECK_DEADLOCK FALSE
