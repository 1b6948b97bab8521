CONSTANTS
    b1 = b1
    s1 = s1
    e1 = e1
    u1 = u1
    apply = apply
    Batch = {b1}
    Single = {s1}
    Editor = {e1}
    Apply = apply
    User = {u1}
    Form <- MCForm
    First <- MCFirst
    MaxPrice = 2
    MaxEdits = 1
    MaxGuides = 1
    MaxSingles = 1
    MaxFaults = 1
SPECIFICATION FairSpec
INVARIANTS HistoryAgrees UnpricedNotActive
PROPERTIES DecisionsKept EventuallyCompleted
CHECK_DEADLOCK FALSE
