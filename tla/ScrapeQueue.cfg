CONSTANTS
    asus = asus
    acer = acer
    apple = apple
    Page = {asus, acer}
    Uploads = {acer}
    Respecs = {}
    NumVariants <- MCVariants
    Run = {r1}
    Request = {q1}
    NoPage = NoPage
    MaxVersion = 2
    MaxFaults = 1
    MaxAborts = 1
SPECIFICATION FairSpec
INVARIANTS NeverStranded RowsOfOneFetch
PROPERTY EventuallyStored
CHECK_DEADLOCK FALSE
