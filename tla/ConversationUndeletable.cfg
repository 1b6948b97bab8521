SPECIFICATION PeopleSpec
CONSTANTS
    Off = Off
    None = None
    theOne = theOne
    theOther = theOther
    fam = fam
    Users = {a, b}
    Admins = {a}
    Requests = {theOne, theOther}
    Statuses = {"active", "suspended"}
    MaxHash = 3
    Addresses = {a, b}
    Callers = {theOne}
    PerCaller = 2
    CallerWindow = 2
    Cooldown = 2
    DailyLimit = 2
    Day = 5
    PruneAge = 2
    MaxKeys = 3
    MaxTime = 7
    Rows = {a, b}
    Slots = {1, 2}
    Writers = {theOne, theOther}
    m1 = m1
    m2 = m2
    m3 = m3
    Models = {m1, m2, m3}
    Selectable = {m1, m2}
    DefaultPrimary = m1
    DefaultBackups <- DefaultList
    MaxBackups = 1
    Servers = {theOne, theOther}
    Tasks = {t1, t2}
    Editors = {t1}
    FirstStored <- FirstRows
    Unset = Unset
    Omit = Omit
    CacheTtl = 1
    Horizon = 1
    MaxCommits = 2
    Turns = {theOne, theOther}
    Backups = 1
    Laptops = {a}
    Thinking = Thinking
    Nothing = Nothing
    MaxSteps = 1
    MaxTokens = 1
    Ids = {1, 2, 3}
    Specs <- LaptopSpecs
    Searches <- AllSearches
    RecallSize = 50
    MaxResults = 2
    Viable = 330
    Relevant = 530
    FallbackSimilarity = 580
    MaxWeightSteps = 2
    MaxBudgetSteps = 3
INVARIANT DeletionGoesThrough
CHECK_DEADLOCK FALSE
