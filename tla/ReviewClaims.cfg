CONSTANTS
    Window <- MCWindow
    Family = {f1, f2}
    NoClaim = NoClaim
    MaxEdits = 3
    MaxFailures = 1
    MaxCrashes = 1
    MaxScripts = 2
SPECIFICATION FairSpec
INVARIANT ClaimsFollowLinks
PROPERTIES PageNeverShrinks ReplacedOnlyBySwap EventuallyComplete
CHECK_DEADLOCK FALSE
