CONSTANTS
    v1 = v1
    v2 = v2
    f1 = f1
    f2 = f2
    NoVideo = NoVideo
    Video = {v1, v2}
    Family = {f1, f2}
    About <- MCAbout
    Ungrouped = {v2}
    Captioned = {v1}
    Finds <- MCFinds
    Walk <- MCWalk
    Limit = 2
    MaxBlocks = 2
    MaxEdits = 1
    MaxEvents = 1
SPECIFICATION Spec
INVARIANTS DeferredNotStranded
CHECK_DEADLOCK FALSE
