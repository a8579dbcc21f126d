SPECIFICATION FairSpec
CONSTANTS
    c1 = c1
    c2 = c2
    p1 = p1
    p2 = p2
    p3 = p3
    s1 = s1
    s2 = s2
    Commands = {c1, c2}
    Plans = {p1, p2, p3}
    HomeOf <- Home
    VersionOf <- Version
    Settings = {s1, s2}
    None = None
    Scenes <- Stories
INVARIANT SuccessIsTrue
PROPERTIES ApprovalIsRespected LockIsFreed
CHECK_DEADLOCK FALSE
