SPECIFICATION FairSpec
CONSTANTS
    p1 = p1
    p2 = p2
    a1 = a1
    a2 = a2
    a3 = a3
    n1 = n1
    f1 = f1
    Operator = Operator
    None = None
    Puts = {p1}
    Attempts = {a1, a2}
    PutOf <- OnePut
    Names = {n1}
    DestOf <- SameName
    Replace = {p1}
    Expecting = {}
    UserFiles = {f1}
    Scenes = {{"user", "operator", "root", "age", "sender_crash", "receiver_crash"}}
INVARIANTS ResultsAreTrue PublishedOnce RecordsTrue
PROPERTY ReceivesEnd
