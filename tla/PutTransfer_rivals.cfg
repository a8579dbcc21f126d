SPECIFICATION Spec
CONSTANTS
    p1 = p1
    p2 = p2
    a1 = a1
    a2 = a2
    a3 = a3
    n1 = n1
    f1 = f1
    Operator = Operator
    None = None
    Puts = {p1, p2}
    Attempts = {a1, a2, a3}
    PutOf <- TwoPuts
    Names = {n1}
    DestOf <- SameName
    Replace = {p2}
    Expecting = {p2}
    UserFiles = {f1}
    Scenes = {{"user", "sender_crash"}, {"parent", "receiver_crash"}}
INVARIANT PutsStaySound
PROPERTY ReplacesWhatItInspected
