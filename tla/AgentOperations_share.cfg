SPECIFICATION Spec
SYMMETRY Alike
CONSTANTS
    o1 = o1
    o2 = o2
    o3 = o3
    i1 = i1
    d1 = d1
    d2 = d2
    f1 = f1
    f2 = f2
    f3 = f3
    Ops = {o1, o2, o3}
    Ids = {i1}
    Devices = {d1, d2}
    Files = {f1, f2, f3}
    None = None
    Scenes <- Stories
    SlotLimit = 2
    IncomingLimit = 1
    SessionLimit = 2
    WaiterLimit = 1
    MaxConnections = 2
INVARIANTS EverythingReturned RightPeer TransfersFound FilesMoveOnce
CHECK_DEADLOCK FALSE
