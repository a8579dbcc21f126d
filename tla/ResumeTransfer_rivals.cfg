SPECIFICATION Spec
CONSTANTS
    t1 = t1
    t2 = t2
    n1 = n1
    s1 = s1
    s2 = s2
    Transfers = {t1, t2}
    Sessions = {s1, s2}
    Names = {n1}
    DestOf <- SharedDest
    c1 = c1
    c2 = c2
    Contents = {c1, c2}
    ContentOf <- OwnContent
    Public = {t1}
    NChunks = 1
    MaxSendStates = 1
    MaxRecvStates = 1
    NoToken = NoToken
    Idle = Idle
    Free = Free
    Damaged = Damaged
SYMMETRY SessionSymmetry
INVARIANTS TypeOK CommitEvidenceChain NoDamagedPublication CommitEvidence
PROPERTIES ImplementsPublication TombstoneStopsRepublication
