SPECIFICATION FairSpec
CONSTANTS
    r1 = r1
    r2 = r2
    x1 = x1
    p1 = p1
    p2 = p2
    a = a
    b = b
    None = None
    Receives = {r1}
    Sends = {x1}
    Files = {p1, a, b}
    PartOf <- PartNames
    MaxFaults = 2
INVARIANT ArtifactsOnRecord
PROPERTY CleanupDrainsOrSticks
