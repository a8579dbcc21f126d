SPECIFICATION Spec
CONSTANTS
    g1 = g1
    g2 = g2
    Gets = {g1, g2}
    name = name
    Names = {name}
    DestOf <- OneName
    MaxRows = 2
    MaxCrashes = 1
    Users = {"parent", "dest"}
    None = None
    User = User
SYMMETRY Symmetry
INVARIANTS LiveStageIntact ResidueOnRecord OutcomesAreTrue
CHECK_DEADLOCK FALSE
