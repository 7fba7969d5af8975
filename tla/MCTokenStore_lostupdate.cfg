SPECIFICATION Spec
CONSTANTS
    p1 = p1
    p2 = p2
    Proc = {p1, p2}
    Commands <- MCApiAndSync
    Faults = {}
    Rotation = {TRUE}
    MaxIssued = 2
    MaxRecords = 1
SYMMETRY Symmetry
INVARIANTS
    GrantOnDisk
