SPECIFICATION Spec
CONSTANTS
    p1 = p1
    p2 = p2
    Proc = {p1, p2, p3}
    Commands <- MCRefreshers
    Faults = {"revoke"}
    Rotation = {TRUE, FALSE}
    MaxIssued = 3
    MaxRecords = 0
SYMMETRY Symmetry
INVARIANTS
    Exclusive
    NoReplay
    GrantOnDisk
    NoNeedlessRotation
    MarkMeansGone
PROPERTIES
    ImplementsGrantChain
