SPECIFICATION FairSpec
CONSTANTS
    p1 = p1
    p2 = p2
    Proc = {p1, p2}
    Commands <- MCScheduledAndUser
    Faults = {"timeout", "crash", "stuck", "lost", "refuse"}
    Rotation = {TRUE}
    MaxIssued = 2
    MaxRecords = 1
INVARIANTS
    MarkJustified
PROPERTIES
    EveryCommandEnds
CHECK_DEADLOCK FALSE
