SPECIFICATION AuthSpec
CONSTANTS
    Reader = {r1}
    ConfigFaults = {"killed", "refuses"}
    MaxSecrets = 2
    MaxOthers = 1
    Run = {p1, p2}
    CertFaults = {"missing", "fails", "empty", "garbage", "killed", "disk", "foreign", "user"}
    MaxPairs = 2
    Conn = {c1, c2}
    MaxCodes = 2
INVARIANTS
    
    NoLeftover
    OthersKept
    FreshKeyPrivate
    ServedKeyPrivate
    CertFailureHasCause
    OnlyOurAnswer
    HeardIsAnswered
PROPERTIES
    RedirectHeard
    EveryLoginEnds
CHECK_DEADLOCK FALSE
