SPECIFICATION MonitorSpec
CONSTANTS
    DefaultRetries = 2
    Faults = {"revoke", "network", "authill", "apiill", "odd"}
    Rotation = {TRUE, FALSE}
    TTL = 3
    WarnDays = 2
    CritDays = 1
    MaxDay = 4
    MaxTokens = 3
INVARIANTS
    GreenMeansAccepted
    RevokedMeansAnswered
    SentWithinRetries
PROPERTIES
    DaysNotOverstated
    EveryRunEnds
