SPECIFICATION FairSpec
CONSTANTS
    Limit = 2
    Posted = 4
    MaxPosted = 8
    NoImage = {2, 5}
    Faults = {"truncate", "full", "post"}
INVARIANTS
    NothingStranded
PROPERTIES
    CaughtUpIsTrue
    WalkFinishes
    EverythingFetched
