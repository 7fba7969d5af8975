SPECIFICATION FairSpec
CONSTANTS
    Limit = 2
    Posted = 0
    MaxPosted = 6
    Faults = {"truncate", "crash", "fail", "dry", "post", "artist"}
INVARIANTS
    CheckpointSound
    NeverPastCheckpoint
PROPERTIES
    EverythingFetched
