SPECIFICATION Spec
CONSTANTS
    Limit = 2
    Posted = 3
    MaxPosted = 4
    NoImage = {3}
    Faults = {"truncate", "crash", "fail", "full", "dry", "offset", "livepost", "delete", "feed", "remove"}
INVARIANTS
    FullRecovers
