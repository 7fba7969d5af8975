SPECIFICATION FairSpec
CONSTANTS
    Dev = {1, 2, 3}
    NoImage = {3}
    Worker = {w1, w2}
    Folder = {"title", "short", "one", "two", "three"}
    None = None
    Bad = Bad
    Title = {"title"}
    Base <- MCBase
    Suffixes <- MCSuffixes
    Faults = {"fail", "crash", "interrupt", "rebuild", "dropindex"}
INVARIANTS
    RowsTell
    OneFolderEach
    OkMeansSaved
PROPERTIES
    ImplementsShelf
    EverythingRecovers
