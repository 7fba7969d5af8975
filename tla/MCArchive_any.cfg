SPECIFICATION Spec
CONSTANTS
    Dev = {d1, d2}
    NoImage = {}
    Worker = {w1, w2}
    Title = {t1, t2}
    Folder = {t1, t2, d1, d2}
    None = None
    Bad = Bad
    Base <- MCBase
    Suffixes <- MCOwnNames
    Faults = {"fail", "crash", "remove", "corrupt", "retitle"}
SYMMETRY FullSymmetry
PROPERTIES
    FoldersKept
