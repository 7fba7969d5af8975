SPECIFICATION FairSpec
CONSTANTS
    N = 2
    Pages <- MCTwoGalleries
    Budget = 7
    Margin = 1
    MinLeft = 3
    MaxDiscover = 1
    MaxToken = 1
    MaxPage = 2
    Faults = {"revoke", "http", "crash", "exit", "interrupt", "kill", "nobody"}
INVARIANTS
    LedgerAdds
    RunBounded
PROPERTIES
    Converges
