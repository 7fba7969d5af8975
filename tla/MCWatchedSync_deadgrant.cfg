SPECIFICATION Spec
CONSTANTS
    N = 3
    Pages <- MCThreeGalleries
    Budget = 10
    Margin = 1
    MinLeft = 3
    MaxDiscover = 1
    MaxToken = 1
    MaxPage = 2
    Faults = {"revoke"}
INVARIANTS
    OneDoomedPost
