CONSTANTS
    A = A
    B = B
    Parties <- MCParties
    Offerer = A
    Cheaters = {}
    Ops = {"settle", "renew", "close"}
    Faults = {}
    MaxCrashes = 0
    InitialUpdateIdx = 3
    UpdateBound = 1
    MaxContract = 3
    CID = CID
    NULL = NULL
SPECIFICATION Spec
INVARIANT StableStatesAgree RevokedWatched
PROPERTY LogRefinement
