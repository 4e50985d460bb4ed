CONSTANTS
    A = A
    B = B
    Parties <- MCParties
    Offerer = A
    Cheaters = {}
    Ops = {"settle", "renew"}
    Faults = {"loss", "crash"}
    MaxCrashes = 1
    InitialUpdateIdx = 3
    UpdateBound = 2
    MaxContract = 2
    CID = CID
    NULL = NULL
SPECIFICATION Spec
INVARIANT StableStatesAgree
PROPERTY LogRefinement
