CONSTANTS
    A = A
    B = B
    Parties <- MCParties
    Offerer = A
    Cheaters = {}
    Ops = {"force"}
    Faults = {"crash"}
    MaxCrashes = 1
    InitialUpdateIdx = 3
    UpdateBound = 2
    MaxContract = 2
    CID = CID
    NULL = NULL
SPECIFICATION FairSpec
PROPERTY ClosingTerminates
