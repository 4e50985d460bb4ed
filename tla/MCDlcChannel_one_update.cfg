CONSTANTS
    A = A
    B = B
    Parties <- MCParties
    Offerer = A
    Cheaters = {}
    Ops = {"settle", "renew", "force"}
    Faults = {"badsig"}
    MaxCrashes = 0
    InitialUpdateIdx = 3
    UpdateBound = 2
    MaxContract = 2
    CID = CID
    NULL = NULL
SPECIFICATION Spec
INVARIANT TypeOK StableStatesAgree RevokedWatched NoRevokedStateHeld CurrentContractOpen RenewHasRollback
PROPERTY Tombstone
