CONSTANTS
    A = A
    B = B
    Parties <- MCParties
    Offerer = A
    Cheaters = {B}
    Ops = {"renew", "force"}
    Faults = {"badsig"}
    MaxCrashes = 0
    InitialUpdateIdx = 3
    UpdateBound = 2
    MaxContract = 2
    CID = CID
    NULL = NULL
SPECIFICATION Spec
INVARIANT HonestNeverPunished
CONSTRAINT CheatBound
