CONSTANTS
    A = A
    B = B
    Parties <- MCParties
    INITIAL_SPLIT_NUMBER = 3
    CET_NSEQUENCE = 1
    NB_CONFIRMATIONS = 0
    Offerers = {A}
    CloseOfferers = {A}
    Cheaters = {}
    MinSplitIdx = 3
    Faults = {}
SPECIFICATION FairSpec
PROPERTY ForceCloseResolves
CHECK_DEADLOCK FALSE
