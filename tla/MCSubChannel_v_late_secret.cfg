CONSTANTS
    A = A
    B = B
    Parties <- MCParties
    INITIAL_SPLIT_NUMBER = 3
    CET_NSEQUENCE = 1
    NB_CONFIRMATIONS = 0
    Offerers = {A}
    CloseOfferers = {A}
    Cheaters = {A}
    MinSplitIdx = 3
    Faults = {}
SPECIFICATION FairSpec
PROPERTY CheatPunished
CHECK_DEADLOCK FALSE
