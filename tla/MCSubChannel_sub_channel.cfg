CONSTANTS
    A = A
    B = B
    Parties <- MCParties
    INITIAL_SPLIT_NUMBER = 3
    CET_NSEQUENCE = 1
    NB_CONFIRMATIONS = 0
    Offerers = {A, B}
    CloseOfferers = {A, B}
    Cheaters = {A}
    MinSplitIdx = 1
    Faults = {"badsig"}
SPECIFICATION FairSpec
INVARIANT TypeOK StatesAgree HonestNeverPunished
PROPERTY RevokedSplitPunished
CHECK_DEADLOCK FALSE
