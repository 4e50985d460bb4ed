CONSTANTS
    A = A
    B = B
    C1 = C1
    C2 = C2
    Parties <- MCParties
    Contracts <- MCContracts
    OfferParty <- MCOfferParty
    NB_CONFIRMATIONS = 0
    LateAttestation = FALSE
    Faults = {"badsig", "loss"}
SPECIFICATION FairSpec
INVARIANT TypeOK
INVARIANT OutcomeOnChain
PROPERTY FundedContractTerminates
CHECK_DEADLOCK FALSE
