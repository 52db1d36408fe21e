SPECIFICATION PoolSpec
CONSTANTS
    Account = {v1}
    Digests = {d1}
    Evidence <- MCEvidence
    Funds = 4
    Surplus = 1
    MaxHeight = 2
    Bond = 2
    RegistrationFee = 1
    ActivationDelay = 1
    UnbondingPeriod = 1
    MaxSetSize = 2
    TreeNote <- MixedTree
    RingNote <- RingNotes
    LegacyNote <- OneLegacyNote
    MaxNote = 2
    MaxSend = 3
    MaxFee = 1
    InputSlots = 2
    InputSlots5 = 3
    OutputSlots = 4
    TreeSize = 12
    LegacyRoom = 1
    RingSlots = 2
    RingSize = 2
    RingTreeSize = 3
    LedgerHeight = 2
CHECK_DEADLOCK FALSE
INVARIANTS PoolTypeOK Solvent WrappedExact LedgerCovers HonestExit
PROPERTIES ImplementsSegregatedEscrow
