SPECIFICATION Spec
CONSTANTS
    Account = {v1, v2}
    Digests = {d1, d2}
    Evidence <- MCEvidence
    Funds = 6
    Surplus = 1
    MaxHeight = 6
    Bond = 2
    RegistrationFee = 1
    ActivationDelay = 1
    UnbondingPeriod = 3
    MaxSetSize = 2
SYMMETRY Symmetry
CHECK_DEADLOCK FALSE
INVARIANTS SlashedStaysOut
