SPECIFICATION GovSpec
CONSTANTS
    Account = {a1, a2, a3}
    Owner = {o1, o2, o3}
    NoStamp = nostamp
    Zero = zero
    Depth = 2
    Threshold = 2
    VoteBurn = 1
    SponsorshipLifetime = 1
    Amounts = {1}
    Evidence <- MCEvidence
    Funds = 2
    Surplus = 0
    MaxHeight = 2
    Bond = 1
    RegistrationFee = 0
    ActivationDelay = 1
    UnbondingPeriod = 1
    MaxSetSize = 1
SYMMETRY Symmetry
CHECK_DEADLOCK FALSE
INVARIANTS GovTypeOK SuspensionFollowsVotes StampsBindOwners
PROPERTIES SuspensionFreezes
