SPECIFICATION FairSpec
CONSTANTS
    Account = {v1, v2}
    Digests = {d1, d2}
    Evidence <- MCEvidence
    Funds = 6
    Surplus = 1
    MaxHeight = 4
    Bond = 2
    RegistrationFee = 1
    ActivationDelay = 1
    UnbondingPeriod = 2
    MaxSetSize = 2
CHECK_DEADLOCK FALSE
INVARIANTS RegistryTypeOK IndexSound BondsAccounted QueuedActivation
PROPERTIES CommitteeOnlyShrinks AccountableWithdrawal ExitMatures
