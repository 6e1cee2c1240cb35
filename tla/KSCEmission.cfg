\* Emission against the annual cap, past the end of the first year.
SPECIFICATION Spec
CONSTANTS
    MaxAddress = 3
    MaxUint = 5
    Self = 1
    Owner = 2
    InitialSupply = 4
    MinStake = 1
    MinValidatorStake = 1
    VotingThreshold = 1
    BlockReward = 1
    GovernanceReward = 1
    VotingPeriod = 1
    Year = 2
    BasisPoints = 4
    BurnRates = {0, 2}
    APYs = {0, 4}
    Inflations = {1}
    LockPeriods = {0, 1}
    FeePayers = {1, 2, 3}
    Fees = {2, 3}
    Spenders = {}
    ApprovedAmounts = {}
    MaxProposals = 0
    MaxTime = 2
    MaxDrained = 2
PROPERTY
    EmissionCapped
CHECK_DEADLOCK FALSE
