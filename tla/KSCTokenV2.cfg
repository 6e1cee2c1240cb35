\* Stakes and validator stakes, fees of any account (the contract itself among
\* them), rewards, a proposal, allowances, pauses and settings, over a year and
\* a half.
SPECIFICATION Spec
CONSTANTS
    MaxAddress = 3
    MaxUint = 4
    Self = 1
    Owner = 2
    InitialSupply = 3
    MinStake = 2
    MinValidatorStake = 2
    VotingThreshold = 3
    BlockReward = 1
    GovernanceReward = 1
    VotingPeriod = 1
    Year = 2
    BasisPoints = 2
    BurnRates = {0, 1}
    APYs = {2}
    Inflations = {1}
    LockPeriods = {1}
    FeePayers = {1, 2, 3}
    Fees = {2}
    Spenders = {3}
    ApprovedAmounts = {1}
    MaxProposals = 1
    MaxTime = 2
    MaxDrained = 2
INVARIANTS
    StakedIsSumOfStakes
    StakesCovered
PROPERTIES
    EmissionAccountsForIssue
    EmissionCappedInYear
CHECK_DEADLOCK FALSE
