\* Issue, redemption, limits, allowances and restrictions over two days.
SPECIFICATION Spec
CONSTANTS
    MaxAddress = 2
    MaxUint = 2
    Limits = {1, 2}
    Spenders = {2}
    ApprovedAmounts = {1, 2}
    Regulated = {1, 2}
    ReserveAccounts = {1, 2}
    MaxDay = 1
INVARIANTS
    SupplyIsSumOfBalances
    ReservesCoverSupply
    CountersMatchAuditTrail
PROPERTIES
    RestrictedBalancesFixed
    DayWithinLimits
    ImplementsBackedSupply
CHECK_DEADLOCK FALSE
