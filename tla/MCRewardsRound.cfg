CONSTANTS
    a1 = a1
    a2 = a2
    a3 = a3
    Accounts <- MCAccounts
    Quantities = {1, 2}
    ResetLimit = 2
    MaxFunds = 2
    FirstRoots <- MCFirstRoots
    Periods <- MCPeriods
    MaxUpdates = 3
SPECIFICATION RoundSpec
SYMMETRY MCSymmetry
INVARIANTS
    RoundTypeOK
    OneRewardPerRoot
    ConfirmedUpdateStands
    PaymentsPerGrant
PROPERTY UpdatesUntilTooMany
