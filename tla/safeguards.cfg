SPECIFICATION Spec
SYMMETRY Symmetry
CONSTANTS
    Traders = {t1, t2}
    Configs <- MCConfigs
    OrderSet <- MCOrderSet
    Amounts <- MCAmounts
    Equities = {0, 100}
    MaxWaiting = 1
    MaxDays = 2
    MaxLoss = 5
INVARIANTS
    PositionsBounded
