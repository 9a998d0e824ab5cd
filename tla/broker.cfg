SPECIFICATION Spec
CONSTANTS
    eur = eur
    None = None
    Unset = Unset
    Symbols <- MCSymbols
    Requests <- MCRequests
    Changes <- MCChanges
    Prices <- MCPrices
    SwapPoints <- MCSwapPoints
    Spread = 1
    CommissionRate = 1
    Leverage = 2
    InitialBalance = 8
    Cash = {3}
    MaxVolume = 2
    MaxOrders = 2
    MaxDay = 2
    CashRange <- MCCashRange
INVARIANTS
    TypeOK
    VolumeConserved
    BookBalances
    ProtectionsOrdered
    PositionBacked
    SweepSettles
PROPERTIES
    StopNeverLoosened
    NoFillAfterExpiry
    LifecycleSpec
