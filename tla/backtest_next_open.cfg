SPECIFICATION JobsSpec
CONSTANTS
    SeriesSet <- MCSeriesSet
    Requests <- MCRequests
    Changes <- MCChanges
    MaxOrders = 2
    HalfSpread = 1
    Slip = 1
    CommissionRate = 1
    SwapPoints = 2
    InitialBalance = 60
    Leverage = 1
    RangeSets <- MCRangeSets
    MaxCombinations = 4
    Outcomes <- MCOutcomes
    RankBy <- MCRankBy
    SeriesLengths <- MCSeriesLengths
    Lowest <- MCLowest
INVARIANTS
    MarketAtNextOpen
CHECK_DEADLOCK FALSE
