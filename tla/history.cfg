SPECIFICATION HistorySpec
CONSTANTS
    SeriesSet <- MCSeriesSet
    Requests <- MCRequests
    Changes <- MCChanges
    MaxOrders = 2
    HalfSpread = 1
    Slip = 1
    CommissionRate = 1
    SwapPoints = 2
    InitialBalance = 60
    Leverage = 1
    RangeSets <- MCRangeSets
    MaxCombinations = 4
    Outcomes <- MCOutcomes
    RankBy <- MCRankBy
    SeriesLengths <- MCSeriesLengths
    Lowest <- MCLowest
    SWING_LEFT = 1
    SWING_RIGHT = 1
    Left = 1
    Right = 1
    Window = 3
    MinBars = 1
    Lookback = 2
    ATR_LOOKBACK = 2
    DISPLACEMENT_MULT = 2
    LIQUIDITY_TOLERANCE = 50
    LIQUIDITY_MIN_TOUCHES = 2
    BlockLookback = 2
    Moves <- MCMoves
    Start = 20
    MaxBars = 7
INVARIANTS
    JobsTypeOK
    NextOpenFills
    ExitsTraded
    BooksBalance
    LowIsEarned
    RetestsAreLive
PROPERTIES
    NoRepaint
    ObjectsOnlyAge
CHECK_DEADLOCK FALSE
