SPECIFICATION Spec
CONSTANTS
    Workers = {w1, w2}
    Loop = loop
    MaxInstances = 2
    MaxPositions = 2
    Candles <- MCCandles
INVARIANTS
    TypeOK
    OneOwnPosition
    RunningIsListed
PROPERTIES
    NoHookAfterStop
    FedAgain
CHECK_DEADLOCK FALSE
