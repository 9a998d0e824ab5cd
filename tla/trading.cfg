SPECIFICATION Spec
CONSTANTS
    client = client
    robot = robot
    t1 = t1
    t2 = t2
    Users <- MCUsers
    Clients = {client}
    StrategyUsers = {robot}
    Tasks <- MCTasks
    NSymbols = 2
    SymbolOf <- MCSymbolOf
    MaxOrders = 2
    Quota <- MCQuota
    MaxVolume = 2
INVARIANTS
    TypeOK
    
    OrdersMirrored
    AccountFresh
PROPERTIES
    EndIsSeenOnce
    LoopServes
CHECK_DEADLOCK FALSE
