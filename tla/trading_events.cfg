SPECIFICATION Spec
CONSTANTS
    client = client
    robot = robot
    t1 = t1
    t2 = t2
    Users <- MCUsers
    Clients = {client}
    StrategyUsers = {robot}
    Tasks <- MCTasks
    NSymbols = 2
    SymbolOf <- MCSymbolOf
    MaxOrders = 2
    Quota <- MCQuota
    MaxVolume = 2
PROPERTIES
    OpenedFollowsFilled
CHECK_DEADLOCK FALSE
