SPECIFICATION AdapterSpec
CONSTANTS
    Prices <- MCPrices
    Bars <- WideBars
    Singles <- None
    OcoGroups <- None
    Brackets <- MCBrackets
    Callers = 1
    UnitCost = 1
    Window = 1
    RateWindow = 2
    MaxRate = 3
    PartialFills = FALSE
    MaxOrders = 6
    Amendments <- None
    MaxTime = 2
INVARIANTS
    TwinSettled
    ChildrenFollowEntry
    IdsAcceptedOnce
