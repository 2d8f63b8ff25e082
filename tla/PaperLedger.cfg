SPECIFICATION AdapterSpec
CONSTANTS
    Prices <- MCPrices
    Bars <- EdgeBars
    Singles <- MCSingles
    OcoGroups <- MCOcoGroups
    Brackets <- MCBrackets
    Callers = 0
    UnitCost = 1
    Window = 1
    RateWindow = 2
    MaxRate = 3
    PartialFills = TRUE
    MaxOrders = 3
    Amendments <- MCAmendments
    MaxTime = 0
INVARIANTS
    LotsMatchPosition
    BooksBalance
    OcoSettled
