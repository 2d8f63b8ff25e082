SPECIFICATION Spec
CONSTANTS
    Trader = trader
    Operator = operator
    Callers = {trader, operator}
    Attempts = 2
    A = A
    r1 = r1
    r2 = r2
    Symbols = {A}
    Requests = {r1, r2}
    Request <- MCRequest
    Venues <- MCVenues
    MaxPlaced = 1
INVARIANTS
    KillLeavesNothing
    RepeatsAreBounded
PROPERTIES
    KillSwitchAnswers
CHECK_DEADLOCK FALSE
