SPECIFICATION DatabaseOnlySpec
CONSTANTS
    Horizon = 2
    Positions <- MCPositions
    Kinds = {"drawdown_4", "crash_3", "daily_3"}
    Levels = {"NORMAL", "RESTRICTED", "EMERGENCY"}
    BlockDays = 2
    FirstYear = 2020
    LastYear = 2024
    Files <- MCFiles
    Evidence <- MCEvidence
    Malformed = Malformed
    FromEnv = FromEnv
    NoConfig = NoConfig
    NoClient = NoClient
    loop = loop
    watchdog = watchdog
    page = page
    trading = trading
    dashboard = dashboard
    bars = bars
    trade = trade
    halt = halt
    Threads = {loop, watchdog, page}
    Processes = {trading, dashboard}
    ProcessOf <- MCProcessOf
    Writes = {bars, trade, halt}
    Rows = {1, 2, 3, 4}
    RowsOf <- MCRowsOf
    Unfit = {2}
    Nobody = Nobody
    Sizes = {2, 8, 9}
    FoldCounts = {2, 4}
    Embargoes = {1, 2}
    Stacks <- MCStacks
    HardStop = 4
    AtrMultiple = 2
    MaxLoss = 2
    TimeStop = 2
    Equity = 600
    OpenSizes = {1, 4}
    Atrs = {0, 1}
    MaxMove = 3
    Span = 9
    MaxDays = 3
PROPERTY
    LockedOnlyByAWrite
CHECK_DEADLOCK FALSE
