SPECIFICATION Spec
CONSTANTS
    Horizon = 3
    Signals = {s1}
    Instances = {loop, dashboard}
    Loop = loop
    Ttl = 1
    SaveResults = {TRUE, FALSE}
    MaxEnqueued = 2
    Grants = {g}
    TierStarts <- MCTierStarts
    Tiers <- MCTiers
    CoolingOff = 2
    Equity = {100, 90}
    DayLength = 3
    ClosedDays = {}
    Schedule <- MCSchedule
    JobTable <- MCJobs
INVARIANTS
    OnlyApprovedRuns
    SizeIsEarned
    
PROPERTIES
    NothingSentOnceClosed
    NoSignalWaitsForever
    HaltReachesSizes
    JobsSpaced
CHECK_DEADLOCK FALSE
