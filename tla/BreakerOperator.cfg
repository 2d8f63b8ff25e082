SPECIFICATION Spec
CONSTANTS
  Equities = {1000}
  VixLevels = {0, 3, 4}
  Threshold <- ConfigThreshold
  DayTicks = 2
  OpenTick = 1
  WeekDays = 3
  TradingDays = 2
  MonthDays = 6
  CoolingOffDays = 2
  RampDays <- MCRampDays
  RampSize <- MCRampSize
  Tokens = {t1}
  Enabling = {TRUE, FALSE}
  DbMayFail = FALSE
  DirectResume = TRUE
  MaxTick = 2
INVARIANTS
  StickyHeld
  HaltIsDurable
PROPERTIES
  LatchedHalt
  EntriesOnlyWhenClear
