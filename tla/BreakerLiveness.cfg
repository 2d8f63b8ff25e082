SPECIFICATION FairSpec
CONSTANTS
  Equities = {1000}
  VixLevels = {0, 2, 3}
  Threshold <- ConfigThreshold
  DayTicks = 2
  OpenTick = 1
  WeekDays = 3
  TradingDays = 2
  MonthDays = 6
  CoolingOffDays = 2
  RampDays <- MCRampDays
  RampSize <- FlatRamp
  Tokens = {t1}
  Enabling = {TRUE}
  DbMayFail = FALSE
  DirectResume = FALSE
  MaxTick = 0
PROPERTIES
  AutoRecovery
  ResumeReturns
