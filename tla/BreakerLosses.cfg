SPECIFICATION Spec
CONSTANTS
  Equities = {1000, 978}
  VixLevels = {0}
  Threshold <- ConfigThreshold
  DayTicks = 1
  OpenTick = 0
  WeekDays = 2
  TradingDays = 1
  MonthDays = 6
  CoolingOffDays = 2
  RampDays <- MCRampDays
  RampSize <- MCRampSize
  Tokens = {t1}
  Enabling = {TRUE}
  DbMayFail = FALSE
  DirectResume = FALSE
  MaxTick = 2
INVARIANTS
  LockHeld
PROPERTIES
  AnchorStable
  DeescalationIsOrderly
  RecoveryOutlastsRestart
