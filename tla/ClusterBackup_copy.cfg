SPECIFICATION Spec
CONSTANTS
  RetentionDays = 1
  MonthlyRetentionMonths = 1
  MonthLength = 3
  CountedLength = 3
  Tries = 2
  RetryNights = {1, 2}
  StuckDaily = {}
  StuckMonthly = {}
  Horizon = 2
INVARIANT MonthlyCopyIsWhole
CHECK_DEADLOCK FALSE
