SPECIFICATION Spec
CONSTANTS
  RetentionDays = 1
  MonthlyRetentionMonths = 1
  MonthLength = 2
  CountedLength = 2
  Tries = 2
  RetryNights = {3}
  StuckDaily = {3}
  StuckMonthly = {4}
  Horizon = 4
INVARIANT MonthlyIsAWholeBackup
INVARIANT SuccessIsKept
INVARIANT SuccessfulMonthIsKept
INVARIANT RetentionApplies
CHECK_DEADLOCK FALSE
