\* Four days with a row, weeks of two days, days of two units; tournaments that begin
\* in the second half of a day.
SPECIFICATION Spec
CONSTANTS
  DayLength = 2
  WeekDays = 2
  FirstWeekday = 2
  DailyStart = 1
  WeeklyStart = 3
  AverageDays = 2
  MaxChange = 1
  RowLimit = 3
  PoolPage = 2
  MaxAmount = 3
  MaxRowDay = 4
  Horizon = 11
INVARIANTS TypeOK TotalsAddUp EveryRowShown PoolFilled PastDaysStable 
CHECK_DEADLOCK FALSE
