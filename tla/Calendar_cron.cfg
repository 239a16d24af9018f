SPECIFICATION Spec
CONSTANTS
  a = a
  b = b
  Jobs = {a, b}
  Once = {b}
  Plists <- Shapes
  MinutesPerHour = 2
  HoursPerDay = 2
  DaysPerWeek = 3
  Years = {0, 1, 2, 3, 4, 5}
  Months = {0, 1}
  MonthDays <- TwoMonths
  FirstDay <- TwoMonthsFrom
  Whens <- whens
  Later <- later
  MaxIntervals = 2
  Ticks = {1, 4}
  MaxTime = 18
  EndOfTime = 108
INVARIANTS
  NextTimeRight
  AlarmsAgree
  WalkIsSafe
PROPERTIES
  DueServed
CHECK_DEADLOCK FALSE
