SPECIFICATION Spec
CONSTANTS
  WeekStarts <- WeeksAndStrays
  MaxWeeks = 6
INVARIANTS
  TypeOK
  LongestStreakFound
CHECK_DEADLOCK FALSE
