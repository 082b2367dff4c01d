SPECIFICATION Spec
CONSTANTS
  LastDay = 69
  Zones <- AllZones
  TrackDays <- SomeTrackDays
  CheckinDays <- SundayOrMonday
INVARIANTS
  TypeOK
  SeasonOffByOneAtMost
  PerfectRingIsFull
  FullRingHidesOneWeekAtMost
  ExactBeforeClocksGoForward
CHECK_DEADLOCK FALSE
