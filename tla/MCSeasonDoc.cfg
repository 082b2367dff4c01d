SPECIFICATION Spec
CONSTANTS
  LastDay = 69
  Zones <- NorthernZone
  TrackDays <- FirstMonday
  CheckinDays <- Monday
INVARIANTS
  CountsEveryBucket
CHECK_DEADLOCK FALSE
