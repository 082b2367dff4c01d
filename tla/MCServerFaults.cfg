SPECIFICATION Spec
CONSTANTS
  p1 = p1
  p2 = p2
  u1 = u1
  none = none
  old = old
  new = new
  NoCandidate = none
  Packets = {p1, p2}
  Users = {u1}
  Rules = {old, new}
  Candidate <- SecondUnderNewRules
  Regions = {SEA}
  Observers = {o1}
  Workers = {w1}
  Days <- TwoWeeks
  CheckinDays <- SundayOrMonday
  MaxHandlerDays = 1
  MaxExits = 1
  RetainWeeks = 0
  BatchSize = 1
  ChunkSize = 1
  BusyRetryAttempts = 0
  RetentionBusyMax = 0
  BusyBurst = 0
  IOErrors = TRUE
INVARIANTS
  InFlightPacketStored
  CursorSkipsNothing
  CheckinIsLinked
  CreditMatchesPacket
  NoSilentLoss
PROPERTIES
  LinkedRowsKept
  RetainedWeeksKept
