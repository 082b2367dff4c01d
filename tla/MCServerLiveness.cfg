SPECIFICATION FairSpec
CONSTANTS
  p1 = p1
  p2 = p2
  u1 = u1
  none = none
  old = old
  new = new
  NoCandidate = none
  Packets = {p1, p2}
  Users = {u1}
  Rules = {old}
  Candidate <- OneCheckinOneAmbient
  Regions = {SEA}
  Observers = {o1}
  Workers = {w1}
  Days <- ThreeMondays
  CheckinDays <- Monday
  MaxHandlerDays = 1
  MaxExits = 0
  RetainWeeks = 1
  BatchSize = 2
  ChunkSize = 1
  BusyRetryAttempts = 1
  RetentionBusyMax = 1
  BusyBurst = 1
  IOErrors = FALSE
PROPERTIES
  CreditedEventually
  ExpiredTrimmed
