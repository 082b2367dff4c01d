SPECIFICATION MaintainedSpec
CONSTANTS
  p1 = p1
  p2 = p2
  u1 = u1
  none = none
  old = old
  new = new
  NoCandidate = none
  Packets = {p1, p2}
  Users = {u1}
  Rules = {old, new}
  Candidate <- OneUnderEachRules
  Regions = {SEA}
  Observers = {o1}
  Workers = {w1}
  Days <- MondayThenSundayMonday
  CheckinDays <- SundayOrMonday
  MaxHandlerDays = 1
  MaxExits = 0
  RetainWeeks = 0
  BatchSize = 2
  ChunkSize = 1
  BusyRetryAttempts = 0
  RetentionBusyMax = 0
  BusyBurst = 0
  IOErrors = TRUE
  MaxRestores = 1
INVARIANTS
  MaintainedTypeOK
  RestoredRowsLinked
  OnlyLinkWeeksGoStale
PROPERTIES
  CheckinsKept
  CheckinsStayOnPages
SYMMETRY Symmetry
