SPECIFICATION Spec
CONSTANTS
  p1 = p1
  p2 = p2
  u1 = u1
  none = none
  NoCandidate = none
  Packets = {p1, p2}
  Users = {u1}
  Rules = {settings}
  Candidate <- SameUser
  Regions = {SEA, PDX}
  Observers = {o1, o2}
  Workers = {w1, w2}
  Days <- TwoMondays
  CheckinDays <- Monday
  MaxHandlerDays = 0
  MaxExits = 0
  RetainWeeks = 0
  BatchSize = 2
  ChunkSize = 1
  BusyRetryAttempts = 0
  RetentionBusyMax = 0
  BusyBurst = 0
  IOErrors = FALSE
INVARIANTS
  IInv
PROPERTIES
  BoardSpec
  BoardOnlyGrows
SYMMETRY Symmetry
