SPECIFICATION Spec
CONSTANTS
  r1 = r1
  r2 = r2
  NoRequest = none
  Requests <- TwoRequests
  Users = {1, 2}
  WeekStarts = {1, 4, 8}
  MaxCheckins = 3
  MaxFailures = 1
  MaxExits = 1
SYMMETRY Symmetry
INVARIANTS
  TypeOK
  SnapshotsAreOneLeaderboard
  SameRowsSameRanking
  LaterAnswersKeepTotals
