SPECIFICATION FairSpec
CONSTANTS
  avery = avery
  blake = blake
  Users = {avery, blake}
  Queries = {"", "a"}
  EmptyQuery = ""
  Matching <- AveryOrAll
  Fetches = {f1, f2}
  MaxTyped = 3
  MaxHides = 1
  MaxFailures = 1
INVARIANTS
  TypeOK
  RowsFollowQuery
PROPERTIES
  RefreshKeepsQueryAndRows
  EventuallyFiltered
  NewcomersAppear
