SPECIFICATION Spec
CONSTANTS
  Queries <- TwinQueries
  Rows <- MCRows
  Wanted = 0
  Size = 2
  Less = 1
  MaxPages = 2
  Lists <- MCLists
  MaxForeign = 1
INVARIANT
    SearchesAreTold
CHECK_DEADLOCK FALSE
