SPECIFICATION Spec
CONSTANTS
  Queries <- MCQueries
  Rows <- MCRows
  Wanted = 0
  Size = 2
  Less = 1
  MaxPages = 2
  Lists <- MCLists
  MaxForeign = 1
INVARIANTS
    NothingMissed
    AsItStands
    AbsentIsTrue
    GapsAreTold
PROPERTIES
    QueryReturns
CHECK_DEADLOCK FALSE
