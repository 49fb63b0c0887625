SPECIFICATION FairSpec
CONSTANTS
  Queries <- HostileQueries
  MaxQueries = 2
  MaxRows = 1
  Window = 2
  Permissive = TRUE
  FailPhases = {"start", "rows"}
  MutatorErrors = TRUE
INVARIANTS TypeOK RowsInServerOrder RowOrder
PROPERTIES EveryQueryAnswered
CHECK_DEADLOCK FALSE
