SPECIFICATION Spec
CONSTANTS
  Queries <- BatchQueries
  MaxQueries = 3
  MaxRows = 1
  Window = 2
  Permissive = FALSE
  FailPhases = {"start", "rows"}
  MutatorErrors = FALSE
INVARIANTS RowsFollowDescription DescriptionHeld OneReadyPerQuery ReadyHeld
CHECK_DEADLOCK FALSE
