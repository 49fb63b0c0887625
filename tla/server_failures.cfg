SPECIFICATION Spec
CONSTANTS
  Queries <- StrictQueries
  MaxQueries = 3
  MaxRows = 2
  Window = 1
  Permissive = FALSE
  FailPhases = {"start", "rows"}
  MutatorErrors = FALSE
INVARIANTS RowsMatchDescription RowsFit CompletedResultsAreWhole OneResultRetained NoCrash WaitingHeld KeptHeld
CHECK_DEADLOCK FALSE
