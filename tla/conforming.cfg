SPECIFICATION FairSpec
CONSTANTS
  Queries <- ConformingQueries
  MaxQueries = 3
  MaxRows = 2
  Window = 1
  Permissive = TRUE
  FailPhases = {"start"}
  MutatorErrors = FALSE
INVARIANTS NoAssertFails
PROPERTIES PromiseKept
CHECK_DEADLOCK FALSE
