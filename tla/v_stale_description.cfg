SPECIFICATION Spec
CONSTANTS
  Queries <- SingleQueries
  MaxQueries = 2
  MaxRows = 1
  Window = 1
  Permissive = FALSE
  FailPhases = {"start", "rows"}
  MutatorErrors = FALSE
INVARIANTS DescriptionsOpenTheirResult
CHECK_DEADLOCK FALSE
