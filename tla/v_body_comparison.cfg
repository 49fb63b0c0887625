SPECIFICATION Spec
CONSTANTS
  Queries <- BodyQueries
  Colliding <- SharedKeys
  Rounded <- SixDecimals
  Characters <- Letters
  MaxRows = 2
  BlockSize = 2
  IvLength = 2
  JoinKeySize = 1
INVARIANTS SecretsStayHidden
CHECK_DEADLOCK FALSE
