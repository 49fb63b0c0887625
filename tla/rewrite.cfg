SPECIFICATION Spec
CONSTANTS
  Queries <- PlainQueries
  Colliding <- SharedKeys
  Rounded <- SixDecimals
  Characters <- Letters
  MaxRows = 2
  BlockSize = 2
  IvLength = 2
  JoinKeySize = 1
INVARIANTS TypeOK StoreDecrypts CiphertextsFit AnswersAgree SecretsStayHidden CrashIsUnsupported
PROPERTIES StoreIsKept
CHECK_DEADLOCK FALSE
