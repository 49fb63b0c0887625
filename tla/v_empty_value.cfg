SPECIFICATION Spec
CONSTANTS
  Messages <- EmptyValueMessages
  Follow <- NextMessage
  Wrap = 64
INVARIANTS PassedAsItCame
CHECK_DEADLOCK FALSE
