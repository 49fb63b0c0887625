SPECIFICATION Spec
CONSTANTS
  Messages <- ConformingMessages
  Follow <- NextMessage
  Wrap = 15
INVARIANTS TypeOK ValidExactlyWhenWhole ConsumedToTheEnd LengthIsTrue PassedAsItCame
CHECK_DEADLOCK FALSE
