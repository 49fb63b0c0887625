SPECIFICATION Spec
CONSTANTS
  Kinds <- AllKinds
  MaxMessages = 3
  Patient = FALSE
  Configs <- UpstreamOnly
  SslReplies = {"S", "N"}
  Switches = {TRUE, FALSE}
INVARIANTS TypeOK EncryptionHeld
PROPERTIES OutOfSyncIsFinal
CHECK_DEADLOCK FALSE
