SPECIFICATION Spec
CONSTANTS
  Kinds <- SessionKinds
  MaxMessages = 2
  Patient = TRUE
  Configs <- PassThrough
  SslReplies = {"S", "N"}
  Switches = {TRUE, FALSE}
INVARIANTS AllPacketsArePassed
CHECK_DEADLOCK FALSE
