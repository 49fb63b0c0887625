SPECIFICATION FairSpec
CONSTANTS
  Kinds <- SessionKinds
  MaxMessages = 5
  Patient = TRUE
  Configs <- AllConfigs
  SslReplies = {"S", "N", "E"}
  Switches = {TRUE, FALSE}
INVARIANTS QueriesRelayedOnce AnswersRelayedOnce NothingLeftBehind SessionIsEncrypted NoAssertFails SyncIsKept
PROPERTIES EveryWaitEnds ConnectionRelays
CHECK_DEADLOCK FALSE
