SPECIFICATION FairSpec
CONSTANTS
  HEALTH_CHECK_INTERVAL = 1
  RECONNECT_RETRY_INTERVAL = 2
  LinkRetries = 2
  TcpTimeout = 7
  CommandTimeout = 6
  WatchdogTimeout = 4
  LoopMax = 1
  RestMax = 1
INVARIANTS ConnectedWasAccepted ResetsNeedAnOutage
PROPERTIES CableLossNoticed FirstSessionIsMade
