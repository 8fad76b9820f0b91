SPECIFICATION FairSpec
CONSTANTS
  k1 = k1
  NULL = NULL
  Keys = {k1}
  Temps = {79, 82}
  Thresholds = {80, 82}
  Hysteresis = 3
  Renotify = 2
  MaxAge = 1
  MaxCalls = 2
PROPERTIES RemindersSpaced NothingHeldBack ExcessIsTold SilenceEndsTheAlarm
