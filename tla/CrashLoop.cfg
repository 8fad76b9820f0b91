SPECIFICATION Spec
CONSTANTS
  BackoffN = 3
  SafeN = 8
  BackoffBase = 30
  BackoffMax = 600
  MaxResets = 11
  RtcGarbage <- MCRtcGarbage
INVARIANTS SleepIsResumable StartsAreThrottled SleepIsEarned
PROPERTIES BackoffNeverShrinks
