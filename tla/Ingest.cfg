SPECIFICATION Spec
CONSTANTS
  Bytes = {1, 2, 10}
  Registered = {1}
  Temps <- MCTemps
  Cores <- MCCores
  NULL = NULL
  StatusAge = 1
  LatestAge = 2
  MaxMessages = 2
  MaxNow = 4
INVARIANTS TypeOK LatestMeansConnected OneRowPerMessage 
PROPERTIES ImplementsJournal
