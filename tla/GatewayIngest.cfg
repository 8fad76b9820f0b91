SPECIFICATION Spec
CONSTANTS
  Message = {d0, d1}
  NoMessage = NoMessage
  BLE_QUEUE_SIZE = 3
  CountLimit = 2
  TickLimit = 7
  Debounce = 2
  LED_TIMEOUT_MS = 1
  ScanMax = 1
  WatchdogMax = 2
INVARIANTS QueueNeverOverflows LedsTellWhoIsHeard
PROPERTY ImplementsFifo
SYMMETRY Devices
