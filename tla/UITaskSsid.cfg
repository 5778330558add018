SPECIFICATION Spec
CONSTANTS
  Deltas <- MCDeltas
  BootLevels <- MCBootLevels
  QUEUE_LENGTH = 1
  SETPOINT_STEP = 1500
  WIFI_MAX_SIZE = 0
  SSID_WIFI_TIMEOUT = 0
  CONFIRM_TIMEOUT = 0
  START_UP_TIMEOUT = 1
INVARIANTS
  SsidTyped
