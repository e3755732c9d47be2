CONSTANTS
  RECONNECT_INITIAL = 1
  RECONNECT_MAX = 3
  MaxFaults = 1
  StopBy = {"drop"}
SPECIFICATION FairSpec

PROPERTIES RecoversAfterRestart
CHECK_DEADLOCK FALSE
