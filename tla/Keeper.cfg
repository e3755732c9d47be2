CONSTANTS
  RECONNECT_INITIAL = 1
  RECONNECT_MAX = 3
  MaxFaults = 3
  StopBy = {"send", "drop"}
SPECIFICATION FairSpec
INVARIANTS TypeOK TokenOnce FreshBackoff PublishedIsWatched ReconnectsOwed
PROPERTIES Recovers ClientStops
CHECK_DEADLOCK FALSE
