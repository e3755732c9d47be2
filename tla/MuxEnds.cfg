CONSTANTS
  Stream = {s1}
  Connect = {}
  Socks = {}
  Impatient = {}
  FrameCap = 1
  DataCap = 1
  WireCap = 1
  MaxChunk <- Chunks12
  Leaves <- AppsDie
  Resilient = TRUE
  Faults = {"down"}
SPECIFICATION FairSpec
PROPERTIES KeepsPromise OpenPhaseEnds Released Drains
CHECK_DEADLOCK FALSE
