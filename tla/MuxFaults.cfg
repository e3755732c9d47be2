CONSTANTS
  Stream = {s1, s2}
  Connect = {s1, s2}
  Socks = {s1, s2}
  Impatient = {}
  FrameCap = 1
  DataCap = 1
  WireCap = 1
  MaxChunk <- Chunks00
  Leaves <- AppsQuit
  Resilient = TRUE
  Faults = {"stalled", "down"}
SPECIFICATION Spec
INVARIANTS TypeOK RegistryClean

SYMMETRY Symmetry
CHECK_DEADLOCK FALSE
