CONSTANTS
  Stream = {s1, s2, s3}
  Connect = {s1, s3}
  Socks = {}
  Impatient = {s2}
  FrameCap = 1
  DataCap = 1
  WireCap = 1
  MaxChunk <- Chunks22
  Leaves <- Stay
  Resilient = FALSE
  Faults = {}
SPECIFICATION Spec
INVARIANTS NoCircularWait

SYMMETRY Symmetry
CHECK_DEADLOCK FALSE
