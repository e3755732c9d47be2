CONSTANTS
  Stream = {s1, s2, s3}
  Connect = {s1, s2, s3}
  Socks = {}
  Impatient = {}
  FrameCap = 1
  DataCap = 1
  WireCap = 1
  MaxChunk <- Chunks00
  Leaves <- Stay
  Resilient = TRUE
  Faults = {"stalled"}
SPECIFICATION FairSpec

PROPERTIES OpenPhaseEnds

CHECK_DEADLOCK FALSE
