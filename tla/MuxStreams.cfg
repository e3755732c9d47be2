CONSTANTS
  Stream = {s1, s2}
  Connect = {s1}
  Socks = {}
  Impatient = {}
  FrameCap = 1
  DataCap = 1
  WireCap = 1
  MaxChunk <- Chunks02
  Leaves <- Quit
  Resilient = TRUE
  Faults = {}
SPECIFICATION Spec
INVARIANTS InOrder CloseFlushes FrameOrder
PROPERTIES KeepsPromise
CHECK_DEADLOCK FALSE
