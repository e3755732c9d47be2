CONSTANTS
  HttpScripts <- ReadAhead
  SocksScripts = {}
  BufCap = 8
  MaxHeader = 6
  MaxBody = 4
  MaxSpoken = 1
SPECIFICATION Spec
INVARIANTS Faithful
CHECK_DEADLOCK FALSE
