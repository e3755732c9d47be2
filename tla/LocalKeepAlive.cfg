CONSTANTS
  HttpScripts <- KeepAlive
  SocksScripts = {}
  BufCap = 3
  MaxHeader = 6
  MaxBody = 4
  MaxSpoken = 1
SPECIFICATION Spec
INVARIANTS OwnDestination
CHECK_DEADLOCK FALSE
