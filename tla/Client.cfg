CONSTANTS
  Base = 2
  Octet <- Bytes
  Text <- Texts
  MaxAccepted = 18
  MaxLive = 2
  Setups <- AllSetups
SPECIFICATION Spec
INVARIANTS TypeOK IdsDistinct ConfiguredInForce RoutesAsDocumented LiteralsRead FramesSurvive
CHECK_DEADLOCK FALSE
