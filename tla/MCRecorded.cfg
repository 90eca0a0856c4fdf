SPECIFICATION RecordSpec
CONSTANTS
  None = None
  CLOSED = CLOSED
  Grace = 4
  NegInf <- MCNegInf
  PosInf = 100
  Unusable = Unusable
  Policies <- MCPolicies
  Keys = {"k1"}
  TerminalTypes = {"closed"}
  TTL = None
  Event <- MCEvent
  Delays = {0, 4}
  Unit = 2
  LastPush = 4
  MaxWall = 16
  MaxArrivals = 3
INVARIANTS UntimedAreMeaning   
PROPERTIES NoBusySpin TimeoutIsDue SilenceIsDecided
CHECK_DEADLOCK FALSE
