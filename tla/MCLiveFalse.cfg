SPECIFICATION Spec
CONSTANTS
  None = None
  CLOSED = CLOSED
  Grace = 4
  NegInf <- MCNegInf
  PosInf = 100
  Unusable = Unusable
  Policies <- MCLong
  Keys = {"k1"}
  TerminalTypes = {}
  TTL = None
  Event <- MCEvent
  Delays = {0}
  Unit = 2
  LastPush = 4
  MaxWall = 12
  MaxArrivals = 3
INVARIANT NoFalseTimeout
CHECK_DEADLOCK FALSE
