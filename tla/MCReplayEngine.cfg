SPECIFICATION Spec
CONSTANTS
  None = None
  Grace = 1
  NegInf <- MCNegInf
  PosInf = 100
  Unusable = Unusable
  Policies <- MCPolicies
  Keys <- Keys12
  TerminalTypes = {"end"}
  TTL = 2
  Event <- MCEvent
  MayFollow <- MCMayFollow
  MaxArrivals = 4
INVARIANTS VerdictsAreMeaning HandledIsAdmitted NoEarlyReclaim LingererIsDecided
CHECK_DEADLOCK FALSE
