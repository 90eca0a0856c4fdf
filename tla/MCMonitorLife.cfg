SPECIFICATION Spec
CONSTANTS
  None = None
  Policies <- MCPolicies
  Event <- MCEvent
  MayHappen <- MCMayHappen
INVARIANTS TypeOK VerdictIsMeaning
PROPERTY FinalOnce
CHECK_DEADLOCK FALSE
