SPECIFICATION Spec
CONSTANTS
  Thread = {t1, t2, t3}
  MaxCalls = 2
  CLOSED = CLOSED
INVARIANT AcceptedIsYielded
CHECK_DEADLOCK FALSE
