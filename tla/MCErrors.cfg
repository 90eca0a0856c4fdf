SPECIFICATION Spec
CONSTANTS
  None = None
  Thread = {t1}
  Run = {r1, r2, r3}
  Policy = {P1, P2}
  MaxRaised = 2
SYMMETRY MCSymmetry
INVARIANTS NoneMisattributed NoneLost
CHECK_DEADLOCK FALSE
