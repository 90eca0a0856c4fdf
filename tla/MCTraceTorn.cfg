SPECIFICATION LiveSpec
CONSTANTS
  t1 = t1
  t2 = t2
  Main = main
  Thread = {t1, t2, main}
  MaxCalls = 2
  CLOSED = CLOSED
  None = None
  p1 = p1
  p2 = p2
  Policy = {p1, p2}
  Watches <- MCWatches
  Key = {"k"}
  Type = {"a", "b", "c"}
  History = 1
  What <- MCWhat
  Engine = engine
  Viewer = {viewer}
  Wirings = {{"recorder"}}
  Outcomes <- MCOutcomes
INVARIANT LinesAreWhole
CHECK_DEADLOCK FALSE
