SPECIFICATION GateSpec
CONSTANTS
  None = None
  Parts = {"steps"}
  StepId = {"s1", "s2"}
  Matches <- MCMatches
  Step <- MCStep
  Scenario <- MCSolo
  InitialRegistry <- MCInitialRegistry
  HomeRegistry <- Two
  MaxStepEdits = 2
  StepFunc = {1, 2, 3, 4}
  Pred = 1
  StepConstant = {11, 12}
  StepValue = {"low", "high"}
  Body <- MCBody
  InitialBodies <- MCInitialBodies
  HomeBodies <- HelpersApart
  MaxBodyEdits = 3
  Func = {1, 2, 3, 4}
  Constant = {11}
  Value = {"low", "high"}
  Def <- MCDef
  Initial <- MCInitialApps
  HomeApp <- MCHomeApp
  Policy <- MCPolicy
  MaxEdits = 2
INVARIANT NoSilentDrift
CHECK_DEADLOCK FALSE
