SPECIFICATION CommandSpec
CONSTANTS
  None = None
  Blank = Blank
  Infinite = Infinite
  Window <- MCWindow
  Command <- MCCommand
INVARIANTS LoadedAsDeclared RegistrationsEndure CompiledAsWritten UnwarnedCanBeSeen
CHECK_DEADLOCK FALSE
