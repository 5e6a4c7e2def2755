SPECIFICATION Spec
CONSTANTS
  Runs = {r1}
  Procs = {p1, p2}
  MaxSteps = 2
  SlowDrivers = TRUE
  Tokens = FALSE
  NoRun = NoRun
PROPERTY TerminalForever
CHECK_DEADLOCK FALSE
