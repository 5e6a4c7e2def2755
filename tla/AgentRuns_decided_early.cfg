SPECIFICATION Spec
CONSTANTS
  Runs = {r1}
  Procs = {p1, p2}
  MaxSteps = 2
  SlowDrivers = FALSE
  Tokens = FALSE
  NoRun = NoRun
INVARIANT UnresumableRunIsOver
CHECK_DEADLOCK FALSE
