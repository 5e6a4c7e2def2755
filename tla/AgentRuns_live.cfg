\* Every request is answered, whatever the others do.
SPECIFICATION FairSpec
CONSTANTS
  Runs = {r1}
  Procs = {p1, p2}
  MaxSteps = 2
  SlowDrivers = FALSE
  Tokens = TRUE
  NoRun = NoRun
INVARIANT PausedRunWasAsked
PROPERTIES
  TerminalForever
  RequestsEnd
CHECK_DEADLOCK FALSE
