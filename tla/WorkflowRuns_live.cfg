SPECIFICATION FairSpec
CONSTANTS
  k1 = k1
  k2 = k2
  k3 = k3
  k4 = k4
  k5 = k5
  Keys = {k1, k2, k3}
  Entry = k1
  Kind <- AskKinds
  OnSuccess <- AskSuccess
  OnReject <- AskReject
  End = End
  NoRun = NoRun
  Runs = {r1}
  Procs = {p1, p2}
  MaxExecuted = 6
  MaxPauses = 0
  SlowDrivers = FALSE
  Crashes = FALSE
INVARIANTS
  PausedRunCanMove
PROPERTIES
  RequestsEnd
  DecisionMovesStep
CHECK_DEADLOCK FALSE
