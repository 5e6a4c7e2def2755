SPECIFICATION Spec
CONSTANTS
  k1 = k1
  k2 = k2
  k3 = k3
  k4 = k4
  k5 = k5
  Keys = {k1, k2, k3, k4, k5}
  Entry = k1
  Kind <- FullKinds
  OnSuccess <- FullSuccess
  OnReject <- FullReject
  End = End
  NoRun = NoRun
  Runs = {r1, r2}
  Procs = {p1, p2}
  MaxExecuted = 4
  MaxPauses = 2
  SlowDrivers = FALSE
  Crashes = TRUE
INVARIANTS
  TypeOK
  StepRunsOnce
  GatedStepRanApproved
  OneDriver
  DrivenRunIsRunning
  RunWaitsWithItsStep
  SucceededRunIsWhole
  AgentStepTellsTruth
PROPERTIES
  RejectedToolStops
  TerminalForever
  WalksDefinition
  ImplementsGate
SYMMETRY Symmetry
CHECK_DEADLOCK FALSE
