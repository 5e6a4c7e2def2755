SPECIFICATION Spec
CONSTANTS
  k1 = k1
  k2 = k2
  k3 = k3
  k4 = k4
  k5 = k5
  Keys = {k1, k2}
  Entry = k1
  Kind <- AgentKinds
  OnSuccess <- AgentSuccess
  OnReject <- AgentReject
  End = End
  NoRun = NoRun
  Runs = {r1}
  Procs = {p1, p2}
  MaxExecuted = 4
  MaxPauses = 1
  SlowDrivers = FALSE
  Crashes = FALSE
INVARIANTS
  AnsweredAgentResumesStep
CHECK_DEADLOCK FALSE
