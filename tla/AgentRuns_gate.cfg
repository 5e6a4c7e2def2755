\* One run that may pause twice and go on; three requests over it; a sweep that may
\* take a live driver for a dead one; cancellation tokens.
SPECIFICATION Spec
CONSTANTS
  Runs = {r1}
  Procs = {p1, p2, p3}
  MaxSteps = 2
  SlowDrivers = TRUE
  Tokens = TRUE
  NoRun = NoRun
SYMMETRY Symmetry
INVARIANT TypeOK
INVARIANT AtMostOnce
INVARIANT RanOnlyIfApproved
INVARIANT GatedEffectRecorded
INVARIANT OneDriver
INVARIANT CountsAgree
PROPERTY DecidedOnce
PROPERTY NothingRunsAfterCancel
PROPERTY ImplementsGate
CHECK_DEADLOCK FALSE
