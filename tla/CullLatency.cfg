SPECIFICATION Spec
CONSTANTS
  MinInterval = 1
  Interval = 2
  Idle = 2
  MinRunning = 3
  Prober = "exec"
  ProbesFail = FALSE
  Timely = TRUE
  MaxTime = 9
  MaxLag = 1
  MaxRv = 20
  MaxEdits = 1
  MaxCrashes = 0
  MaxAborts = 1
  MaxTLS = 0
  MaxDisturbances = 2
INVARIANT PausedInTime
CHECK_DEADLOCK FALSE
