SPECIFICATION Spec
CONSTANTS
  MinInterval = 2
  Interval = 2
  Idle = 2
  MinRunning = 1
  Prober = "jupyter"
  ProbesFail = TRUE
  Timely = FALSE
  MaxTime = 5
  MaxLag = 1
  MaxRv = 20
  MaxEdits = 1
  MaxCrashes = 0
  MaxAborts = 0
  MaxTLS = 0
  MaxDisturbances = 1
PROPERTY RateLimited
CHECK_DEADLOCK FALSE
