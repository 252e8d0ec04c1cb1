SPECIFICATION Spec
CONSTANTS
  MinInterval = 1
  Interval = 2
  Idle = 1
  MinRunning = 1
  Prober = "jupyter"
  ProbesFail = TRUE
  Timely = FALSE
  MaxTime = 4
  MaxLag = 1
  MaxRv = 6
  MaxEdits = 1
  MaxCrashes = 1
  MaxAborts = 0
  MaxTLS = 1
  MaxDisturbances = 1
INVARIANT TypeOK
PROPERTY PauseKeepsUserSpec
 
 
PROPERTY ProbesSpaced
CHECK_DEADLOCK FALSE
