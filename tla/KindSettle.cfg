SPECIFICATION Spec
CONSTANTS
  Workspaces = {w1}
  Options = {a, b}
  None = None
  MaxRequests = 3
  MaxLag = 1
INVARIANT TypeOK
INVARIANT Converged
PROPERTY Settles
CHECK_DEADLOCK FALSE
