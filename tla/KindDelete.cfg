SPECIFICATION Spec
CONSTANTS
  Workspaces = {w1, w2}
  Options = {a}
  None = None
  MaxRequests = 3
  MaxLag = 1
PROPERTY UsedKindKept
CHECK_DEADLOCK FALSE
