SPECIFICATION Spec
CONSTANTS
  Images = {"a", "b"}
  ValidImages = {"a", "b"}
  HttpImages = {"a"}
  Profiles = {"p"}
  Modes = {"gateway", "none"}
  Tracked = {"crb", "route"}
  Lagging = {"ws"}
  MaxLag = 2
  MaxUid = 2
  MaxEdits = 1
  MaxProfile = 0
  MaxAborts = 1
  MaxRestarts = 1
INVARIANT FinalizerGuardsExternal
INVARIANT NoOrphan
CHECK_DEADLOCK FALSE
