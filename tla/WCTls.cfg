SPECIFICATION Spec
CONSTANTS
  Images = {"a", "b"}
  ValidImages = {"a", "b"}
  HttpImages = {"a", "b"}
  Profiles = {"p"}
  Modes = {"gateway"}
  Tracked = {"sts", "route"}
  Lagging = {}
  MaxLag = 0
  MaxUid = 1
  MaxEdits = 2
  MaxProfile = 2
  MaxAborts = 0
  MaxRestarts = 0
INVARIANT TypeOK
INVARIANT SidecarAlways
 
CHECK_DEADLOCK FALSE
