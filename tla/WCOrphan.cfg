SPECIFICATION Spec
CONSTANTS
  Images = {"a"}
  ValidImages = {"a"}
  HttpImages = {"a"}
  Profiles = {"p"}
  Modes = {"gateway"}
  Tracked = {"crb", "route"}
  Lagging = {"crb"}
  MaxLag = 2
  MaxUid = 1
  MaxEdits = 0
  MaxProfile = 0
  MaxAborts = 0
  MaxRestarts = 0
INVARIANT NoOrphan
CHECK_DEADLOCK FALSE
