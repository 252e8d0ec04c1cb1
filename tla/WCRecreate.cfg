SPECIFICATION FairSpec
CONSTANTS
  Images = {"a", "b", "c"}
  ValidImages = {"a", "b"}
  HttpImages = {"a"}
  Profiles = {"p"}
  Modes = {"gateway"}
  Tracked = {"sa","sts","svc"}
  Lagging = {"sa","sts"}
  MaxLag = 1
  MaxUid = 2
  MaxEdits = 0
  MaxProfile = 0
  MaxAborts = 0
  MaxRestarts = 0
INVARIANT StateExplained
INVARIANT Converged
PROPERTY Settles
CHECK_DEADLOCK FALSE
