SPECIFICATION FairSpec
CONSTANTS
  Images = {"a", "b"}
  ValidImages = {"a", "b"}
  HttpImages = {"a", "b"}
  Profiles = {"p"}
  Modes = {"gateway", "istio", "none"}
  Tracked = {"sa", "sts", "svc", "vs", "crb", "cm", "psvc", "rg", "route", "rb"}
  Lagging = {}
  MaxLag = 0
  MaxUid = 1
  MaxEdits = 1
  MaxProfile = 0
  MaxAborts = 1
  MaxRestarts = 0
INVARIANT AtMostOne
INVARIANT Converged
PROPERTY Settles
CHECK_DEADLOCK FALSE
