CONSTANTS
  p1 = p1
  p2 = p2
  Pkgs = {p1}
  Clicks = {"check", "install"}
  MaxQueue = 1
  MaxOps = 1
  Others = FALSE
SPECIFICATION FairSpec
PROPERTIES
  FastSettles
