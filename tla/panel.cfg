CONSTANTS
  p1 = p1
  p2 = p2
  Pkgs = {p1}
  Clicks = {"check", "clear", "install", "cancel", "retry", "allow", "deny", "online", "offline"}
  MaxQueue = 1
  MaxOps = 2
  Others = TRUE
SPECIFICATION FairSpec
INVARIANTS
  TypeOK
  InSync
PROPERTIES
  OldResultHidden
  PanelSettles
