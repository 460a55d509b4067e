CONSTANTS
  p1 = p1
  p2 = p2
  Pkgs = {p1, p2}
  Clicks = {"check", "allow"}
  MaxQueue = 2
  MaxOps = 0
  Others = FALSE
SPECIFICATION Spec
PROPERTIES
  RemovalConsented
