CONSTANTS
  w1 = w1
  Panels = {w1}
  MaxOps = 1
  MaxFaults = 0
  MaxEnds = 0
SPECIFICATION WatchedSpec
PROPERTIES
  EndReported
