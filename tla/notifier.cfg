CONSTANTS
  w1 = w1
  Panels = {w1}
  MaxOps = 2
  MaxFaults = 1
  MaxEnds = 1
SPECIFICATION FairSpec
INVARIANTS
  TypeOK
  ToldOnce
  HiddenBehindPanel
PROPERTIES
  NotReplayed
  ResultShown
  ProgressShown
