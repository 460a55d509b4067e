CONSTANTS
  h1 = h1
  h2 = h2
  k1 = k1
  k2 = k2
  Helpers = {h1, h2}
  Kinds = {"install", "cancel"}
  Keys = {k1}
  MaxFileRecoveries = 0
  MaxOps = 2
  MaxCrashes = 0
  Perils = {"external", "timeout", "pidreuse", "diskfull", "haste"}
SPECIFICATION Spec
SYMMETRY MCSymmetry
INVARIANTS
  CompleteIsReal
  KeyTriedOnce
