CONSTANTS
  h1 = h1
  h2 = h2
  k1 = k1
  k2 = k2
  Helpers = {h1}
  Kinds = {"install"}
  Keys = {k1}
  MaxFileRecoveries = 1
  MaxOps = 1
  MaxCrashes = 0
  Perils = {"external"}
SPECIFICATION Spec
PROPERTIES
  LiveLockKept
