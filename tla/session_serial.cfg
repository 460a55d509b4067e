CONSTANTS
  h1 = h1
  h2 = h2
  k1 = k1
  k2 = k2
  Helpers = {h1}
  Kinds = {"install", "cancel", "remove"}
  Keys = {k1, k2}
  MaxFileRecoveries = 2
  MaxOps = 2
  MaxCrashes = 1
  Perils = {}
SPECIFICATION FairSpec
INVARIANTS
  TypeOK
  PhaseMatchesWorker
PROPERTIES
  UpdateLockKept
  NoTakeover
  ImplementsLifecycle
  Settles
  CrashRepaired
