CONSTANTS
  worker = worker
  check = check
  g1 = g1
  g2 = g2
  Procs = {worker, check}
  Gens = {g1, g2}
  Sound = {g1}
  MaxCrashes = 2
  Perils = {"lost", "pidreuse", "torn"}
SPECIFICATION Spec
INVARIANTS
  TypeOK
  Exclusive
  OutcomeHolds
PROPERTIES
  TrustIsVerified
  TrustedKept
  StaleLockReclaimed
