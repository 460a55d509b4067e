CONSTANTS
  a1 = a1
  a2 = a2
  w1 = w1
  p1 = p1
  Pkgs = {a1, a2, w1, p1}
  Protected = {p1}
  Warning = {w1}
  MaxRounds = 2
  MaxPrompts = 2
  good = good
  plain = plain
  foreign = foreign
  Builds = {good, plain, foreign}
  Signed = {good, plain}
  Eligible = {good, foreign}
  Perils = {"external", "slow"}
SPECIFICATION VerifiedFairSpec
INVARIANTS
  TypeOK
  DryRun
  StrictestDecides
  RemovalsReported
PROPERTIES
  RefusedByOthersOnly
  CheckEnds
  ConsentVerified
