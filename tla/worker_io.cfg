CONSTANTS
  Calls = {"run", "execute", "loop"}
  Jobs = {"download", "install", "other"}
  Tokens <- MCTokens
  Lines <- MCLines
  MaxWritten = 4
  PipeSize = 2
  ChanSize = 1
  MaxAnswers = 1
  MaxOutput = 2
  Second = 1
  Size = 6
  Pieces = {6}
  MaxArrived = 6
  MaxTime = 4
  MaxOps = 2
  MaxAttempts = 2
SPECIFICATION FairSpec
INVARIANTS
  TypeOK
  WholeOutput
  InstallCounted
  RateHonest
PROPERTIES
  CallEnds
  ThreadEnds
  QuestionAnswered
CHECK_DEADLOCK FALSE
