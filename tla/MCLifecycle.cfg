CONSTANT MaxRuns = 3
SPECIFICATION Spec
INVARIANTS
  TypeOK
  Connected
  ThreadsStay
  TeardownAlone
  FatalOnlyAfterFailure
PROPERTY Connects
CHECK_DEADLOCK FALSE
