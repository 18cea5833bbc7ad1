CONSTANTS
  Calls = {u1, u2}
  PoolSize = 1
  SshTries = 2
  RunTries = 1
  HangTries = 1
SPECIFICATION FairSpec
INVARIANTS BootTypeOK NotebookPrepared
PROPERTIES AttemptsRunOut CallsAnswered SshdReturns LoginHeals
