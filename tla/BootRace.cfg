CONSTANTS
  Calls = {u1}
  PoolSize = 1
  SshTries = 2
  RunTries = 2
  HangTries = 1
SPECIFICATION Spec
PROPERTIES NoCommandDuringSetup
