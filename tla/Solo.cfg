CONSTANTS
  Users = {u1}
  Instances = {i1, i2}
  Tasks = {t1, t2, t3}
  NoUser = NoUser
  NoInst = NoInst
  NoTask = NoTask
  Faults = {"hang", "exit", "terminate"}
SPECIFICATION FairSpec
INVARIANTS CommandsOnTarget NoOrphan OneMachinePerUser
PROPERTIES KillsOnlyHanged TrustsOwnMachine HangEnds LoginSucceeds
