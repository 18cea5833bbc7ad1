CONSTANTS
  Users = {u1, u2}
  Instances = {i1, i2}
  Tasks = {t1, t2}
  NoUser = NoUser
  NoInst = NoInst
  NoTask = NoTask
  Faults = {"hang"}
SPECIFICATION Spec
PROPERTIES KillsOnlyHanged
