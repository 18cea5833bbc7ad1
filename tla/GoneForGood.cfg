CONSTANTS
  Users = {u1}
  Instances = {i1, i2}
  Tasks = {t1}
  NoUser = NoUser
  NoInst = NoInst
  NoTask = NoTask
  Faults = {"terminate"}
SPECIFICATION FairSpec
PROPERTIES GoneReplaced
