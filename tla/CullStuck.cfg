CONSTANTS
  Users = {u1, u2}
  Instances = {i1, i2}
  Tasks = {t1}
  NoUser = NoUser
  NoInst = NoInst
  NoTask = NoTask
  Faults = {"terminate"}
  Culls = {c1}
  Deaths = 1
SPECIFICATION FairCullSpec
PROPERTIES InactiveStopped
