CONSTANTS
  Users = {u1}
  Instances = {i1}
  Tasks = {t1}
  NoUser = NoUser
  NoInst = NoInst
  NoTask = NoTask
  Faults = {"hang", "exit", "terminate"}
  Culls = {c1, c2}
  Deaths = 1
SPECIFICATION FairCullSpec
INVARIANTS CullTypeOK CullsRecorded
PROPERTIES CullsGetOn IdleStops CullsComplete
