CONSTANTS
  Users = {u1}
  Instances = {i1}
  Tasks = {t1, t2}
  NoUser = NoUser
  NoInst = NoInst
  NoTask = NoTask
  Faults = {}
SPECIFICATION Spec
PROPERTIES StopsOnlyInactive
