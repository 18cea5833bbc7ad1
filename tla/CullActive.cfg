CONSTANTS
  Users = {u1}
  Instances = {i1}
  Tasks = {t1, t2}
  NoUser = NoUser
  NoInst = NoInst
  NoTask = NoTask
  Faults = {}
  Culls = {c1}
  Deaths = 0
SPECIFICATION CullSpec
PROPERTIES SparesActive
