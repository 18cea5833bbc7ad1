CONSTANTS
  Users = {u1}
  Instances = {i1, i2}
  Tasks = {t1, t2}
  NoUser = NoUser
  NoInst = NoInst
  NoTask = NoTask
  Faults = {"hang", "exit", "abandon", "overlap", "crash", "lost", "api", "terminate", "pid"}
SPECIFICATION FairSpec
INVARIANTS TypeOK HubAgrees SnapshotFresh
PROPERTIES Tenancy LoginsLand OrphansHaveCause WaitsShorten CallsEnd
