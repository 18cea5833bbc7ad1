CONSTANTS
  Runs = {r1, r2}
  NoRun = NoRun
  AmiRounds = 2
  Tries = 1
SPECIFICATION FairSpec
INVARIANTS LaunchTypeOK HubKeepsGroups Dismantlable BuilderReplaced HubFindsAll
PROPERTIES NameHasOneHolder RunsGetOn LaunchEnds
CHECK_DEADLOCK FALSE
