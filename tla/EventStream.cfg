SPECIFICATION FairSpec
CONSTANTS
  MaxPosted = 3
  NBodies <- MCNBodies
  PageSize = 2
  MaxPages = 2
  Drains = {d1, d2}
  Syncs = {s1, s2}
  FaultKinds = {"drop", "restart", "dispatch", "save", "fetch", "world"}
  MaxFaults = 3
INVARIANTS
  TypeOK
  DrainSkipsNothing
  CompletedDrainIsComplete
  FlagHasAnOwner
PROPERTIES
  DrainsEnd
  WatermarkPromise
CHECK_DEADLOCK FALSE
