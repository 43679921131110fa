SPECIFICATION Spec
CONSTANTS
  MaxPosted = 2
  NBodies <- OneBody
  PageSize = 2
  MaxPages = 2
  Drains = {d1}
  Syncs = {s1, s2}
  FaultKinds = {"dispatch"}
  MaxFaults = 1
INVARIANT FailedIsRefetched
CHECK_DEADLOCK FALSE
