\* A login that accepts, declines and leaves: no fault, no rewind, no sync.
SPECIFICATION Spec
CONSTANTS
  MaxInvites = 2
  MaxRewinds = 0
  MaxSyncs = 0
  MaxRestarts = 0
  MaxEvents = 8
  MaxQueue = 3
PROPERTIES NothingAcceptedOnYourBehalf
CHECK_DEADLOCK FALSE
