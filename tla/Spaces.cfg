\* A space created with a room of its own or in a given one, two invitees,
\* two logins of the user and two leave commands.  It ends when the bounds
\* are used up.
SPECIFICATION SpacesSpec
CONSTANTS
  Logins = {l1, l2}
  Creator = l1
  Participants = {p1, p2}
  MaxLeaves = 2
  MaxJoins = 2
INVARIANTS
  SpacesTypeOK
  CreationInOrder
PROPERTIES EvictedOnlyIfAllLeft
CHECK_DEADLOCK FALSE
