\* Two invites, up to seven membership events, and a rewind, a chat-list sync
\* and a restart at any moment.  It ends when the bounds are used up.
SPECIFICATION Spec
CONSTANTS
  MaxInvites = 2
  MaxRewinds = 1
  MaxSyncs = 1
  MaxRestarts = 1
  MaxEvents = 7
  MaxQueue = 3
INVARIANTS TypeOK PendingIsTheInvite
PROPERTIES NeverAcceptsUnasked NeverLeavesUnasked
CHECK_DEADLOCK FALSE
