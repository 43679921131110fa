\* Two senders against Listen: every interleaving of register, poll, adopt,
\* ping and POST through three sessions, with three faults of any kind.
SPECIFICATION FairSpec
CONSTANTS
  Senders = {s1, s2}
  MaxRetries = 1
  MaxSids = 3
  MaxArrays = 2
  MaxSends = 3
  FaultKinds = {"net", "truncated", "unknownSid", "status", "undecodable", "cancel"}
  MaxFaults = 3
INVARIANTS TypeOK AckedIsHandled
PROPERTIES WireInOrder HandledOnce SendsReturn
\* Listen ends and the bounded senders fall silent.
CHECK_DEADLOCK FALSE
