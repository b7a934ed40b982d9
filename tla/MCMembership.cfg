SPECIFICATION Spec
CONSTANTS
  Nodes = {a, b, c}
  a = a
  b = b
  c = c
  None = none
  InitialPeers <- MCInitialPeers
  BootOrder <- MCBootOrder
  LaterPeers <- MCLaterPeers
  SnapshotInterval = 99
  MaxLag = 0
  MaxChanges = 2
  MaxElections = 2
  MaxCrashes = 1
  MaxEvents = 5
SYMMETRY Symmetry
INVARIANT TypeOK
PROPERTY ElectionSafety
INVARIANT CaughtUpIsDurable
INVARIANT ConfigsAgree
INVARIANT MembersArePeers
INVARIANT InitialPeersReachable
CHECK_DEADLOCK FALSE
