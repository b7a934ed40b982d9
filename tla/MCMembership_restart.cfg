SPECIFICATION Spec
CONSTANTS
  Nodes = {a, b, c}
  a = a
  b = b
  c = c
  None = none
  InitialPeers <- MCInitialPeers
  BootOrder <- MCBootOrder
  LaterPeers <- MCLaterPeers
  SnapshotInterval = 4
  MaxLag = 0
  MaxChanges = 1
  MaxElections = 2
  MaxCrashes = 1
  MaxEvents = 6
SYMMETRY Symmetry
PROPERTY ElectionSafety
CHECK_DEADLOCK FALSE
