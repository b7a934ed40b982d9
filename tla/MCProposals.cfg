SPECIFICATION StartedSpec
CONSTANTS
  Nodes = {n1, n2}
  Puts = {p1, p2}
  Deletes = {}
  Gets = {g1}
  MaxElections = 1
  MaxRequests = 2
SYMMETRY Symmetry
INVARIANT TypeOK
INVARIANT WaitersAreWaiting
INVARIANT QuietAckIsSound
INVARIANT StoreFollowsLog
PROPERTY ServiceKept
CHECK_DEADLOCK FALSE
