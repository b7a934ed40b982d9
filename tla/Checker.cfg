SPECIFICATION CheckerFairSpec
CONSTANTS
  Nodes = {n1}
  Puts = {p1}
  Deletes = {d1}
  Gets = {g1}
  MaxElections = 0
  MaxRequests = 3
INVARIANT AcceptedIsLinearizable
PROPERTY AckComesTrue
PROPERTY EveryRequestEnds
CHECK_DEADLOCK FALSE
