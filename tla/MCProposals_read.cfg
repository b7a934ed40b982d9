SPECIFICATION Spec
CONSTANTS
  Nodes = {n1, n2}
  Puts = {p1}
  Deletes = {}
  Gets = {g1}
  MaxElections = 0
  MaxRequests = 2
INVARIANT ReadsAreLinearizable
CHECK_DEADLOCK FALSE
