SPECIFICATION Spec
CONSTANTS
  Nodes = {n1, n2}
  Puts = {p1}
  Deletes = {}
  Gets = {}
  MaxElections = 1
  MaxRequests = 1
INVARIANT AckedIsNotLost
CHECK_DEADLOCK FALSE
