SPECIFICATION Spec
CONSTANTS
  Candidates = {a}
  NoVote = none
  BootEntries = 1
  SnapshotInterval = 2
  KeepSnapshots = 1
  MaxIndex = 2
  MaxTerm = 2
  MaxCrashes = 0
  MaxPowerLosses = 0
  MaxIOErrors = 0
  MaxStops = 1
  MaxOverwrites = 0
  MixFaults = TRUE
INVARIANT VoteKept
CHECK_DEADLOCK FALSE
