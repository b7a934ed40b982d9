SPECIFICATION Spec
CONSTANTS
  Candidates = {a}
  NoVote = none
  BootEntries = 1
  SnapshotInterval = 2
  KeepSnapshots = 1
  MaxIndex = 2
  MaxTerm = 1
  MaxCrashes = 1
  MaxPowerLosses = 0
  MaxIOErrors = 0
  MaxStops = 0
  MaxOverwrites = 0
  MixFaults = TRUE
INVARIANT StartSucceeds
CHECK_DEADLOCK FALSE
