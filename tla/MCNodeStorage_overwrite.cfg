SPECIFICATION Spec
CONSTANTS
  Candidates = {a}
  NoVote = none
  BootEntries = 1
  SnapshotInterval = 9
  KeepSnapshots = 1
  MaxIndex = 3
  MaxTerm = 2
  MaxCrashes = 0
  MaxPowerLosses = 0
  MaxIOErrors = 0
  MaxStops = 1
  MaxOverwrites = 1
  MixFaults = TRUE
INVARIANT StateMachineSafety
CHECK_DEADLOCK FALSE
