SPECIFICATION Spec
CONSTANTS
  Candidates = {a}
  NoVote = none
  BootEntries = 1
  SnapshotInterval = 1
  KeepSnapshots = 1
  MaxIndex = 2
  MaxTerm = 2
  MaxCrashes = 2
  MaxPowerLosses = 1
  MaxIOErrors = 1
  MaxStops = 1
  MaxOverwrites = 1
  MixFaults = FALSE
INVARIANT TypeOK
INVARIANT VoteDurable
INVARIANT LogDurable
INVARIANT AppliesChosen
INVARIANT StartFailsOnlyHalfWritten
CHECK_DEADLOCK FALSE
