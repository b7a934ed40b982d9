SPECIFICATION FairSpec
CONSTANTS
  Controllers = {c1}
  Sizes = {3, 5}
  Modes = {"safe"}
  EditModes = {"safe"}
  MaxEdits = 1
  MaxFaults = 0
  MaxAdvances = 10
PROPERTY ScaleWalksWorkflow
