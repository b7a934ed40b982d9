SPECIFICATION FairSpec
CONSTANTS
  Controllers = {c1}
  Sizes = {3, 5}
  Modes = {"safe", "unsafe-early-vote", "unsafe-no-joint"}
  EditModes = {"safe", "unsafe-early-vote"}
  MaxEdits = 6
  MaxFaults = 1
  MaxAdvances = 10
INVARIANT TypeOK
INVARIANT JointFollowsStep
INVARIANT ReconfigurationsFollowEdits
PROPERTY WorkflowInOrder
PROPERTY IndexCountsCommits
PROPERTY CooldownRespected
PROPERTY ReadyMeansScaled
PROPERTY Converges
