SPECIFICATION FairSpec
CONSTANTS
  Workers = {w1, w2}
  Fingerprints = {f1}
  f1 = f1
  Levels <- MCLevels
  Shapes <- MCShapes
  None = None
  NoIssue = NoIssue
  MaxJobs = 3
PROPERTY RegressionIsOneEvent
CHECK_DEADLOCK FALSE
