SPECIFICATION FairSpec
CONSTANTS
  Workers = {w1, w2}
  Fingerprints = {f1}
  f1 = f1
  Levels <- MCLevels
  Shapes <- MCShapes
  None = None
  NoIssue = NoIssue
  MaxJobs = 3
INVARIANTS
  TypeOK
  CountsEveryEvent
  RetryFindsIssue
  NoMissedRegression
  LevelJustified
PROPERTIES
  RegressionsOverlap
  ImplementsLedger
  EveryCallEnds
CHECK_DEADLOCK FALSE
