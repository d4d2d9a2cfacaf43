SPECIFICATION Spec
CONSTANTS
  r1 = r1
  p1 = p1
  Events = {e1, e2}
  Releases = {r1}
  ReleaseOf <- OneRelease
  ProjectOf <- OneProject
  FramesOf <- MCFramesOf
  Names <- OneName
  Versions = {v1}
  Corrupt = corrupt
  NoMap = none
  WithSnapshot = {}
  WithReplay = {}
  Readers = {}
  Writers = {}
  Executions = {x1, x2}
  Ages <- AllAge
  Enabled = {"event", "sourcemap"}
  BatchSize = 1
  Attempts = 1
  MaxWrites = 1
  MaxReads = 1
  MaxPasses = 2
  Spent <- Nothing
PROPERTIES
  ShortBatchDrains
CHECK_DEADLOCK FALSE
