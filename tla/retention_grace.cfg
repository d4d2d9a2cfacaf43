SPECIFICATION Spec
CONSTANTS
  r1 = r1
  p1 = p1
  Events = {e1}
  Releases = {r1}
  ReleaseOf <- OneRelease
  ProjectOf <- OneProject
  FramesOf <- MCFramesOf
  Names <- OneName
  Versions = {v1}
  Corrupt = corrupt
  NoMap = none
  WithSnapshot = {}
  WithReplay = {}
  Readers = {}
  Writers = {w1}
  Executions = {x1}
  Ages <- AllAge
  Enabled = {"event", "sourcemap"}
  BatchSize = 1
  Attempts = 1
  MaxWrites = 1
  MaxReads = 1
  MaxPasses = 1
  Spent <- Nothing
PROPERTIES
  NoNewMapPruned
CHECK_DEADLOCK FALSE
