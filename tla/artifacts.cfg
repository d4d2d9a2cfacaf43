SPECIFICATION Spec
CONSTANTS
  r1 = r1
  p1 = p1
  Events = {e1}
  Releases = {r1, r2}
  ReleaseOf <- OneRelease
  ProjectOf <- OneProject
  FramesOf <- MCFramesOf
  Names <- OneName
  Versions = {v1}
  Corrupt = corrupt
  NoMap = none
  WithSnapshot = {e1}
  WithReplay = {e1}
  Readers = {q1}
  Writers = {w1}
  Executions = {x1, x2}
  Ages <- AllAge
  Enabled = {"event", "sourcemap"}
  BatchSize = 1
  Attempts = 2
  MaxWrites = 1
  MaxReads = 1
  MaxPasses = 2
  Spent <- OneOrTwoPasses
INVARIANTS
  TypeOK
  StaleOnlyByRace
  DrainedAtEnd
PROPERTIES
  ResolutionKept
  PassEnds
CHECK_DEADLOCK FALSE
