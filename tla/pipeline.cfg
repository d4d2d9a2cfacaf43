SPECIFICATION FairSpec
CONSTANTS
  e1 = e1
  f1 = f1
  Requests = {r1, r2}
  Ids = {e1}
  Others = {o1}
  IdOf <- MCIdOf
  Fingerprints = {f1}
  FingerprintOf <- MCFingerprintOf
  Slots = {s1, s2}
  None = None
  Attempts = 3
  MaxCopies = 9
INVARIANTS
  TypeOK
  AcceptedIsKept
  CompletedMeansRecorded
  OnceUnlessDisturbed
  BoundedDuplication
  NewIssueAnnounced
PROPERTIES
  JobsSettle
CHECK_DEADLOCK FALSE
