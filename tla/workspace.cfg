SPECIFICATION Spec
CONSTANTS
  NoUser = NoUser
  NoValue = NoValue
  NoRequest = NoRequest
  Users = {f, a}
  Founder = f
  InitialRoles = {"owner"}
  RuleBodies <- MCBodies
  RulePatches <- MCPatches
  Areas <- MCAreas
  RuleLimit = 1
  SlugTries = 3
  MaxAttempts = 2
  MaxRequests = 3
  MaxInFlight = 2
INVARIANTS
  TypeOK
  RulesWellFormed
  LimitUnlessRacing
PROPERTIES
  ConflictNeedsRivals
  OnlyAuthorizedWrites
  ActiveKeyKept
CHECK_DEADLOCK FALSE
