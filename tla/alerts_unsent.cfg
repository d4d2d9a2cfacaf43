SPECIFICATION FairSpec
CONSTANTS
  hasSmtpCredentials = FALSE
  Jobs = {j1, j2}
  Rules = {r1}
  Issues = {i1}
  Configs <- MCConfigs
  MaxTime = 2
  Null = Null
INVARIANT SentIsDelivered
CHECK_DEADLOCK FALSE
