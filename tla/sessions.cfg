SPECIFICATION FairSpec
CONSTANTS
  b1 = b1
  b2 = b2
  t1 = t1
  t2 = t2
  t3 = t3
  c1 = c1
  c2 = c2
  Browsers = {b1, b2}
  Tabs = {t1, t2, t3}
  Calls = {c1, c2}
  Exchanges = {t1, t2, t3, c1, c2}
  BrowserOf <- MCBrowserOf
  TabOf <- MCTabOf
  Passwords = {p, q}
  FirstPassword = p
  Starts <- MCStarts
  NoPassword = NoPassword
  NoToken = NoToken
  MaxTokens = 4
  MaxOps = 2
  MaxExpired = 1
INVARIANTS
  TypeOK
  LiveSinceLastChange
  OneLiveToken
  ReuseNeedsCause
PROPERTIES
  CallsEnd
CHECK_DEADLOCK FALSE
