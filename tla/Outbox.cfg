CONSTANTS
  me = me
  meCaps = meCaps
  x = x
  y = y
  Addr = {me, meCaps, x, y}
  Me = me
  MeOtherwise = meCaps
  CommaNamed = {y}
  Junk = junk
  Originals <- MCOriginals
  Workers = {w}
  MaxGrant = 2
  Lapses = {"kill"}
  Written = {a}
  Dictated = {b}
  NoMail = nomail
  Typed <- MCTyped
  MaxQueue = 2
  MaxTries = 2
  MaxRunning = 1
  Faults = {"smtp", "smtp answer", "database", "append", "exit"}
SPECIFICATION FairSpec
INVARIANTS TypeOK ExpiryHonest NotLockedOut NeverTwice NothingForgotten RepliesReachAll
PROPERTIES EveryoneIsTold
CHECK_DEADLOCK FALSE
