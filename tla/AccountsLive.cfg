CONSTANTS
  Accounts = {a, b}
  Tasks = {t1, t2, t3}
  NoTask = notask
  MaxVersion = 2
  MaxQueue = 1
  MaxLate = 0
  Faults = {}
SPECIFICATION FairSpec
PROPERTIES OnlyLostCancelsHang
CHECK_DEADLOCK FALSE
