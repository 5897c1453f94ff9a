CONSTANTS
  Accounts = {a, b}
  Tasks = {t1, t2, t3}
  NoTask = notask
  MaxVersion = 2
  MaxQueue = 2
  MaxLate = 1
  Faults = {"database", "exchange"}
SPECIFICATION Spec
INVARIANTS OneWorker ConfigIsCurrent SecretsGone AccountsAgree ShutdownFindsAll
SYMMETRY Symmetry
CHECK_DEADLOCK FALSE
