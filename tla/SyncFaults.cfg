CONSTANTS
  Inbox = inbox
  Trash = trash
  Folders = {inbox, trash}
  Msgs = {m1, m2}
  Ids = {i1, i2, i3}
  NoMsg = nomsg
  NoRow = norow
  NoId = noid
  MaxUid = 2
  Workers = {w}
  Clients = {}
  KeepOnServer = TRUE
  MaxValidity = 1
  Commands = {}
  Faults = {"status", "scan", "folder", "connection"}
  Elsewhere = {"expunge"}
SPECIFICATION Spec
INVARIANTS NoGap
PROPERTIES SyncCatchesUp
SYMMETRY Symmetry
CHECK_DEADLOCK FALSE
