CONSTANTS
  Inbox = inbox
  Trash = trash
  Folders = {inbox, trash}
  Msgs = {m1, m2}
  Ids = {i1, i2}
  NoMsg = nomsg
  NoRow = norow
  NoId = noid
  MaxUid = 2
  Workers = {w}
  Clients = {c}
  KeepOnServer = TRUE
  MaxValidity = 1
  Commands = {"sync", "move", "empty"}
  Faults = {}
  Elsewhere = {}
SPECIFICATION Spec
INVARIANTS MailRetained
PROPERTIES MirrorSpec
SYMMETRY Symmetry
CHECK_DEADLOCK FALSE
