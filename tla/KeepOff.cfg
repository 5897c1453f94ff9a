CONSTANTS
  Inbox = inbox
  Trash = trash
  Folders = {inbox, trash}
  Msgs = {m1}
  Ids = {i1, i2}
  NoMsg = nomsg
  NoRow = norow
  NoId = noid
  MaxUid = 2
  Workers = {w}
  Clients = {c}
  KeepOnServer = FALSE
  MaxValidity = 1
  Commands = {"sync", "body"}
  Faults = {}
  Elsewhere = {}
SPECIFICATION Spec
INVARIANTS MailRetained
SYMMETRY Symmetry
CHECK_DEADLOCK FALSE
