CONSTANTS
  Inbox = inbox
  Trash = trash
  Folders = {inbox, trash}
  Msgs = {m1}
  Ids = {i1, i2}
  NoMsg = nomsg
  NoRow = norow
  NoId = noid
  MaxUid = 1
  Workers = {w}
  Clients = {c}
  KeepOnServer = TRUE
  MaxValidity = 1
  Commands = {"sync"}
  Faults = {}
  Elsewhere = {"flag"}
SPECIFICATION RefreshSpec
PROPERTIES NewMailArrives FlagsCatchUp
CHECK_DEADLOCK FALSE
