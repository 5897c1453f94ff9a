CONSTANTS
  Inbox = inbox
  Trash = trash
  Folders = {inbox, trash}
  Msgs = {m1, m2}
  Ids = {i1, i2}
  NoMsg = nomsg
  NoRow = norow
  NoId = noid
  MaxUid = 2
  Workers = {w}
  Clients = {c}
  KeepOnServer = FALSE
  MaxValidity = 2
  Commands = {"body", "flag"}
  Faults = {"folder", "command"}
  Elsewhere = {}
SPECIFICATION Spec
INVARIANTS RowIdentity IInv
CONSTRAINT TrashStays
VIEW ButFlags
SYMMETRY Symmetry
CHECK_DEADLOCK FALSE
