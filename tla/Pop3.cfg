CONSTANTS
  Inbox = inbox
  Trash = trash
  Sent = trash
  Folders = {inbox, trash}
  Msgs = {m1, m2}
  Outgoing = {m2}
  Ids = {i1, i2, i3}
  NoMsg = nomsg
  NoRow = norow
  MaxUid = 2
  Workers = {w}
  Clients = {c}
  KeepOnServer = FALSE
  Commands = {"sync", "sync local", "body", "flag", "move", "to inbox", "send", "empty"}
  Faults = {"retr", "crash", "session"}
  Elsewhere = {"remove"}
SPECIFICATION Spec
INVARIANTS TypeOK BodiesMatch NothingLost
SYMMETRY Symmetry
CONSTRAINT Premises
VIEW ButFlags
CHECK_DEADLOCK FALSE
