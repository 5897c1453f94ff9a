CONSTANTS
  Folders = {inbox, trash}
  Inbox = inbox
  Trash = trash
  Nowhere = nowhere
  Mail = {1, 2}
  Flags = {}
  MaxId = 2
  MaxEvents = 1
  MaxCommands = 1
  Calls = {"body", "move", "empty"}
  Faults = {}
  NoId = noid
  NoMail = nomail
SPECIFICATION Spec
INVARIANTS TypeOK InFlightIsPending QuietViewAgrees
PROPERTIES OnlyLossMixes
CONSTRAINT NotAmiss
CHECK_DEADLOCK FALSE
