CONSTANTS
  Folders = {inbox, trash}
  Inbox = inbox
  Trash = trash
  Nowhere = nowhere
  Mail = {1}
  Flags = {"seen", "flagged"}
  MaxId = 2
  MaxEvents = 1
  MaxCommands = 1
  Calls = {"move", "flag"}
  Faults = {}
  NoId = noid
  NoMail = nomail
SPECIFICATION Spec
INVARIANTS QuietViewAgrees
CONSTRAINT NotAmiss
CHECK_DEADLOCK FALSE
