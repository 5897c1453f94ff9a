CONSTANTS
  first = first
  second = second
  Ids = {first, second}
  client = client
  other = other
  Clients = {client, other}
  None = none
  MaxTouches = 2
  Accounts <- MCAccounts
  Files = {f}
  Themes = {dark, light}
  Panes = {wide, narrow}
  NoDraft = nodraft
  NoPicker = nopicker
  NoViewer = noviewer
  NoList = nolist
  NoMenu = nomenu
  NoSettings = nosettings
  Sessions <- MCSessions
  MaxCovers = 1
SPECIFICATION Spec
INVARIANTS TypeOK ModeHasState DraftsInReach AnsweredWhereAsked MailKept SentAsSeen SettingsAgree TypedStays CodeIsExchanged
PROPERTIES FilesAsChosen SavesWhatItWasOpenedFor
CHECK_DEADLOCK FALSE
