\* Two sign-ins, of the same or of different users, and a reconnect; one user
\* has no profile.  Two cells, three rows; one avatar is no picture.  Two
\* inboxes.
CONSTANTS
  ann = ann
  ben = ben
  cat = cat
  Users = {ann, ben, cat}
  NoUser = NoUser
  Profiled = {ann, ben}
  Messages <- ThreeMessages
  NoMessage = NoMessage
  MaxLogins = 2
  MaxTaps = 1
  Cells = {1, 2}
  Partners = {ann, ben, cat}
  WithProfile = {ann, ben}
  Pictures = {ann}
  Nobody = NoUser
  MaxShows = 3
  MaxFailures = 1
  Contacts = {ben, cat}
  Me = ann
  NoPartner = NoUser
  Texts <- ThreeTexts
  Missing <- CatsText
  MaxOpens = 2
SPECIFICATION ScreensSpec
CHECK_DEADLOCK FALSE
INVARIANTS
  TypeOK
  RowsAreOwn
  ReloadPending
  TapInBounds
  NothingWiped
  Conversation
  CellsRight
PROPERTY
  EveryPartnerListed
  EveryMessageShown
