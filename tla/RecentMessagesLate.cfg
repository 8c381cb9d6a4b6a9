\* A message, or a tap, answered after the logout.
CONSTANTS
  ann = ann
  ben = ben
  cat = cat
  Users = {ann, ben, cat}
  NoUser = NoUser
  Profiled = {ann, ben, cat}
  Messages <- OneChat
  NoMessage = NoMessage
  MaxLogins = 2
  MaxTaps = 1
SPECIFICATION Spec
CHECK_DEADLOCK FALSE
INVARIANT
  UnwrapsHold
