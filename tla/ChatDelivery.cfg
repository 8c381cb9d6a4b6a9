\* One phone, two accounts that take turns on it, two messages, a crash; or two
\* phones that write to each other, or from one account.  Completions are held back
\* by the listens of homes; single reads are in the other runs.
CONSTANTS
  Devices = {d1, d2}
  Users = {alice, bob}
  NoUser = NoUser
  Messages = {m1, m2}
  Unsent = Unsent
  Refusable = {}
  ListensRefusable = FALSE
  MaxConns = 2
  MaxReads = 0
  MaxCrashes = 1
SPECIFICATION Spec
SYMMETRY Symmetry
CONSTRAINT OneOrBrief
INVARIANTS
  TypeOK
  IndexedIsStored
  RecipientAfterSender
  NothingForgotten
PROPERTIES
  FanOutOnce
