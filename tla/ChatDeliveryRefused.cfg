\* Rules that may refuse any write and any listen: what still holds.
CONSTANTS
  Devices = {d1}
  Users = {alice, bob}
  NoUser = NoUser
  Messages = {m1}
  Unsent = Unsent
  Refusable = {"messages", "user-messages"}
  ListensRefusable = TRUE
  MaxConns = 3
  MaxReads = 1
  MaxCrashes = 1
SPECIFICATION Spec
SYMMETRY Symmetry
CONSTRAINT FewRequests
INVARIANTS
  OkIsStored
  HeldHasListen
