\* Rules that may refuse a message: its completion block runs all the same.
CONSTANTS
  Devices = {d1}
  Users = {alice, bob}
  NoUser = NoUser
  Messages = {m1}
  Unsent = Unsent
  Refusable = {"messages"}
  ListensRefusable = FALSE
  MaxConns = 1
  MaxReads = 0
  MaxCrashes = 0
SPECIFICATION Spec
INVARIANTS
  CompletionMeansWritten
