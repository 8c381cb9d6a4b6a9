\* Three connections and a crash: the puts of two dead connections may still
\* reach the server while the third resends them.
CONSTANTS
  Devices = {d1}
  Users = {alice, bob}
  NoUser = NoUser
  Messages = {m1}
  Unsent = Unsent
  Refusable = {}
  ListensRefusable = FALSE
  MaxConns = 3
  MaxReads = 1
  MaxCrashes = 1
SPECIFICATION FairSpec
PROPERTIES
  BoxSpec
  EveryMessageDelivered
