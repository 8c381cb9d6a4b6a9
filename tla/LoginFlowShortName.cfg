\* One account is enough to register with a short name.
CONSTANTS
  Emails = {ann}
  NoUser = NoUser
  NoProfile = NoProfile
  MaxAttempts = 1
SPECIFICATION Spec
INVARIANT
  FullyRegistered
