\* Two accounts and three taps: enough to lose a registration, take its email
\* again and log in.
CONSTANTS
  Emails = {ann, ben}
  NoUser = NoUser
  NoProfile = NoProfile
  MaxAttempts = 3
SPECIFICATION Spec
SYMMETRY Symmetry
INVARIANTS
  TypeOK
  OneAttempt
  HomeIsSignedIn
  ProfileIsOwn
PROPERTIES
  HomeHasProfile
  OrphanForever
