\* Two installations, two names, three registrations; methods raise and both sides crash.
SPECIFICATION EnrolmentSpec
CONSTANTS
  Clients = {a, b}
  Ids = {i1, i2, i3}
  Names = {n1, n2}
  Keys = {k1, k2}
  Conns = {c1, c2}
  Offered <- Calls
  MaxPosts = 0
  MaxBatch = 0
  MayCrash = TRUE
  MayRaise = TRUE
  NoThing = NoThing
SYMMETRY Alike
INVARIANTS
  EnrolmentTypeOK
  IdentityKept
  PeersNamedRight
  RegistrationsDurable
  DuplicatesBounded
PROPERTIES
  IdentityForLife
  EveryoneListed
CHECK_DEADLOCK FALSE
