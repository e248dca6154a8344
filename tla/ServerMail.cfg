\* Mail: two threads, two mailboxes, two messages, crashes and failing commits.
SPECIFICATION Spec
CONSTANTS
  Ids = {i1, i2}
  Names = {n1}
  Keys = {k1}
  Conns = {c1, c2}
  Offered <- Mail
  MaxPosts = 2
  MaxBatch = 1
  MayCrash = TRUE
  MayRaise = TRUE
  NoThing = NoThing
SYMMETRY Everyone
INVARIANTS
  AtMostOnce
  FetchedInOrder
  NoSilentLoss
PROPERTY
  ImplementsPostal
CHECK_DEADLOCK FALSE
