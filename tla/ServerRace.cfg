\* Two threads register one name; nothing crashes or raises.
SPECIFICATION Spec
CONSTANTS
  Ids = {i1, i2}
  Names = {n1}
  Keys = {k1}
  Conns = {c1, c2}
  Offered <- Registry
  MaxPosts = 0
  MaxBatch = 1
  MayCrash = FALSE
  MayRaise = FALSE
  NoThing = NoThing
INVARIANT UsernamesUnique
CHECK_DEADLOCK FALSE
