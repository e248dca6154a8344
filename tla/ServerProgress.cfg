\* Every kind of request, two threads, under fairness of the threads.
SPECIFICATION FairSpec
CONSTANTS
  Ids = {i1}
  Names = {n1}
  Keys = {k1}
  Conns = {c1, c2}
  Offered <- Everything
  MaxPosts = 1
  MaxBatch = 0
  MayCrash = TRUE
  MayRaise = TRUE
  NoThing = NoThing
INVARIANT TypeOK
PROPERTY ConnectionsEnd
CHECK_DEADLOCK FALSE
