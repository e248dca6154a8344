\* Two threads, two mailboxes, two messages; every statement may raise, restarts.
SPECIFICATION StoreFairSpec
CONSTANTS
  Ids = {i1, i2}
  Names = {n1}
  Keys = {k1}
  Threads = {t1, t2}
  MaxRows = 2
  MayRaise = TRUE
  MayCrash = TRUE
  NoOne = NoOne
  NoThing = NoThing
INVARIANT StoreTypeOK
PROPERTIES
  ImplementsDatabase
  ReadsBetweenMethods
  DeletesWhatItFetched
  LockIsFreed
