\* One request, two keys; every call succeeds.
SPECIFICATION Spec
CONSTANTS
  Users = {u1, u2}
  Secrets = {k1, k2}
  MaxPosts = 4
  Types = {"KEY_REQUEST", "KEY_SEND", "TEXT"}
  MayFail = FALSE
  Acquainted = TRUE
  NoThing = NoThing
INVARIANT
  UnaskedKeysDropped
CHECK_DEADLOCK FALSE
